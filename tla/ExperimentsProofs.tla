------------------------- MODULE ExperimentsProofs -------------------------
(***************************************************************************)
(* Theorems about Experiments, for any number of drivers, any lists of     *)
(* registers and lengths, and any number of deaths.                        *)
(***************************************************************************)
EXTENDS Experiments, NumberLemmas, FiniteSetTheorems

-----------------------------------------------------------------------------
(***************************************************************************)
(* The constants: what an instance is made of, and its seeds.              *)
(***************************************************************************)
LEMMA ListsAre ==
  /\ Range(MODES) \subseteq {"query", "merge"} /\ Range(ALGORITHMS) \subseteq Algorithms
  /\ Range(DATATYPES) \subseteq {"uint64", "str", "jr"}
  /\ Range(MS) \subseteq Nat /\ Range(NS) \subseteq Nat
  /\ \A m \in Range(MS) : PowerOfTwo(m)
  BY ConstantsAssumption DEF Range

\* A value of a list is found in it, and no other is found at its place.
LEMMA PlaceIs ==
  ASSUME NEW T, NEW all \in Seq(T), NEW x \in Range(all)
  PROVE  at(all, x) \in 0 .. Len(all) - 1 /\ all[at(all, x) + 1] = x
  <1>1. PICK k : k = CHOOSE l \in DOMAIN all : all[l] = x
    OBVIOUS
  <1>2. k \in DOMAIN all /\ all[k] = x
    BY <1>1 DEF Range
  <1>3. at(all, x) = k - 1
    BY <1>1 DEF at
  <1> QED BY <1>2, <1>3

LEMMA PlacesDiffer ==
  ASSUME NEW T, NEW all \in Seq(T), NEW x \in Range(all), NEW y \in Range(all),
         at(all, x) = at(all, y)
  PROVE  x = y
  BY PlaceIs

\* Two numbers written with the same last digit range agree in both parts.
LEMMA DigitsDiffer ==
  ASSUME NEW d \in Nat, NEW a \in Nat, NEW b \in Nat, NEW x \in 0 .. d - 1, NEW y \in 0 .. d - 1,
         a * d + x = b * d + y
  PROVE  a = b /\ x = y
  <1>1. d \in Nat \ {0}
    OBVIOUS
  <1>2. a * d = d * a /\ b * d = d * b
    OBVIOUS
  <1>3. (d * a + x) \div d = a /\ (d * a + x) % d = x
    BY <1>1, DivUnique
  <1>4. (d * b + y) \div d = b /\ (d * b + y) % d = y
    BY <1>1, DivUnique
  <1> QED BY <1>2, <1>3, <1>4

\* The number with the last digit x, and a before it, when there are d digits.
Digits(a, d, x) == a * d + x

LEMMA DigitsAre ==
  ASSUME NEW d \in Nat, NEW a \in Nat, NEW x \in 0 .. d - 1
  PROVE  Digits(a, d, x) \in Nat
  <1>1. a * d \in Nat
    BY Products
  <1> QED BY <1>1 DEF Digits

LEMMA SameDigits ==
  ASSUME NEW d \in Nat, NEW a \in Nat, NEW b \in Nat, NEW x \in 0 .. d - 1, NEW y \in 0 .. d - 1,
         Digits(a, d, x) = Digits(b, d, y)
  PROVE  a = b /\ x = y
  BY DigitsDiffer DEF Digits

\* No seed is given twice.
LEMMA SeedsDiffer ==
  ASSUME NEW dt \in Range(DATATYPES), NEW m \in Range(MS), NEW n \in Range(NS),
         NEW dt2 \in Range(DATATYPES), NEW m2 \in Range(MS), NEW n2 \in Range(NS),
         NEW rep \in 0 .. NUM_REPS - 1, NEW rep2 \in 0 .. NUM_REPS - 1,
         Seed(dt, m, n, rep) = Seed(dt2, m2, n2, rep2)
  PROVE  dt = dt2 /\ m = m2 /\ n = n2 /\ rep = rep2
  <1>1. /\ DATATYPES \in Seq({"uint64", "str", "jr"}) /\ MS \in Seq(Nat) /\ NS \in Seq(Nat)
        /\ NUM_REPS \in Nat
    BY ConstantsAssumption
  <1>2. PICK M \in Nat, N \in Nat : M = Len(MS) /\ N = Len(NS)
    BY <1>1
  <1>3. PICK a \in Nat, a2 \in Nat : a = at(DATATYPES, dt) /\ a2 = at(DATATYPES, dt2)
    <2>1. at(DATATYPES, dt) \in 0 .. Len(DATATYPES) - 1
      BY <1>1, PlaceIs
    <2>2. at(DATATYPES, dt2) \in 0 .. Len(DATATYPES) - 1
      BY <1>1, PlaceIs
    <2>3. \A k \in 0 .. Len(DATATYPES) - 1 : k \in Nat
      OBVIOUS
    <2> QED BY <2>1, <2>2, <2>3
  <1>4. PICK b \in 0 .. M - 1, b2 \in 0 .. M - 1 : b = at(MS, m) /\ b2 = at(MS, m2)
    BY <1>1, <1>2, PlaceIs
  <1>5. PICK c \in 0 .. N - 1, c2 \in 0 .. N - 1 : c = at(NS, n) /\ c2 = at(NS, n2)
    BY <1>1, <1>2, PlaceIs
  <1>6. PICK k \in Nat, k2 \in Nat : k = Digits(a, M, b) /\ k2 = Digits(a2, M, b2)
    BY DigitsAre
  <1>7. PICK l \in Nat, l2 \in Nat : l = Digits(k, N, c) /\ l2 = Digits(k2, N, c2)
    BY DigitsAre
  <1>8. Digits(l, NUM_REPS, rep) = Digits(l2, NUM_REPS, rep2)
    BY <1>2, <1>3, <1>4, <1>5, <1>6, <1>7 DEF Seed, Digits
  <1>9. l = l2 /\ rep = rep2
    BY <1>1, <1>8, SameDigits
  <1>10. k = k2 /\ c = c2
    <2>1. Digits(k, N, c) = Digits(k2, N, c2)
      BY <1>7, <1>9
    <2> QED BY <2>1, SameDigits
  <1>11. a = a2 /\ b = b2
    <2>1. Digits(a, M, b) = Digits(a2, M, b2)
      BY <1>6, <1>10
    <2> QED BY <2>1, SameDigits
  <1> QED BY <1>1, <1>3, <1>4, <1>5, <1>9, <1>10, <1>11, PlacesDiffer

\* Everything an instance can be.
Possible == [mode : Range(MODES), algo : Range(ALGORITHMS), dt : Range(DATATYPES),
             m : Range(MS), n : Range(NS)]

LEMMA ListedArePossible ==
  ASSUME NEW a
  PROVE  filter_instances(a) \subseteq Possible
  BY DEF filter_instances, Listed, chosen, Possible

\* The instances come first, one after the other, in the order of the loops.
LEMMA FirstIsOne ==
  ASSUME NEW T \in SUBSET Possible, T # {}
  PROVE  First(T) \in T
  <1> DEFINE turns == {Turn(i) : i \in T}
  <1>1. \A i \in T : Turn(i) \in Nat
    <2> SUFFICES ASSUME NEW i \in T PROVE Turn(i) \in Nat
      OBVIOUS
    <2>1. /\ MODES \in Seq({"query", "merge"}) /\ ALGORITHMS \in Seq(Algorithms)
          /\ DATATYPES \in Seq({"uint64", "str", "jr"}) /\ MS \in Seq(Nat) /\ NS \in Seq(Nat)
      BY ConstantsAssumption
    <2>2. /\ i.mode \in Range(MODES) /\ i.algo \in Range(ALGORITHMS) /\ i.dt \in Range(DATATYPES)
          /\ i.m \in Range(MS) /\ i.n \in Range(NS)
      BY DEF Possible
    <2>3. PICK A \in Nat, D \in Nat, M \in Nat, N \in Nat :
            A = Len(ALGORITHMS) /\ D = Len(DATATYPES) /\ M = Len(MS) /\ N = Len(NS)
      BY <2>1
    <2>4. PICK a \in Nat : a = at(MODES, i.mode)
      <3>1. PICK P \in Nat : P = Len(MODES)
        BY <2>1
      <3>2. at(MODES, i.mode) \in 0 .. P - 1
        BY <2>1, <2>2, <3>1, PlaceIs
      <3> QED BY <3>2
    <2>5. PICK b \in 0 .. A - 1 : b = at(ALGORITHMS, i.algo)
      BY <2>1, <2>2, <2>3, PlaceIs
    <2>6. PICK c \in 0 .. D - 1 : c = at(DATATYPES, i.dt)
      BY <2>1, <2>2, <2>3, PlaceIs
    <2>7. PICK e \in 0 .. M - 1 : e = at(MS, i.m)
      BY <2>1, <2>2, <2>3, PlaceIs
    <2>8. PICK f \in 0 .. N - 1 : f = at(NS, i.n)
      BY <2>1, <2>2, <2>3, PlaceIs
    <2>9. PICK x \in Nat : x = Digits(a, A, b)
      BY DigitsAre
    <2>10. PICK y \in Nat : y = Digits(x, D, c)
      BY DigitsAre
    <2>11. PICK z \in Nat : z = Digits(y, M, e)
      BY DigitsAre
    <2>12. Digits(z, N, f) \in Nat
      BY DigitsAre
    <2> QED BY <2>3, <2>4, <2>5, <2>6, <2>7, <2>8, <2>9, <2>10, <2>11, <2>12 DEF Turn, Digits
  <1>2. Min(turns) \in turns /\ \A y \in turns : Min(turns) <= y
    <2>1. turns \in SUBSET Nat /\ turns # {}
      BY <1>1
    <2> HIDE DEF turns
    <2> QED BY <2>1, MinExists
  <1>3. \E i \in T : \A j \in T : Turn(i) <= Turn(j)
    BY <1>2
  <1> QED BY <1>3 DEF First

-----------------------------------------------------------------------------
(***************************************************************************)
(* The commands: which sketch is measured under which name, and that none  *)
(* is refused.                                                             *)
(***************************************************************************)
\* The program, the algorithm and the setting that a name of an algorithm means.
Meaning(algo) ==
    CASE algo = "hyperloglog" -> <<"hyperlogloglog/measure", "hyperloglog", None>>
      [] algo = "hyperlogloglog" -> <<"hyperlogloglog/measure", "hyperlogloglog", "default">>
      [] algo = "hyperloglogloga" -> <<"hyperlogloglog/measure", "hyperlogloglog", "appendonly">>
      [] algo = "hyperlogloglogi" -> <<"hyperlogloglog/measure", "hyperlogloglog", "increaseonly">>
      [] algo = "hyperlogloglogai" ->
           <<"hyperlogloglog/measure", "hyperlogloglog", "appendincreaseonly">>
      [] algo = "hyperlogloglogb" -> <<"hyperlogloglog/measure", "hyperlogloglog", "bottom">>
      [] algo = "hyperloglogzstd" -> <<"hyperlogloglog/measure", "hyperloglogzstd", None>>
      [] algo = "hashonly" -> <<"hyperlogloglog/measure", "hashonly", None>>
      [] algo = "apache-hll4" -> <<"datasketches/measure", "hll", "4">>
      [] algo = "apache-hll6" -> <<"datasketches/measure", "hll", "6">>
      [] algo = "apache-hll8" -> <<"datasketches/measure", "hll", "8">>
      [] algo = "apache-cpc" -> <<"datasketches/measure", "cpc", None>>
      [] OTHER -> <<"zetasketch/measure.jar", None, None>>

\* No two names mean the same.
LEMMA MeaningsDiffer ==
  ASSUME NEW a \in Algorithms, NEW b \in Algorithms, Meaning(a) = Meaning(b)
  PROVE  a = b
  <1>1. None \notin Words
    BY ConstantsAssumption
  <1> QED BY <1>1 DEF Meaning, Words, Algorithms, Ours, Variants, Apache, ApacheHll

LEMMA SketchMeant ==
  ASSUME NEW i \in Possible, NEW seed
  PROVE  LET sketch == sketch_of(construct_docker_command(i, seed))
         IN  /\ Meaning(i.algo) = <<sketch.program, sketch.algorithm, sketch.setting>>
             /\ sketch.merged <=> i.mode = "merge"
             /\ sketch.m = i.m
  <1>1. i.algo \in Algorithms
    BY ListsAre DEF Possible
  <1>2. None \notin Words
    BY ConstantsAssumption
  <1>3. PICK c : c = construct_docker_command(i, seed)
    OBVIOUS
  <1>4. /\ sketch_of(c).merged <=> i.mode = "merge"
        /\ sketch_of(c).m = i.m
    BY <1>3 DEF sketch_of, construct_docker_command
  <1>5. Meaning(i.algo) = <<c.program, sketch_of(c).algorithm, sketch_of(c).setting>>
    <2>1. sketch_of(c).algorithm = c.algorithm
      BY DEF sketch_of
    <2>2. sketch_of(c).setting = IF c.bits # None THEN c.bits
                                 ELSE IF c.algorithm # "hyperlogloglog" THEN None ELSE c.flags
      BY DEF sketch_of
    <2>3. c.program = CASE i.algo \in Ours \cup {"hashonly"} -> "hyperlogloglog/measure"
                        [] i.algo \in Apache -> "datasketches/measure"
                        [] OTHER -> "zetasketch/measure.jar"
      BY <1>3, Zenon DEF construct_docker_command
    <2>4. c.algorithm = CASE i.algo \in Variants -> "hyperlogloglog"
                          [] i.algo \in ApacheHll -> "hll"
                          [] i.algo = "apache-cpc" -> "cpc"
                          [] i.algo = "zetasketch" -> None
                          [] OTHER -> i.algo
      BY <1>3, Zenon DEF construct_docker_command
    <2>5. c.flags = CASE i.algo = "hyperlogloglog" -> "default"
                      [] i.algo = "hyperloglogloga" -> "appendonly"
                      [] i.algo = "hyperlogloglogi" -> "increaseonly"
                      [] i.algo = "hyperlogloglogai" -> "appendincreaseonly"
                      [] i.algo = "hyperlogloglogb" -> "bottom"
                      [] OTHER -> None
      BY <1>3, Zenon DEF construct_docker_command
    <2>6. c.bits = CASE i.algo = "apache-hll4" -> "4"
                     [] i.algo = "apache-hll6" -> "6"
                     [] i.algo = "apache-hll8" -> "8"
                     [] OTHER -> None
      BY <1>3, Zenon DEF construct_docker_command
    <2>7. CASE i.algo \in Ours \cup {"hashonly"}
      <3>1. c.program = "hyperlogloglog/measure"
        <4>1. i.algo \notin Apache
          BY <2>7 DEF Apache, ApacheHll, Ours, Variants
        <4> QED BY <2>3, <2>7, <4>1
      <3>2. c.bits = None
        <4>1. i.algo \notin {"apache-hll4", "apache-hll6", "apache-hll8"}
          BY <2>7 DEF Ours, Variants
        <4> QED BY <2>6, <4>1
      <3>3. CASE i.algo \in Variants
        <4>1. c.algorithm = "hyperlogloglog"
          <5>1. i.algo \notin ApacheHll /\ i.algo \notin {"apache-cpc", "zetasketch"}
            BY <3>3 DEF ApacheHll, Variants
          <5> QED BY <2>4, <3>3, <5>1
        <4>2. Meaning(i.algo) = <<"hyperlogloglog/measure", "hyperlogloglog", c.flags>>
          <5>1. CASE i.algo = "hyperlogloglog"
            <6>1. c.flags = "default"
              BY <2>5, <5>1
            <6> QED BY <5>1, <6>1 DEF Meaning
          <5>2. CASE i.algo = "hyperloglogloga"
            <6>1. c.flags = "appendonly"
              BY <2>5, <5>2
            <6> QED BY <5>2, <6>1 DEF Meaning
          <5>3. CASE i.algo = "hyperlogloglogi"
            <6>1. c.flags = "increaseonly"
              BY <2>5, <5>3
            <6> QED BY <5>3, <6>1 DEF Meaning
          <5>4. CASE i.algo = "hyperlogloglogai"
            <6>1. c.flags = "appendincreaseonly"
              BY <2>5, <5>4
            <6> QED BY <5>4, <6>1 DEF Meaning
          <5>5. CASE i.algo = "hyperlogloglogb"
            <6>1. c.flags = "bottom"
              BY <2>5, <5>5
            <6> QED BY <5>5, <6>1 DEF Meaning
          <5> QED BY <3>3, <5>1, <5>2, <5>3, <5>4, <5>5 DEF Variants
        <4> QED BY <2>1, <2>2, <3>1, <3>2, <4>1, <4>2
      <3>4. CASE i.algo \notin Variants
        <4>1. i.algo \in {"hyperloglog", "hyperloglogzstd", "hashonly"}
          BY <2>7, <3>4 DEF Ours
        <4>2. i.algo # "hyperlogloglog"
          BY <4>1
        <4>3. c.algorithm = i.algo
          BY <2>4, <3>4, <4>1 DEF ApacheHll
        <4>4. Meaning(i.algo) = <<"hyperlogloglog/measure", i.algo, None>>
          BY <4>1 DEF Meaning
        <4> QED BY <2>1, <2>2, <3>1, <3>2, <4>2, <4>3, <4>4
      <3> QED BY <3>3, <3>4
    <2>8. CASE i.algo \in Apache
      <3>1. c.program = "datasketches/measure"
        BY <2>3, <2>8 DEF Apache, ApacheHll, Ours, Variants
      <3>2. i.algo \notin Variants
        BY <2>8 DEF Apache, ApacheHll, Variants
      <3>3. CASE i.algo \in ApacheHll
        <4>1. c.algorithm = "hll"
          <5>1. i.algo \notin {"apache-cpc", "zetasketch"}
            BY <3>3 DEF ApacheHll
          <5> QED BY <2>4, <3>2, <3>3, <5>1
        <4>2. c.bits \in {"4", "6", "8"}
          BY <2>6, <3>3 DEF ApacheHll
        <4>3. c.bits # None
          BY <1>2, <4>2 DEF Words
        <4>4. Meaning(i.algo) = <<"datasketches/measure", "hll", c.bits>>
          BY <2>6, <3>3 DEF Meaning, ApacheHll
        <4> QED BY <2>1, <2>2, <3>1, <4>1, <4>3, <4>4
      <3>4. CASE i.algo = "apache-cpc"
        <4>1. c.algorithm = "cpc"
          BY <2>4, <3>2, <3>4 DEF ApacheHll
        <4>2. c.bits = None
          BY <2>6, <3>4
        <4>3. Meaning(i.algo) = <<"datasketches/measure", "cpc", None>>
          BY <3>4 DEF Meaning
        <4> QED BY <2>1, <2>2, <3>1, <4>1, <4>2, <4>3
      <3> QED BY <2>8, <3>3, <3>4 DEF Apache
    <2>9. CASE i.algo = "zetasketch"
      <3>1. c.program = "zetasketch/measure.jar"
        BY <2>3, <2>9 DEF Apache, ApacheHll, Ours, Variants
      <3>2. c.algorithm = None
        BY <2>4, <2>9 DEF ApacheHll, Variants
      <3>3. c.bits = None
        BY <2>6, <2>9
      <3>4. Meaning(i.algo) = <<"zetasketch/measure.jar", None, None>>
        BY <2>9 DEF Meaning
      <3>5. None # "hyperlogloglog"
        BY <1>2 DEF Words, Algorithms, Ours, Variants
      <3> QED BY <2>1, <2>2, <3>1, <3>2, <3>3, <3>4, <3>5
    <2> QED BY <1>1, <2>7, <2>8, <2>9 DEF Algorithms
  <1> QED BY <1>3, <1>4, <1>5 DEF sketch_of

\* Every command is accepted by the generator and by the program it is piped into.
LEMMA Accepted ==
  ASSUME NEW a, NEW i \in filter_instances(a), NEW seed
  PROVE  LET c == construct_docker_command(i, seed)
         IN  generator_accepts(c.generator) /\ accepts(c)
  <1>1. i \in Possible
    BY ListedArePossible
  <1>2. /\ i.mode \in {"query", "merge"} /\ i.algo \in Algorithms
        /\ i.dt \in {"uint64", "str", "jr"} /\ i.m \in Nat /\ i.n \in Nat
        /\ PowerOfTwo(i.m)
    BY <1>1, ListsAre DEF Possible
  <1>3. /\ ~(i.mode = "merge" /\ i.algo = "hashonly")
        /\ i.algo \in Ours \/ i.dt # "jr"
        /\ ~(i.algo = "zetasketch" /\ i.m < 1024)
    BY DEF filter_instances
  <1>4. None \notin Words \cup Nat
    BY ConstantsAssumption
  <1> QED BY <1>2, <1>3, <1>4 DEF construct_docker_command, generator_accepts, accepts,
             our_measure_accepts, datasketches_measure_accepts, zetasketch_measure_accepts,
             Words, Algorithms, Ours, Variants, Apache, ApacheHll

-----------------------------------------------------------------------------
(***************************************************************************)
(* Rows: what the k-th repetition of an instance can report.               *)
(***************************************************************************)
Command(i, k) == construct_docker_command(i, Seed(i.dt, i.m, i.n, k - 1))

Arrived == {"all", "some"}

RowAt(i, k) == {Report(Command(i, k), read, printed) : read \in Arrived, printed \in Arrived}

RowSet == UNION {RowAt(i, k) : i \in Possible, k \in 1 .. NUM_REPS}

\* The first repetitions of an instance, one after the other.
RowsOf(i, rows) ==
    /\ rows \in Seq(RowSet)
    /\ Len(rows) <= NUM_REPS
    /\ \A k \in 1 .. Len(rows) : rows[k] \in RowAt(i, k)

Alike(i, j, k, l) == <<i.dt, i.m, i.n, k>> = <<j.dt, j.m, j.n, l>>

RowsCompare(i, j, k, l, row, other) ==
    /\ row.input.seed = other.input.seed <=> Alike(i, j, k, l)
    /\ Alike(i, j, k, l) => row.input = other.input
    /\ row.sketch = other.sketch <=> <<i.mode, i.algo, i.m>> = <<j.mode, j.algo, j.m>>

LEMMA RowsAreComparable ==
  ASSUME NEW i \in Possible, NEW j \in Possible, NEW k \in 1 .. NUM_REPS, NEW l \in 1 .. NUM_REPS,
         NEW row \in RowAt(i, k), NEW other \in RowAt(j, l)
  PROVE  RowsCompare(i, j, k, l, row, other)
  <1>1. /\ i.dt \in Range(DATATYPES) /\ i.m \in Range(MS) /\ i.n \in Range(NS)
        /\ j.dt \in Range(DATATYPES) /\ j.m \in Range(MS) /\ j.n \in Range(NS)
    BY DEF Possible
  <1>2. NUM_REPS \in Nat
    BY ConstantsAssumption
  <1>3. /\ row.sketch = sketch_of(Command(i, k)) /\ row.input = Command(i, k).generator
        /\ other.sketch = sketch_of(Command(j, l)) /\ other.input = Command(j, l).generator
    BY DEF RowAt, Report
  <1>4. row.input.seed = other.input.seed => Alike(i, j, k, l)
    <2> SUFFICES ASSUME row.input.seed = other.input.seed PROVE Alike(i, j, k, l)
      OBVIOUS
    <2>1. Seed(i.dt, i.m, i.n, k - 1) = Seed(j.dt, j.m, j.n, l - 1)
      BY <1>3 DEF Command, construct_docker_command
    <2>2. PICK rep \in 0 .. NUM_REPS - 1, rep2 \in 0 .. NUM_REPS - 1 : rep = k - 1 /\ rep2 = l - 1
      BY <1>2
    <2>3. i.dt = j.dt /\ i.m = j.m /\ i.n = j.n /\ rep = rep2
      BY <1>1, <2>1, <2>2, SeedsDiffer
    <2> QED BY <2>2, <2>3 DEF Alike
  <1>5. Alike(i, j, k, l) => row.input = other.input
    BY <1>3 DEF Command, construct_docker_command, Alike
  <1>6. row.sketch = other.sketch <=> <<i.mode, i.algo, i.m>> = <<j.mode, j.algo, j.m>>
    <2>1. i.mode \in {"query", "merge"} /\ j.mode \in {"query", "merge"}
          /\ i.algo \in Algorithms /\ j.algo \in Algorithms
      BY ListsAre DEF Possible
    <2>2. ASSUME row.sketch = other.sketch
          PROVE  <<i.mode, i.algo, i.m>> = <<j.mode, j.algo, j.m>>
      <3>1. Meaning(i.algo) = Meaning(j.algo) /\ (i.mode = "merge" <=> j.mode = "merge")
            /\ i.m = j.m
        BY <1>3, <2>2, SketchMeant DEF Command
      <3> QED BY <2>1, <3>1, MeaningsDiffer
    <2>3. ASSUME <<i.mode, i.algo, i.m>> = <<j.mode, j.algo, j.m>>
          PROVE  row.sketch = other.sketch
      BY <1>3, <2>3 DEF Command, construct_docker_command, sketch_of
    <2> QED BY <2>2, <2>3
  <1>7. Alike(i, j, k, l) => row.input.seed = other.input.seed
    BY <1>5
  <1> QED BY <1>4, <1>5, <1>6, <1>7 DEF RowsCompare

LEMMA OneMoreRow ==
  ASSUME NEW i \in Possible, NEW rows, RowsOf(i, rows), Len(rows) < NUM_REPS,
         NEW row \in RowAt(i, Len(rows) + 1)
  PROVE  /\ RowsOf(i, Append(rows, row))
         /\ Len(Append(rows, row)) = Len(rows) + 1
         /\ Range(Append(rows, row)) = Range(rows) \cup {row}
  <1>1. rows \in Seq(RowSet) /\ Len(rows) \in Nat /\ NUM_REPS \in Nat
    BY ConstantsAssumption DEF RowsOf
  <1>2. Len(rows) + 1 \in 1 .. NUM_REPS
    BY <1>1
  <1>3. row \in RowSet
    BY <1>2 DEF RowSet
  <1>4. /\ Append(rows, row) \in Seq(RowSet)
        /\ Len(Append(rows, row)) = Len(rows) + 1
        /\ \A k \in 1 .. Len(rows) : Append(rows, row)[k] = rows[k]
        /\ Append(rows, row)[Len(rows) + 1] = row
        /\ DOMAIN Append(rows, row) = 1 .. Len(rows) + 1 /\ DOMAIN rows = 1 .. Len(rows)
    BY <1>1, <1>3
  <1>5. \A k \in 1 .. Len(rows) + 1 : k \in 1 .. Len(rows) \/ k = Len(rows) + 1
    BY <1>1
  <1>6. RowsOf(i, Append(rows, row))
    BY <1>1, <1>2, <1>4, <1>5 DEF RowsOf
  <1>7. Range(Append(rows, row)) = Range(rows) \cup {row}
    <2>1. 1 .. Len(rows) + 1 = 1 .. Len(rows) \cup {Len(rows) + 1}
      BY <1>1
    <2> QED BY <1>4, <2>1 DEF Range
  <1> QED BY <1>4, <1>6, <1>7

-----------------------------------------------------------------------------
(***************************************************************************)
(* The state: what a driver and a file are, and what a driver knows of the *)
(* instance it runs.                                                       *)
(***************************************************************************)
Busy == {"reps", "create"} \cup Writing

DriverType ==
    [pc : {"off", "mkdir", "filter", "next", "ended", "raised", "collided", "killed"} \cup Busy,
     todo : SUBSET Possible, instance : Possible \cup {None}, results : Seq(RowSet)]

FileType == [rows : Seq(RowSet), labels : Possible \cup {None}, exists : BOOLEAN]

DriverOK(instances, x) ==
    /\ x \in DriverType
    /\ x.todo \subseteq instances
    /\ x.pc \in Busy => /\ x.instance \in instances
                        /\ RowsOf(x.instance, x.results)
                        /\ x.pc = "reps" <=> Len(x.results) < NUM_REPS

Unhurt(x) ==
    x.pc # "raised" /\ \A row \in Range(x.results) : row.read = "all" /\ row.printed = "all"

(***************************************************************************)
(* The inductive invariant: the rows of a driver and of a file are those   *)
(* of an instance, one repetition after the other; and nothing is short    *)
(* before the first death.                                                 *)
(***************************************************************************)
DriversOK ==
    /\ driver \in [Drivers -> DriverType]
    /\ \A d \in Drivers : DriverOK(Instances(d), driver[d])

FilesOK ==
    /\ files \in [Names -> FileType]
    /\ \A i \in All : RowsOf(i, files[instance_filename_stub(i)].rows)

NoneHurt == faults \in Nat /\ (faults = 0 => \A d \in Drivers : Unhurt(driver[d]))

Inv == args \in ArgChoices /\ DriversOK /\ FilesOK /\ NoneHurt

-----------------------------------------------------------------------------
LEMMA InstancesAre ==
  ASSUME args \in ArgChoices, NEW d \in Drivers
  PROVE  /\ Instances(d) = filter_instances(args[d])
         /\ Instances(d) \subseteq Possible /\ Instances(d) \subseteq All
  <1>1. args \in [Drivers -> Args]
    BY ArgsAssumption
  <1>2. args[d] \in Range(args)
    BY <1>1 DEF Range
  <1>3. Instances(d) = filter_instances(args[d])
    BY <1>2 DEF Instances, instances_of
  <1>4. Instances(d) \subseteq All
    BY DEF All
  <1> QED BY <1>3, <1>4, ListedArePossible

LEMMA AllArePossible ==
  ASSUME args \in ArgChoices
  PROVE  All \subseteq Possible
  BY InstancesAre DEF All

LEMMA StubsDiffer ==
  ASSUME NEW i \in Possible, NEW j \in Possible,
         instance_filename_stub(i) = instance_filename_stub(j)
  PROVE  i = j
  BY DEF Possible, instance_filename_stub

LEMMA DeathsCount ==
  ASSUME NEW wrote \in {"all", "some"}, NEW lines \in {"none", "some", "all"}
  PROVE  LET died == Cardinality({x \in {<<"generator", wrote>>, <<"program", lines>>} :
                                    x[2] # "all"})
         IN  died \in Nat /\ (died = 0 => wrote = "all" /\ lines = "all")
  <1>1. PICK a, b : a = <<"generator", wrote>> /\ b = <<"program", lines>>
    OBVIOUS
  <1>2. PICK dead : dead = {x \in {a, b} : x[2] # "all"}
    OBVIOUS
  <1>3. IsFiniteSet({a, b})
    <2>1. IsFiniteSet({} \cup {a})
      BY FS_EmptySet, FS_AddElement
    <2>2. IsFiniteSet(({} \cup {a}) \cup {b})
      BY <2>1, FS_AddElement
    <2>3. ({} \cup {a}) \cup {b} = {a, b}
      OBVIOUS
    <2> QED BY <2>2, <2>3
  <1>4. IsFiniteSet(dead)
    BY <1>2, <1>3, FS_Subset
  <1>5. Cardinality(dead) \in Nat /\ (Cardinality(dead) = 0 => dead = {})
    BY <1>4, FS_CardinalityType, FS_EmptySet
  <1>6. dead = {} => wrote = "all" /\ lines = "all"
    BY <1>1, <1>2
  <1> QED BY <1>1, <1>2, <1>5, <1>6

\* What a step does to its driver, and to a file.
Becomes(d, p, t, i, r) ==
    driver' = [e \in Drivers |-> IF e = d THEN [pc |-> p, todo |-> t, instance |-> i, results |-> r]
                                 ELSE driver[e]]

Rewrites(f, file) == files' = [g \in Names |-> IF g = f THEN file ELSE files[g]]

LEMMA DriverIs ==
  ASSUME NEW x \in DriverType
  PROVE  \E p, t, i, r : x = [pc |-> p, todo |-> t, instance |-> i, results |-> r]
  BY DEF DriverType

LEMMA FileIs ==
  ASSUME NEW x \in FileType
  PROVE  \E r, l, e : x = [rows |-> r, labels |-> l, exists |-> e]
  BY DEF FileType

LEMMA GotoIs ==
  ASSUME driver \in [Drivers -> DriverType], NEW d \in Drivers, NEW pc, goto(d, pc)
  PROVE  Becomes(d, pc, driver[d].todo, driver[d].instance, driver[d].results)
  <1>1. PICK x \in DriverType : x = driver[d]
    OBVIOUS
  <1>2. [x EXCEPT !.pc = pc] = [pc |-> pc, todo |-> x.todo, instance |-> x.instance,
                                results |-> x.results]
    BY DEF DriverType
  <1>3. driver' = [driver EXCEPT ![d] = [x EXCEPT !.pc = pc]]
    BY <1>1 DEF goto
  <1> QED BY <1>1, <1>2, <1>3 DEF Becomes

\* The fields of a file are written one at a time.
LEMMA RowsAreWritten ==
  ASSUME files \in [Names -> FileType], NEW f \in Names, NEW rows,
         files' = [files EXCEPT ![f].rows = rows]
  PROVE  Rewrites(f, [rows |-> rows, labels |-> files[f].labels, exists |-> files[f].exists])
  <1>1. PICK x \in FileType : x = files[f]
    OBVIOUS
  <1>2. [x EXCEPT !.rows = rows] = [rows |-> rows, labels |-> x.labels, exists |-> x.exists]
    <2>1. PICK r, l, e : x = [rows |-> r, labels |-> l, exists |-> e]
      BY FileIs
    <2> QED BY <2>1
  <1>3. files' = [files EXCEPT ![f] = [x EXCEPT !.rows = rows]]
    BY <1>1
  <1> QED BY <1>1, <1>2, <1>3 DEF Rewrites

LEMMA LabelsAreWritten ==
  ASSUME files \in [Names -> FileType], NEW f \in Names, NEW i,
         files' = [files EXCEPT ![f].labels = i]
  PROVE  Rewrites(f, [rows |-> files[f].rows, labels |-> i, exists |-> files[f].exists])
  <1>1. PICK x \in FileType : x = files[f]
    OBVIOUS
  <1>2. [x EXCEPT !.labels = i] = [rows |-> x.rows, labels |-> i, exists |-> x.exists]
    BY DEF FileType
  <1>3. files' = [files EXCEPT ![f] = [x EXCEPT !.labels = i]]
    BY <1>1
  <1> QED BY <1>1, <1>2, <1>3 DEF Rewrites

\* A driver that starts has done nothing.
LEMMA StartIs ==
  ASSUME driver \in [Drivers -> DriverType], NEW d \in Drivers, Start(d)
  PROVE  Becomes(d, IF directory THEN "filter" ELSE "mkdir", {}, None, <<>>)
  BY DEF Start, Becomes

LEMMA FilterIs ==
  ASSUME driver \in [Drivers -> DriverType], NEW d \in Drivers, Filter(d)
  PROVE  Becomes(d, "next", {i \in Instances(d) : ~files[instance_filename_stub(i)].exists},
                 driver[d].instance, driver[d].results)
  <1>1. PICK x \in DriverType : x = driver[d]
    OBVIOUS
  <1>2. PICK T : T = {i \in Instances(d) : ~files[instance_filename_stub(i)].exists}
    OBVIOUS
  <1>3. [x EXCEPT !.pc = "next", !.todo = T] =
        [pc |-> "next", todo |-> T, instance |-> x.instance, results |-> x.results]
    <2>1. PICK p, t, j, r : x = [pc |-> p, todo |-> t, instance |-> j, results |-> r]
      BY DriverIs
    <2>2. PICK y : y = [x EXCEPT !.pc = "next", !.todo = T]
      OBVIOUS
    <2>3. y.pc = "next" /\ y.todo = T /\ y.instance = x.instance /\ y.results = x.results
      BY <2>1, <2>2
    <2>4. y = [pc |-> y.pc, todo |-> y.todo, instance |-> y.instance, results |-> y.results]
      BY <2>1, <2>2
    <2> QED BY <2>2, <2>3, <2>4
  <1>4. driver' = [driver EXCEPT ![d] = [x EXCEPT !.pc = "next", !.todo = T]]
    BY <1>1, <1>2 DEF Filter
  <1> QED BY <1>1, <1>2, <1>3, <1>4 DEF Becomes

LEMMA NextInstanceIs ==
  ASSUME driver \in [Drivers -> DriverType], NEW d \in Drivers, Next_instance(d)
  PROVE  IF driver[d].todo = {}
         THEN Becomes(d, "ended", driver[d].todo, driver[d].instance, driver[d].results)
         ELSE Becomes(d, "reps", driver[d].todo \ {First(driver[d].todo)}, First(driver[d].todo), <<>>)
  <1>1. PICK x \in DriverType : x = driver[d]
    OBVIOUS
  <1>2. CASE x.todo = {}
    <2>1. goto(d, "ended")
      BY <1>1, <1>2 DEF Next_instance, goto
    <2> QED BY <1>1, <1>2, <2>1, GotoIs
  <1>3. CASE x.todo # {}
    <2>1. PICK i : i = First(x.todo)
      OBVIOUS
    <2>2. [x EXCEPT !.pc = "reps", !.results = <<>>, !.instance = i, !.todo = x.todo \ {i}] =
          [pc |-> "reps", todo |-> x.todo \ {i}, instance |-> i, results |-> <<>>]
      <3>1. PICK p, t, j, r : x = [pc |-> p, todo |-> t, instance |-> j, results |-> r]
        BY DriverIs
      <3>2. PICK u : u = x.todo \ {i}
        OBVIOUS
      <3>3. PICK y : y = [x EXCEPT !.pc = "reps", !.results = <<>>, !.instance = i, !.todo = u]
        OBVIOUS
      <3>4. y.pc = "reps" /\ y.todo = u /\ y.instance = i /\ y.results = <<>>
        BY <3>1, <3>3
      <3>5. y = [pc |-> y.pc, todo |-> y.todo, instance |-> y.instance, results |-> y.results]
        BY <3>1, <3>3
      <3> QED BY <3>2, <3>3, <3>4, <3>5
    <2>3. driver' = [driver EXCEPT ![d] = [x EXCEPT !.pc = "reps", !.results = <<>>,
                                                    !.instance = i, !.todo = x.todo \ {i}]]
      BY <1>1, <1>3, <2>1 DEF Next_instance
    <2> QED BY <1>1, <1>3, <2>1, <2>2, <2>3 DEF Becomes
  <1> QED BY <1>1, <1>2, <1>3

-----------------------------------------------------------------------------
(***************************************************************************)
(* A step of one driver leaves the others as they are.                     *)
(***************************************************************************)
LEMMA DriversStay ==
  ASSUME DriversOK, args' = args, NEW d \in Drivers, NEW p, NEW t, NEW i, NEW r,
         Becomes(d, p, t, i, r),
         DriverOK(Instances(d), [pc |-> p, todo |-> t, instance |-> i, results |-> r])
  PROVE  DriversOK'
  <1>1. PICK x : x = [pc |-> p, todo |-> t, instance |-> i, results |-> r]
    OBVIOUS
  <1>2. x \in DriverType /\ DriverOK(Instances(d), x)
    BY <1>1 DEF DriverOK
  <1>3. driver' = [e \in Drivers |-> IF e = d THEN x ELSE driver[e]]
    BY <1>1 DEF Becomes
  <1>4. \A e \in Drivers : Instances(e)' = Instances(e)
    BY DEF Instances
  <1>5. driver' \in [Drivers -> DriverType]
    BY <1>2, <1>3 DEF DriversOK
  <1>6. ASSUME NEW e \in Drivers
        PROVE  DriverOK(Instances(e), driver'[e])
    BY <1>2, <1>3 DEF DriversOK
  <1>7. ASSUME NEW e \in Drivers
        PROVE  DriverOK(Instances(e), driver[e])'
    BY <1>4, <1>6 DEF DriverOK
  <1> QED BY <1>5, <1>7 DEF DriversOK

LEMMA NoneIsHurt ==
  ASSUME DriversOK, NoneHurt, NEW d \in Drivers, NEW p, NEW t, NEW i, NEW r, Becomes(d, p, t, i, r),
         faults' \in Nat, faults' = 0 => faults = 0,
         faults' = 0 => Unhurt([pc |-> p, todo |-> t, instance |-> i, results |-> r])
  PROVE  NoneHurt'
  <1>1. PICK x : x = [pc |-> p, todo |-> t, instance |-> i, results |-> r]
    OBVIOUS
  <1>2. driver' = [e \in Drivers |-> IF e = d THEN x ELSE driver[e]]
    BY <1>1 DEF Becomes
  <1>3. ASSUME faults' = 0, NEW e \in Drivers
        PROVE  Unhurt(driver'[e])
    BY <1>1, <1>2, <1>3 DEF NoneHurt
  <1>4. ASSUME faults' = 0, NEW e \in Drivers
        PROVE  Unhurt(driver[e])'
    BY <1>3, <1>4 DEF Unhurt
  <1> QED BY <1>4 DEF NoneHurt

LEMMA FilesStay ==
  ASSUME FilesOK, args' = args, files' = files
  PROVE  FilesOK'
  BY DEF FilesOK, Names, All, Instances

LEMMA OneFileWritten ==
  ASSUME FilesOK, args \in ArgChoices, args' = args, NEW i \in All, NEW file \in FileType,
         RowsOf(i, file.rows), Rewrites(instance_filename_stub(i), file)
  PROVE  FilesOK'
  <1>1. All' = All /\ Names' = Names
    BY DEF Names, All, Instances
  <1>2. files' \in [Names -> FileType]
    BY DEF Rewrites, FilesOK
  <1>3. ASSUME NEW j \in All
        PROVE  RowsOf(j, files'[instance_filename_stub(j)].rows)
    <2>1. instance_filename_stub(j) \in Names
      BY DEF Names
    <2>2. CASE j = i
      BY <2>1, <2>2 DEF Rewrites
    <2>3. CASE j # i
      <3>1. instance_filename_stub(j) # instance_filename_stub(i)
        BY <2>3, AllArePossible, StubsDiffer
      <3> QED BY <2>1, <3>1 DEF Rewrites, FilesOK
    <2> QED BY <2>2, <2>3
  <1>4. ASSUME NEW j \in All
        PROVE  RowsOf(j, files[instance_filename_stub(j)].rows)'
    BY <1>3 DEF RowsOf
  <1> QED BY <1>1, <1>2, <1>4 DEF FilesOK

-----------------------------------------------------------------------------
(***************************************************************************)
(* Every step keeps the invariant.                                         *)
(***************************************************************************)
\* A repetition adds the next row of the instance, or the driver raises; it
\* does that, or is short of something, only over a death.
RepResult(d, p, r) ==
    LET x == [pc |-> p, todo |-> driver[d].todo, instance |-> driver[d].instance, results |-> r]
    IN  /\ Becomes(d, p, driver[d].todo, driver[d].instance, r)
        /\ DriverOK(Instances(d), x)
        /\ faults' \in Nat
        /\ faults' = 0 => faults = 0 /\ Unhurt(x)

\* What is left of Rep once its command is known to be accepted.
Ran(d, c, wrote, lines, died, results) ==
    /\ died = Cardinality({x \in {<<"generator", wrote>>, <<"program", lines>>} : x[2] # "all"})
    /\ faults' = faults + died
    /\ driver' = IF ~(lines # "none" /\ (wrote = "all" \/ ~notices_missing(c)))
                 THEN [driver EXCEPT ![d].pc = "raised"]
                 ELSE [driver EXCEPT
                         ![d].results = results,
                         ![d].pc = IF Len(results) = NUM_REPS THEN "create" ELSE "reps"]

LEMMA RepRan ==
  ASSUME NEW d, NEW c, Rep(d),
         c = construct_docker_command(Current(d), Seed(Current(d).dt, Current(d).m, Current(d).n,
                                                       Len(driver[d].results))),
         generator_accepts(c.generator), accepts(c)
  PROVE  \E wrote \in {"all", "some"}, lines \in {"none", "some", "all"}, died \in Nat :
           Ran(d, c, wrote, lines, died, Append(driver[d].results, Report(c, wrote, lines)))
  <1>1. PICK wrote \in {"all", "some"}, lines \in {"none", "some", "all"} :
          LET read == IF generator_accepts(c.generator) THEN wrote ELSE "some"
              died == Cardinality({x \in {<<"generator", wrote>>, <<"program", lines>>} :
                                     x[2] # "all"})
              reports == /\ accepts(c)
                         /\ lines # "none"
                         /\ read = "all" \/ ~notices_missing(c)
              results == Append(driver[d].results, Report(c, read, lines))
          IN  /\ faults' = faults + died
              /\ driver' = IF ~reports THEN [driver EXCEPT ![d].pc = "raised"]
                           ELSE [driver EXCEPT
                                   ![d].results = results,
                                   ![d].pc = IF Len(results) = NUM_REPS THEN "create" ELSE "reps"]
    BY ZenonT(60) DEF Rep
  <1>2. PICK read : read = IF generator_accepts(c.generator) THEN wrote ELSE "some"
    OBVIOUS
  <1>3. read = wrote
    BY <1>2
  <1>4. Cardinality({x \in {<<"generator", wrote>>, <<"program", lines>>} : x[2] # "all"}) \in Nat
    BY DeathsCount
  <1>5. PICK died \in Nat :
          died = Cardinality({x \in {<<"generator", wrote>>, <<"program", lines>>} :
                                x[2] # "all"})
    BY <1>4
  <1>6. faults' = faults + died
    BY <1>1, <1>5, ZenonT(60)
  <1>7. driver' = IF ~(lines # "none" /\ (wrote = "all" \/ ~notices_missing(c)))
                  THEN [driver EXCEPT ![d].pc = "raised"]
                  ELSE [driver EXCEPT
                          ![d].results = Append(driver[d].results, Report(c, wrote, lines)),
                          ![d].pc = IF Len(Append(driver[d].results, Report(c, wrote, lines)))
                                         = NUM_REPS
                                    THEN "create" ELSE "reps"]
    BY <1>1, <1>2, <1>3, ZenonT(60)
  <1>8. Ran(d, c, wrote, lines, died, Append(driver[d].results, Report(c, wrote, lines)))
    BY <1>5, <1>6, <1>7, ZenonT(60) DEF Ran
  <1> QED BY <1>8

LEMMA RepIs ==
  ASSUME Inv, NEW d \in Drivers, Rep(d)
  PROVE  \E p, r : p \in {"raised", "reps", "create"} /\ RepResult(d, p, r)
  <1>1. PICK x \in DriverType : x = driver[d]
    BY DEF Inv, DriversOK
  <1>2. /\ DriverOK(Instances(d), x) /\ x.pc = "reps" /\ x.instance \in Instances(d)
        /\ RowsOf(x.instance, x.results) /\ Len(x.results) < NUM_REPS
        /\ x.results \in Seq(RowSet) /\ Len(x.results) \in Nat
    BY <1>1 DEF Inv, DriversOK, DriverOK, Rep, At, Busy, RowsOf
  <1>3. PICK i \in Possible : i = x.instance
    BY <1>2, InstancesAre DEF Inv
  <1>4. PICK c : c = Command(i, Len(x.results) + 1)
    OBVIOUS
  <1>5. c = construct_docker_command(i, Seed(i.dt, i.m, i.n, Len(x.results)))
    <2>1. Len(x.results) + 1 - 1 = Len(x.results)
      BY <1>2
    <2> QED BY <1>4, <2>1 DEF Command
  <1>6. generator_accepts(c.generator) /\ accepts(c)
    BY <1>2, <1>3, <1>5, InstancesAre, Accepted DEF Inv
  <1>7. PICK wrote \in {"all", "some"}, lines \in {"none", "some", "all"}, died \in Nat :
          Ran(d, c, wrote, lines, died, Append(x.results, Report(c, wrote, lines)))
    <2>1. Current(d) = i /\ driver[d].results = x.results
      BY <1>1, <1>3 DEF Current
    <2>2. c = construct_docker_command(Current(d),
                Seed(Current(d).dt, Current(d).m, Current(d).n, Len(driver[d].results)))
      BY <1>5, <2>1
    <2>3. \E wrote \in {"all", "some"}, lines \in {"none", "some", "all"}, died \in Nat :
            Ran(d, c, wrote, lines, died, Append(driver[d].results, Report(c, wrote, lines)))
      BY <1>6, <2>2, RepRan, ZenonT(60)
    <2> QED BY <2>1, <2>3, ZenonT(60)
  <1>8. died \in Nat /\ (died = 0 => wrote = "all" /\ lines = "all")
    BY <1>7, DeathsCount DEF Ran
  <1>9. faults' \in Nat /\ (faults' = 0 => faults = 0 /\ died = 0)
    BY <1>7, <1>8 DEF Inv, NoneHurt, Ran
  <1>10. CASE ~(lines # "none" /\ (wrote = "all" \/ ~notices_missing(c)))
    <2>1. goto(d, "raised")
      BY <1>7, <1>10 DEF goto, Ran
    <2>2. Becomes(d, "raised", x.todo, x.instance, x.results)
      BY <1>1, <2>1, GotoIs DEF Inv, DriversOK
    <2>3. PICK y : y = [pc |-> "raised", todo |-> x.todo, instance |-> x.instance,
                        results |-> x.results]
      OBVIOUS
    <2>4. DriverOK(Instances(d), y)
      BY <1>2, <2>3 DEF DriverOK, DriverType, Busy, Writing
    <2>5. faults' # 0
      BY <1>8, <1>9, <1>10
    <2> QED BY <1>1, <1>9, <2>2, <2>3, <2>4, <2>5 DEF RepResult
  <1>11. CASE lines # "none" /\ (wrote = "all" \/ ~notices_missing(c))
    <2>1. PICK row : row = Report(c, wrote, lines)
      OBVIOUS
    <2>2. row \in RowAt(i, Len(x.results) + 1)
      BY <1>4, <1>11, <2>1 DEF RowAt, Arrived
    <2>3. PICK r : r = Append(x.results, row)
      OBVIOUS
    <2>4. RowsOf(i, r) /\ Len(r) = Len(x.results) + 1 /\ Range(r) = Range(x.results) \cup {row}
      BY <1>2, <1>3, <2>2, <2>3, OneMoreRow
    <2>5. PICK p \in {"reps", "create"} : p = IF Len(r) = NUM_REPS THEN "create" ELSE "reps"
      OBVIOUS
    <2>6. driver' = [driver EXCEPT ![d].results = r, ![d].pc = p]
      BY <1>7, <1>11, <2>1, <2>3, <2>5 DEF Ran
    <2>7. [x EXCEPT !.results = r, !.pc = p] =
          [pc |-> p, todo |-> x.todo, instance |-> x.instance, results |-> r]
      <3>1. PICK q, t, j, s : x = [pc |-> q, todo |-> t, instance |-> j, results |-> s]
        BY DriverIs
      <3>2. PICK y : y = [x EXCEPT !.results = r, !.pc = p]
        OBVIOUS
      <3>3. y.pc = p /\ y.todo = x.todo /\ y.instance = x.instance /\ y.results = r
        BY <3>1, <3>2
      <3>4. y = [pc |-> y.pc, todo |-> y.todo, instance |-> y.instance, results |-> y.results]
        BY <3>1, <3>2
      <3> QED BY <3>2, <3>3, <3>4
    <2>8. Becomes(d, p, x.todo, x.instance, r)
      <3>1. driver' = [driver EXCEPT ![d] = [x EXCEPT !.results = r, !.pc = p]]
        BY <1>1, <2>6 DEF Inv, DriversOK
      <3> QED BY <1>1, <2>7, <3>1 DEF Becomes, Inv, DriversOK
    <2>9. PICK y : y = [pc |-> p, todo |-> x.todo, instance |-> x.instance, results |-> r]
      OBVIOUS
    <2>10. DriverOK(Instances(d), y)
      <3>1. p = "reps" <=> Len(r) < NUM_REPS
        BY <1>2, <2>4, <2>5, ConstantsAssumption
      <3>2. y \in DriverType
        BY <1>2, <2>4, <2>9 DEF DriverType, Busy, RowsOf
      <3> QED BY <1>2, <1>3, <2>4, <2>9, <3>1, <3>2 DEF DriverOK
    <2>11. ASSUME faults' = 0
           PROVE  faults = 0 /\ Unhurt(y)
      <3>1. faults = 0 /\ wrote = "all" /\ lines = "all"
        BY <1>8, <1>9, <2>11
      <3>2. Unhurt(x)
        BY <1>1, <3>1 DEF Inv, NoneHurt
      <3>3. row.read = "all" /\ row.printed = "all"
        BY <2>1, <3>1 DEF Report
      <3> QED BY <2>4, <2>5, <2>9, <3>1, <3>2, <3>3 DEF Unhurt
    <2> QED BY <1>1, <1>9, <2>5, <2>8, <2>9, <2>10, <2>11 DEF RepResult
  <1> QED BY <1>10, <1>11

\* A driver that takes up nothing, or drops what it did, keeps its part.
Idle(instances, x, p, t, i, r) ==
    /\ p \in {"mkdir", "filter", "next", "ended", "collided", "killed"}
    /\ t \in SUBSET (instances \cap Possible)
    /\ i \in {None, x.instance} /\ r \in {<<>>, x.results}

LEMMA IdleIsOK ==
  ASSUME NEW instances, NEW x, DriverOK(instances, x),
         NEW p, NEW t, NEW i, NEW r, Idle(instances, x, p, t, i, r), NEW y,
         y = [pc |-> p, todo |-> t, instance |-> i, results |-> r]
  PROVE  DriverOK(instances, y) /\ (Unhurt(x) => Unhurt(y))
  <1>1. y \in DriverType
    <2>1. x.instance \in Possible \cup {None} /\ x.results \in Seq(RowSet)
      BY DEF DriverOK, DriverType
    <2>2. i \in Possible \cup {None} /\ t \in SUBSET Possible
      BY <2>1, Zenon DEF Idle
    <2>3. <<>> \in Seq(RowSet)
      OBVIOUS
    <2>4. r \in Seq(RowSet)
      BY <2>1, <2>3, Zenon DEF Idle
    <2> QED BY <2>2, <2>4 DEF DriverType, Idle
  <1>2. Unhurt(x) => Unhurt(y)
    BY DEF Unhurt, Range, Idle
  <1> QED BY <1>1, <1>2 DEF DriverOK, Busy, Writing, Idle

\* The same driver at its next line, with an instance in hand.
LEMMA BusyIsOK ==
  ASSUME NEW instances, NEW x, DriverOK(instances, x), x.pc \in Busy \ {"reps"},
         NEW p \in Busy \ {"reps"}, NEW y,
         y = [pc |-> p, todo |-> x.todo, instance |-> x.instance, results |-> x.results]
  PROVE  DriverOK(instances, y) /\ (Unhurt(x) => Unhurt(y))
  BY DEF DriverOK, DriverType, Unhurt, Busy, Writing

LEMMA StepOfOneDriver ==
  ASSUME Inv, NEW d \in Drivers, NEW p, NEW t, NEW i, NEW r, Becomes(d, p, t, i, r),
         args' = args, faults' = faults, FilesOK', NEW y,
         y = [pc |-> p, todo |-> t, instance |-> i, results |-> r],
         DriverOK(Instances(d), y) /\ (Unhurt(driver[d]) => Unhurt(y))
  PROVE  Inv'
  <1>1. faults \in Nat /\ (faults = 0 => Unhurt(driver[d]))
    BY DEF Inv, NoneHurt
  <1>2. DriversOK'
    BY DriversStay DEF Inv
  <1>3. NoneHurt'
    BY <1>1, NoneIsHurt DEF Inv
  <1> QED BY <1>2, <1>3 DEF Inv

LEMMA FileOfOne ==
  ASSUME Inv, NEW d \in Drivers, driver[d].pc \in Busy
  PROVE  /\ Current(d) \in Instances(d) /\ Current(d) \in All /\ Current(d) \in Possible
         /\ FileOf(d) = instance_filename_stub(Current(d)) /\ FileOf(d) \in Names
         /\ files[FileOf(d)] \in FileType
         /\ RowsOf(Current(d), driver[d].results) /\ RowsOf(Current(d), files[FileOf(d)].rows)
         /\ driver[d].pc # "reps" => Len(driver[d].results) = NUM_REPS
  <1>1. DriverOK(Instances(d), driver[d])
    BY DEF Inv, DriversOK
  <1>2. Current(d) \in Instances(d) /\ RowsOf(Current(d), driver[d].results)
    BY <1>1 DEF DriverOK, Current
  <1>3. Current(d) \in All /\ Current(d) \in Possible
    BY <1>2, InstancesAre DEF Inv
  <1>4. FileOf(d) = instance_filename_stub(Current(d)) /\ FileOf(d) \in Names
    BY <1>3 DEF FileOf, Names
  <1>5. files[FileOf(d)] \in FileType /\ RowsOf(Current(d), files[FileOf(d)].rows)
    BY <1>3, <1>4 DEF Inv, FilesOK
  <1>6. driver[d].pc # "reps" => Len(driver[d].results) = NUM_REPS
    BY <1>1, ConstantsAssumption DEF DriverOK, RowsOf
  <1> QED BY <1>2, <1>3, <1>4, <1>5, <1>6

LEMMA EmptyFileIs ==
  /\ NoFile \in FileType /\ EmptyFile \in FileType
  /\ EmptyFile = [rows |-> <<>>, labels |-> None, exists |-> TRUE]
  /\ \A i : RowsOf(i, <<>>)
  <1>1. EmptyFile = [rows |-> <<>>, labels |-> None, exists |-> TRUE]
    <2>1. PICK x : x = [rows |-> <<>>, labels |-> None, exists |-> FALSE]
      OBVIOUS
    <2>2. PICK y : y = [x EXCEPT !.exists = TRUE]
      OBVIOUS
    <2>3. y.rows = <<>> /\ y.labels = None /\ y.exists = TRUE
      BY <2>1, <2>2
    <2>4. y = [rows |-> y.rows, labels |-> y.labels, exists |-> y.exists]
      BY <2>1, <2>2
    <2> QED BY <2>1, <2>2, <2>3, <2>4 DEF EmptyFile, NoFile
  <1>2. NoFile \in FileType /\ EmptyFile \in FileType
    BY <1>1 DEF NoFile, FileType
  <1>3. \A i : RowsOf(i, <<>>)
    BY ConstantsAssumption DEF RowsOf
  <1> QED BY <1>1, <1>2, <1>3

LEMMA FillIs ==
  ASSUME Inv, NEW d \in Drivers, driver[d].pc \in Busy
  PROVE  /\ Create(d) => Rewrites(FileOf(d), EmptyFile)
         /\ Fill(d) => Rewrites(FileOf(d), [rows |-> driver[d].results,
                                            labels |-> files[FileOf(d)].labels,
                                            exists |-> files[FileOf(d)].exists])
         /\ Label(d) => Rewrites(FileOf(d), [rows |-> files[FileOf(d)].rows,
                                             labels |-> Current(d),
                                             exists |-> files[FileOf(d)].exists])
  <1>1. FileOf(d) \in Names /\ files \in [Names -> FileType]
    BY FileOfOne DEF Inv, FilesOK
  <1>2. Create(d) => Rewrites(FileOf(d), EmptyFile)
    BY <1>1 DEF Create, Rewrites
  <1>3. Fill(d) => files' = [files EXCEPT ![FileOf(d)].rows = driver[d].results]
    BY DEF Fill
  <1>4. Label(d) => files' = [files EXCEPT ![FileOf(d)].labels = Current(d)]
    BY DEF Label
  <1> QED BY <1>1, <1>2, <1>3, <1>4, RowsAreWritten, LabelsAreWritten

LEMMA InitOK ==
  ASSUME Init
  PROVE  Inv
  <1>1. args \in ArgChoices /\ faults = 0
    BY DEF Init
  <1>2. PICK x : x = [pc |-> "off", todo |-> {}, instance |-> None, results |-> <<>>]
    OBVIOUS
  <1>3. driver = [d \in Drivers |-> x]
    BY <1>2 DEF Init
  <1>4. x \in DriverType
    BY <1>2 DEF DriverType
  <1>5. \A d \in Drivers : DriverOK(Instances(d), x)
    BY <1>2, <1>4 DEF DriverOK, Busy, Writing
  <1>6. Unhurt(x)
    BY <1>2 DEF Unhurt, Range
  <1>7. FilesOK
    <2>1. files = [f \in Names |-> NoFile]
      BY DEF Init
    <2>2. \A i \in All : instance_filename_stub(i) \in Names
      BY DEF Names
    <2> QED BY <2>1, <2>2, EmptyFileIs DEF FilesOK, NoFile
  <1> QED BY <1>1, <1>3, <1>4, <1>5, <1>6, <1>7 DEF Inv, DriversOK, NoneHurt

LEMMA InvKept ==
  ASSUME Inv, [Next]_vars
  PROVE  Inv'
  <1>1. CASE UNCHANGED vars
    <2>1. args' = args /\ driver' = driver /\ files' = files /\ faults' = faults
      BY <1>1 DEF vars
    <2> QED BY <2>1 DEF Inv, DriversOK, FilesOK, NoneHurt, Names, All, Instances, DriverOK, Unhurt,
               RowsOf
  <1>2. ASSUME NEW d \in Drivers, Start(d) \/ Step(d) \/ Crash(d)
        PROVE  Inv'
    <2>1. PICK x : x = driver[d]
      OBVIOUS
    <2>2. /\ driver \in [Drivers -> DriverType] /\ x \in DriverType
          /\ DriverOK(Instances(d), x) /\ FilesOK
          /\ x.todo \in SUBSET (Instances(d) \cap Possible)
      BY <2>1, InstancesAre DEF Inv, DriversOK, DriverType, DriverOK
    <2>3. args' = args
      BY <1>2 DEF Start, Step, Crash, Mkdir, Filter, Next_instance, Rep, Create, Fill, Label
    <2>4. ASSUME NEW p, NEW t, NEW i, NEW r, Idle(Instances(d), x, p, t, i, r),
                 Becomes(d, p, t, i, r), faults' = faults, FilesOK'
          PROVE  Inv'
      <3>1. PICK y : y = [pc |-> p, todo |-> t, instance |-> i, results |-> r]
        OBVIOUS
      <3>2. DriverOK(Instances(d), y) /\ (Unhurt(x) => Unhurt(y))
        BY <2>2, <2>4, <3>1, IdleIsOK
      <3> QED BY <2>1, <2>3, <2>4, <3>1, <3>2, StepOfOneDriver
    <2>5. CASE Start(d)
      <3>1. FilesOK'
        BY <2>2, <2>3, <2>5, FilesStay DEF Start
      <3>2. Becomes(d, IF directory THEN "filter" ELSE "mkdir", {}, None, <<>>)
        BY <2>2, <2>5, StartIs
      <3>3. faults' = faults
        BY <2>5 DEF Start
      <3>4. \A p \in {"filter", "mkdir"} : Idle(Instances(d), x, p, {}, None, <<>>)
        BY DEF Idle
      <3> QED BY <2>4, <3>1, <3>2, <3>3, <3>4
    <2>6. CASE Mkdir(d)
      <3>1. FilesOK'
        BY <2>2, <2>3, <2>6, FilesStay DEF Mkdir
      <3>2. PICK p \in {"collided", "filter"} : Becomes(d, p, x.todo, x.instance, x.results)
        BY <2>1, <2>2, <2>6, GotoIs DEF Mkdir
      <3>3. faults' = faults
        BY <2>6 DEF Mkdir
      <3>4. Idle(Instances(d), x, p, x.todo, x.instance, x.results)
        BY <2>2 DEF Idle
      <3> QED BY <2>4, <3>1, <3>2, <3>3, <3>4
    <2>7. CASE Filter(d)
      <3>1. FilesOK'
        BY <2>2, <2>3, <2>7, FilesStay DEF Filter
      <3>2. PICK t : t = {i \in Instances(d) : ~files[instance_filename_stub(i)].exists}
        OBVIOUS
      <3>3. Becomes(d, "next", t, x.instance, x.results)
        BY <2>1, <2>2, <2>7, <3>2, FilterIs
      <3>4. faults' = faults
        BY <2>7 DEF Filter
      <3>5. t \in SUBSET (Instances(d) \cap Possible)
        BY <3>2, InstancesAre DEF Inv
      <3>6. Idle(Instances(d), x, "next", t, x.instance, x.results)
        BY <3>5 DEF Idle
      <3> QED BY <2>4, <3>1, <3>3, <3>4, <3>6
    <2>8. CASE Next_instance(d)
      <3>1. FilesOK' /\ faults' = faults
        BY <2>2, <2>3, <2>8, FilesStay DEF Next_instance
      <3>2. CASE x.todo = {}
        <4>1. Becomes(d, "ended", x.todo, x.instance, x.results)
          BY <2>1, <2>2, <2>8, <3>2, NextInstanceIs
        <4>2. Idle(Instances(d), x, "ended", x.todo, x.instance, x.results)
          BY <2>2 DEF Idle
        <4> QED BY <2>4, <3>1, <4>1, <4>2
      <3>3. CASE x.todo # {}
        <4>1. PICK i, t : i = First(x.todo) /\ t = x.todo \ {i}
          OBVIOUS
        <4>2. Becomes(d, "reps", t, i, <<>>)
          BY <2>1, <2>2, <2>8, <3>3, <4>1, NextInstanceIs
        <4>3. i \in Instances(d) /\ i \in Possible
          BY <2>2, <3>3, <4>1, FirstIsOne
        <4>4. PICK y : y = [pc |-> "reps", todo |-> t, instance |-> i, results |-> <<>>]
          OBVIOUS
        <4>5. y \in DriverType
          BY <2>2, <4>1, <4>3, <4>4 DEF DriverType, Busy
        <4>6. DriverOK(Instances(d), y)
          BY <2>2, <4>1, <4>3, <4>4, <4>5, EmptyFileIs, ConstantsAssumption DEF DriverOK
        <4>7. Unhurt(y)
          BY <4>4 DEF Unhurt, Range
        <4> QED BY <2>3, <3>1, <4>2, <4>4, <4>6, <4>7, StepOfOneDriver
      <3> QED BY <3>2, <3>3
    <2>9. CASE Rep(d)
      <3>1. FilesOK'
        BY <2>2, <2>3, <2>9, FilesStay DEF Rep
      <3>2. PICK p, r : RepResult(d, p, r)
        BY <2>9, RepIs
      <3>3. DriversOK'
        BY <2>3, <3>2, DriversStay DEF Inv, RepResult
      <3>4. NoneHurt'
        BY <3>2, NoneIsHurt DEF Inv, RepResult
      <3> QED BY <2>3, <3>1, <3>3, <3>4 DEF Inv
    <2>10. ASSUME x.pc \in Busy \ {"reps"}, NEW p \in Busy \ {"reps"},
                  Becomes(d, p, x.todo, x.instance, x.results), faults' = faults, FilesOK'
           PROVE  Inv'
      <3>1. PICK y : y = [pc |-> p, todo |-> x.todo, instance |-> x.instance, results |-> x.results]
        OBVIOUS
      <3>2. DriverOK(Instances(d), y) /\ (Unhurt(x) => Unhurt(y))
        BY <2>2, <2>10, <3>1, BusyIsOK
      <3> QED BY <2>1, <2>3, <2>10, <3>1, <3>2, StepOfOneDriver
    <2>11. CASE Create(d)
      <3>1. x.pc = "create" /\ x.pc \in Busy \ {"reps"} /\ faults' = faults
        BY <2>1, <2>11 DEF Create, At, Busy
      <3>2. Becomes(d, "fill", x.todo, x.instance, x.results)
        BY <2>1, <2>2, <2>11, GotoIs DEF Create
      <3>3. FilesOK'
        <4>1. Rewrites(instance_filename_stub(Current(d)), EmptyFile) /\ Current(d) \in All
          BY <2>1, <2>11, <3>1, FillIs, FileOfOne
        <4> QED BY <2>2, <2>3, <4>1, EmptyFileIs, OneFileWritten DEF Inv
      <3> QED BY <2>10, <3>1, <3>2, <3>3 DEF Busy, Writing
    <2>12. CASE Fill(d)
      <3>1. x.pc = "fill" /\ x.pc \in Busy \ {"reps"} /\ faults' = faults
        BY <2>1, <2>12 DEF Fill, At, Busy, Writing
      <3>2. Becomes(d, "label", x.todo, x.instance, x.results)
        BY <2>1, <2>2, <2>12, GotoIs DEF Fill
      <3>3. FilesOK'
        <4>1. PICK f \in FileType : f = files[FileOf(d)]
          BY <2>1, <3>1, FileOfOne
        <4>2. PICK g : g = [rows |-> x.results, labels |-> f.labels, exists |-> f.exists]
          OBVIOUS
        <4>3. g \in FileType /\ RowsOf(Current(d), g.rows) /\ Current(d) \in All
          BY <2>1, <2>2, <3>1, <4>2, FileOfOne DEF FileType, DriverType
        <4>4. Rewrites(instance_filename_stub(Current(d)), g)
          BY <2>1, <2>12, <3>1, <4>1, <4>2, FillIs, FileOfOne
        <4> QED BY <2>2, <2>3, <4>3, <4>4, OneFileWritten DEF Inv
      <3> QED BY <2>10, <3>1, <3>2, <3>3 DEF Busy, Writing
    <2>13. CASE Label(d)
      <3>1. x.pc = "label" /\ x.pc \in Busy \ {"reps"} /\ faults' = faults
        BY <2>1, <2>13 DEF Label, At, Busy, Writing
      <3>2. Becomes(d, "next", x.todo, x.instance, x.results)
        BY <2>1, <2>2, <2>13, GotoIs DEF Label
      <3>3. FilesOK'
        <4>1. PICK f \in FileType : f = files[FileOf(d)]
          BY <2>1, <3>1, FileOfOne
        <4>2. PICK g : g = [rows |-> f.rows, labels |-> Current(d), exists |-> f.exists]
          OBVIOUS
        <4>3. g \in FileType /\ RowsOf(Current(d), g.rows) /\ Current(d) \in All
          BY <2>1, <3>1, <4>1, <4>2, FileOfOne DEF FileType
        <4>4. Rewrites(instance_filename_stub(Current(d)), g)
          BY <2>1, <2>13, <3>1, <4>1, <4>2, FillIs, FileOfOne
        <4> QED BY <2>2, <2>3, <4>3, <4>4, OneFileWritten DEF Inv
      <3>4. Idle(Instances(d), x, "next", x.todo, x.instance, x.results)
        BY <2>2 DEF Idle
      <3> QED BY <2>4, <3>1, <3>2, <3>3, <3>4
    <2>14. CASE Crash(d)
      <3>1. Becomes(d, "killed", x.todo, x.instance, x.results) /\ faults' = faults
        BY <2>1, <2>2, <2>14, GotoIs DEF Crash
      <3>2. FilesOK'
        <4>1. CASE files' = files
          BY <2>2, <2>3, <4>1, FilesStay
        <4>2. CASE x.pc \in Writing /\ files' = [files EXCEPT ![FileOf(d)] = EmptyFile]
          <5>1. x.pc \in Busy
            BY <4>2 DEF Busy
          <5>2. Rewrites(instance_filename_stub(Current(d)), EmptyFile) /\ Current(d) \in All
            BY <2>1, <2>2, <4>2, <5>1, FileOfOne DEF Rewrites, FilesOK
          <5> QED BY <2>2, <2>3, <5>2, EmptyFileIs, OneFileWritten DEF Inv
        <4> QED BY <2>1, <2>14, <4>1, <4>2 DEF Crash
      <3>3. Idle(Instances(d), x, "killed", x.todo, x.instance, x.results)
        BY <2>2 DEF Idle
      <3> QED BY <2>4, <3>1, <3>2, <3>3
    <2> QED BY <1>2, <2>5, <2>6, <2>7, <2>8, <2>9, <2>11, <2>12, <2>13, <2>14 DEF Step
  <1> QED BY <1>1, <1>2 DEF Next

LEMMA InvHolds == Spec => []Inv
  <1>1. Init => Inv
    BY InitOK
  <1>2. Inv /\ [Next]_vars => Inv'
    BY InvKept
  <1> QED BY <1>1, <1>2, PTL DEF Spec

-----------------------------------------------------------------------------
(* Whatever the drivers do to each other's files, the measurements that are *)
(* recorded can be compared: the same data where data type, registers,      *)
(* length and repetition are the same, data of another seed where they are  *)
(* not, and the same sketch under one name only.                            *)
THEOREM RowsCanBeCompared == Spec => []Comparable
  <1>1. ASSUME Inv
        PROVE  Comparable
    <2> SUFFICES ASSUME NEW i \in All, NEW j \in All,
                        NEW k \in DOMAIN files[instance_filename_stub(i)].rows,
                        NEW l \in DOMAIN files[instance_filename_stub(j)].rows
                 PROVE  RowsCompare(i, j, k, l, files[instance_filename_stub(i)].rows[k],
                                    files[instance_filename_stub(j)].rows[l])
      BY DEF Comparable, RowsCompare, Alike
    <2>1. i \in Possible /\ j \in Possible
      BY <1>1, AllArePossible DEF Inv
    <2>2. PICK r, s : /\ r = files[instance_filename_stub(i)].rows
                      /\ s = files[instance_filename_stub(j)].rows
      OBVIOUS
    <2>3. RowsOf(i, r) /\ RowsOf(j, s)
      BY <1>1, <2>2 DEF Inv, FilesOK
    <2>4. k \in 1 .. Len(r) /\ l \in 1 .. Len(s)
      BY <2>2, <2>3 DEF RowsOf
    <2>5. k \in 1 .. NUM_REPS /\ l \in 1 .. NUM_REPS
      BY <2>3, <2>4, ConstantsAssumption DEF RowsOf
    <2>6. r[k] \in RowAt(i, k) /\ s[l] \in RowAt(j, l)
      BY <2>3, <2>4 DEF RowsOf
    <2> QED BY <2>1, <2>2, <2>5, <2>6, RowsAreComparable
  <1> QED BY <1>1, InvHolds, PTL

(* No container fails and no row is short before a program has died: every  *)
(* command that the script can build for an instance it lists is accepted   *)
(* by the generator and by the program it is piped into.                    *)
THEOREM NoFailureWithoutDeath == Spec => []OnlyDeathsHurt
  <1>1. Inv => OnlyDeathsHurt
    BY DEF Inv, NoneHurt, Unhurt, OnlyDeathsHurt, At
  <1> QED BY <1>1, InvHolds, PTL

-----------------------------------------------------------------------------
(***************************************************************************)
(* Command lines without a common instance: what a driver knows of the     *)
(* file of an instance of its own.  The instances it has not come to have  *)
(* no file; those it has done with have one, which is labelled and full    *)
(* unless a driver was killed over it; and the one it writes has no label. *)
(***************************************************************************)
Past == {"next", "ended"} \cup Busy

Ahead(x, i) ==
    \/ x.pc \in Past \ {"ended"} /\ i \in x.todo
    \/ x.pc \in {"reps", "create"} /\ i = x.instance

Writes(x, i) == x.pc \in Writing /\ i = x.instance

KeptAt(i, x, file, T) ==
    /\ x.pc \in Past => (file.exists <=> ~Ahead(x, i))
    /\ x.pc \in Busy /\ i = x.instance => i \notin x.todo
    /\ ~file.exists \/ Writes(x, i) => file.labels = None
    /\ x.pc = "label" /\ i = x.instance => file.rows = x.results
    /\ file.exists /\ ~Writes(x, i) => \/ instance_filename_stub(i) \in T
                                       \/ file.labels = i /\ Len(file.rows) = NUM_REPS

Kept == \A d \in Drivers : \A i \in Instances(d) :
            KeptAt(i, driver[d], files[instance_filename_stub(i)], torn)

Driver(p, t, i, r) == [pc |-> p, todo |-> t, instance |-> i, results |-> r]

\* Off the list: the driver has not looked yet, or has stopped.
LEMMA KeptOff ==
  ASSUME NEW i, NEW x, NEW file \in FileType, NEW T, KeptAt(i, x, file, T), x.pc \notin Writing,
         NEW y, y.pc \in {"filter", "mkdir", "collided", "killed", "raised"}
  PROVE  KeptAt(i, y, file, T)
  BY DEF KeptAt, Past, Busy, Writing, Writes, FileType

LEMMA KeptFilter ==
  ASSUME NEW i, NEW x, NEW file \in FileType, NEW T, KeptAt(i, x, file, T), x.pc = "filter",
         NEW y, y.pc = "next", i \in y.todo <=> ~file.exists
  PROVE  KeptAt(i, y, file, T)
  BY DEF KeptAt, Past, Busy, Writing, Writes, Ahead, FileType

LEMMA KeptNext ==
  ASSUME NEW i, NEW x, NEW file \in FileType, NEW T, KeptAt(i, x, file, T), x.pc = "next",
         NEW y,
         \/ x.todo = {} /\ y.pc = "ended"
         \/ y.pc = "reps" /\ y.instance \in x.todo /\ y.todo = x.todo \ {y.instance}
  PROVE  KeptAt(i, y, file, T)
  BY DEF KeptAt, Past, Busy, Writing, Writes, Ahead, FileType

LEMMA KeptRep ==
  ASSUME NEW i, NEW x, NEW file \in FileType, NEW T, KeptAt(i, x, file, T), x.pc = "reps",
         NEW y, y.pc \in {"reps", "create"}, y.instance = x.instance, y.todo = x.todo
  PROVE  KeptAt(i, y, file, T)
  BY DEF KeptAt, Past, Busy, Writing, Writes, Ahead, FileType

LEMMA KeptElsewhere ==
  ASSUME NEW i, NEW x, NEW file \in FileType, NEW T, KeptAt(i, x, file, T), i # x.instance,
         NEW y, y.instance = x.instance, y.todo = x.todo,
         \/ x.pc \in Busy /\ y.pc \in Past \ {"ended"}
         \/ y.pc = "killed"
  PROVE  KeptAt(i, y, file, T)
  BY DEF KeptAt, Past, Busy, Writing, Writes, Ahead, FileType

LEMMA KeptCreate ==
  ASSUME NEW i, NEW x, NEW file \in FileType, NEW T, KeptAt(i, x, file, T),
         x.pc = "create", i = x.instance,
         NEW y, y.pc = "fill", y.instance = x.instance, y.todo = x.todo
  PROVE  KeptAt(i, y, EmptyFile, T)
  <1>1. EmptyFile.labels = None /\ EmptyFile.exists
    BY EmptyFileIs
  <1> QED BY <1>1 DEF KeptAt, Past, Busy, Writing, Writes, Ahead, FileType

LEMMA KeptFill ==
  ASSUME NEW i, NEW x, NEW file \in FileType, NEW T, KeptAt(i, x, file, T),
         x.pc = "fill", i = x.instance,
         NEW y, y.pc = "label", y.instance = x.instance, y.todo = x.todo, y.results = x.results,
         NEW g, g = [rows |-> x.results, labels |-> file.labels, exists |-> file.exists]
  PROVE  KeptAt(i, y, g, T)
  BY DEF KeptAt, Past, Busy, Writing, Writes, Ahead, FileType

LEMMA KeptLabel ==
  ASSUME NEW i, NEW x, NEW file \in FileType, NEW T, KeptAt(i, x, file, T),
         x.pc = "label", i = x.instance, Len(x.results) = NUM_REPS,
         NEW y, y.pc = "next", y.instance = x.instance, y.todo = x.todo,
         NEW g, g = [rows |-> file.rows, labels |-> i, exists |-> file.exists]
  PROVE  KeptAt(i, y, g, T)
  BY DEF KeptAt, Past, Busy, Writing, Writes, Ahead, FileType

LEMMA KeptTorn ==
  ASSUME NEW i, NEW x, NEW file \in FileType, NEW T, KeptAt(i, x, file, T),
         x.pc \in Writing, i = x.instance, instance_filename_stub(i) \in T,
         NEW y, y.pc = "killed", NEW g, g = file \/ g = EmptyFile
  PROVE  KeptAt(i, y, g, T)
  <1>1. EmptyFile.labels = None /\ EmptyFile.exists
    BY EmptyFileIs
  <1> QED BY <1>1 DEF KeptAt, Past, Busy, Writing, Writes, Ahead, FileType

LEMMA KeptGrows ==
  ASSUME NEW i, NEW x, NEW file, NEW T, NEW U, T \subseteq U, KeptAt(i, x, file, T)
  PROVE  KeptAt(i, x, file, U)
  BY DEF KeptAt

-----------------------------------------------------------------------------
(***************************************************************************)
(* Disjoint command lines: a driver writes no file of another driver.      *)
(***************************************************************************)
LEMMA FilesApart ==
  ASSUME NoOverlap, args \in ArgChoices, NEW d \in Drivers, NEW e \in Drivers, d # e,
         NEW i \in Instances(d), NEW j \in Instances(e)
  PROVE  instance_filename_stub(i) # instance_filename_stub(j)
  <1>1. filter_instances(args[d]) \cap filter_instances(args[e]) = {}
    BY DEF NoOverlap
  <1>2. i # j
    BY <1>1, InstancesAre
  <1> QED BY <1>2, InstancesAre, StubsDiffer

\* A step writes the file of the driver's instance, or none.
Writer(d) ==
    \/ files' = files
    \/ driver[d].pc \in Busy /\ \E file : Rewrites(FileOf(d), file)

LEMMA KeptByStep ==
  ASSUME Inv, NoOverlap, Kept, NEW d \in Drivers, args' = args, torn \subseteq torn', Writer(d),
         NEW y, driver' = [e \in Drivers |-> IF e = d THEN y ELSE driver[e]],
         \A i \in Instances(d) : KeptAt(i, y, files'[instance_filename_stub(i)], torn')
  PROVE  Kept'
  <1>1. ASSUME NEW e \in Drivers, NEW i \in Instances(e)
        PROVE  KeptAt(i, driver'[e], files'[instance_filename_stub(i)], torn')
    <2>1. CASE e = d
      BY <1>1, <2>1
    <2>2. CASE e # d
      <3>1. driver'[e] = driver[e]
        BY <2>2
      <3>2. files'[instance_filename_stub(i)] = files[instance_filename_stub(i)]
        <4>1. CASE files' = files
          BY <4>1
        <4>2. CASE driver[d].pc \in Busy /\ \E file : Rewrites(FileOf(d), file)
          <5>1. instance_filename_stub(i) # FileOf(d)
            BY <1>1, <2>2, <4>2, FileOfOne, FilesApart DEF Inv
          <5>2. instance_filename_stub(i) \in Names
            BY <1>1, InstancesAre DEF Inv, Names
          <5> QED BY <4>2, <5>1, <5>2 DEF Rewrites
        <4> QED BY <4>1, <4>2 DEF Writer
      <3>3. KeptAt(i, driver[e], files[instance_filename_stub(i)], torn)
        BY <1>1 DEF Kept
      <3> QED BY <3>1, <3>2, <3>3, KeptGrows
    <2> QED BY <2>1, <2>2
  <1>2. \A e \in Drivers : Instances(e)' = Instances(e)
    BY DEF Instances
  <1>3. ASSUME NEW e \in Drivers, NEW i \in Instances(e)
        PROVE  KeptAt(i, driver[e], files[instance_filename_stub(i)], torn)'
    BY <1>1, <1>3 DEF KeptAt, Ahead, Writes, instance_filename_stub
  <1> QED BY <1>2, <1>3 DEF Kept

\* The file of the instance is rewritten, those of the driver's others stay.
LEMMA KeptWriting ==
  ASSUME Inv, Kept, NEW d \in Drivers, driver[d].pc \in Busy, NEW g, NEW p, NEW y,
         Rewrites(FileOf(d), g), torn \subseteq torn',
         y = Driver(p, driver[d].todo, driver[d].instance, driver[d].results),
         p \in {"next", "reps", "create", "fill", "label", "killed"},
         KeptAt(Current(d), y, g, torn')
  PROVE  \A i \in Instances(d) : KeptAt(i, y, files'[instance_filename_stub(i)], torn')
  <1> SUFFICES ASSUME NEW i \in Instances(d)
               PROVE  KeptAt(i, y, files'[instance_filename_stub(i)], torn')
    OBVIOUS
  <1>1. instance_filename_stub(i) \in Names /\ i \in Possible
    BY InstancesAre DEF Inv, Names
  <1>2. CASE i = Current(d)
    <2>1. instance_filename_stub(i) = FileOf(d)
      BY <1>2, FileOfOne
    <2> QED BY <1>1, <1>2, <2>1 DEF Rewrites
  <1>3. CASE i # Current(d)
    <2>1. instance_filename_stub(i) # FileOf(d)
      BY <1>1, <1>3, FileOfOne, StubsDiffer
    <2>2. PICK f \in FileType : f = files[instance_filename_stub(i)]
      BY <1>1 DEF Inv, FilesOK
    <2>3. files'[instance_filename_stub(i)] = f
      BY <1>1, <2>1, <2>2 DEF Rewrites
    <2>4. KeptAt(i, driver[d], f, torn')
      BY <2>2, KeptGrows DEF Kept
    <2>5. PICK x : x = driver[d]
      OBVIOUS
    <2>6. y.pc = p /\ y.todo = x.todo /\ y.instance = x.instance /\ i # x.instance
      BY <1>3, <2>5 DEF Driver, Current
    <2>7. \/ x.pc \in Busy /\ y.pc \in Past \ {"ended"}
          \/ y.pc = "killed"
      BY <2>5, <2>6 DEF Past, Busy, Writing
    <2>8. KeptAt(i, y, f, torn')
      BY <2>4, <2>5, <2>6, <2>7, KeptElsewhere
    <2> QED BY <2>3, <2>8
  <1> QED BY <1>2, <1>3

LEMMA KeptInit ==
  ASSUME Init
  PROVE  Kept
  <1> SUFFICES ASSUME NEW d \in Drivers, NEW i \in Instances(d)
               PROVE  KeptAt(i, driver[d], files[instance_filename_stub(i)], torn)
    BY DEF Kept
  <1>1. driver[d].pc = "off"
    BY DEF Init
  <1>2. Inv
    BY InitOK
  <1>3. instance_filename_stub(i) \in Names
    BY <1>2, InstancesAre DEF Inv, Names
  <1>4. files[instance_filename_stub(i)] = NoFile
    BY <1>3 DEF Init
  <1> QED BY <1>1, <1>4 DEF KeptAt, Past, Busy, Writing, Writes, NoFile

LEMMA KeptStep ==
  ASSUME Inv, Kept, NoOverlap, [Next]_vars
  PROVE  Kept'
  <1>1. CASE UNCHANGED vars
    <2>1. args' = args /\ driver' = driver /\ files' = files /\ torn' = torn
      BY <1>1 DEF vars
    <2>2. \A d \in Drivers : Instances(d)' = Instances(d)
      BY <2>1 DEF Instances
    <2>3. ASSUME NEW d \in Drivers, NEW i \in Instances(d)
          PROVE  KeptAt(i, driver[d], files[instance_filename_stub(i)], torn)'
      <3>1. KeptAt(i, driver[d], files[instance_filename_stub(i)], torn)
        BY <2>3 DEF Kept
      <3> QED BY <2>1, <3>1 DEF KeptAt, Ahead, Writes, instance_filename_stub
    <2> QED BY <2>2, <2>3 DEF Kept
  <1>2. ASSUME NEW d \in Drivers, Start(d) \/ Step(d) \/ Crash(d)
        PROVE  Kept'
    <2>1. PICK x : x = driver[d]
      OBVIOUS
    <2>2. /\ driver \in [Drivers -> DriverType] /\ x \in DriverType /\ x.todo \subseteq Instances(d)
          /\ x.todo \in SUBSET Possible
          /\ files \in [Names -> FileType]
      BY <2>1 DEF Inv, DriversOK, FilesOK, DriverType, DriverOK
    <2>3. args' = args
      BY <1>2 DEF Start, Step, Crash, Mkdir, Filter, Next_instance, Rep, Create, Fill, Label
    <2>4. ASSUME NEW i \in Instances(d)
          PROVE  /\ files[instance_filename_stub(i)] \in FileType
                 /\ KeptAt(i, x, files[instance_filename_stub(i)], torn)
      BY <2>1, <2>2, <2>4, InstancesAre DEF Inv, Names, Kept
    <2>5. ASSUME NEW p, NEW t, NEW j, NEW r, Becomes(d, p, t, j, r), files' = files, torn' = torn,
                 \A i \in Instances(d) :
                   KeptAt(i, Driver(p, t, j, r), files[instance_filename_stub(i)], torn)
          PROVE  Kept'
      <3>1. PICK y : y = Driver(p, t, j, r)
        OBVIOUS
      <3>2. driver' = [e \in Drivers |-> IF e = d THEN y ELSE driver[e]]
        BY <2>5, <3>1 DEF Becomes, Driver
      <3>3. \A i \in Instances(d) : KeptAt(i, y, files'[instance_filename_stub(i)], torn')
        BY <2>5, <3>1
      <3>4. Writer(d) /\ torn \subseteq torn'
        BY <2>5 DEF Writer
      <3> QED BY <2>3, <3>2, <3>3, <3>4, KeptByStep
    <2>6. ASSUME x.pc \in Busy, NEW g, NEW p, Becomes(d, p, x.todo, x.instance, x.results),
                 p \in {"next", "reps", "create", "fill", "label", "killed"},
                 Rewrites(FileOf(d), g), torn \subseteq torn',
                 KeptAt(Current(d), Driver(p, x.todo, x.instance, x.results), g, torn')
          PROVE  Kept'
      <3>1. PICK y : y = Driver(p, x.todo, x.instance, x.results)
        OBVIOUS
      <3>2. driver' = [e \in Drivers |-> IF e = d THEN y ELSE driver[e]]
        BY <2>6, <3>1 DEF Becomes, Driver
      <3>3. \A i \in Instances(d) : KeptAt(i, y, files'[instance_filename_stub(i)], torn')
        BY <2>1, <2>6, <3>1, KeptWriting
      <3>4. Writer(d)
        BY <2>1, <2>6 DEF Writer
      <3> QED BY <2>3, <2>6, <3>2, <3>3, <3>4, KeptByStep
    <2>7. ASSUME NEW p \in {"filter", "mkdir", "collided", "killed", "raised"},
                 NEW t, NEW j, NEW r, Becomes(d, p, t, j, r),
                 x.pc \notin Writing, files' = files, torn' = torn
          PROVE  Kept'
      <3>1. Driver(p, t, j, r).pc = p
        BY DEF Driver
      <3>2. \A i \in Instances(d) :
              KeptAt(i, Driver(p, t, j, r), files[instance_filename_stub(i)], torn)
        BY <2>4, <2>7, <3>1, KeptOff
      <3> QED BY <2>5, <2>7, <3>2
    <2>8. CASE Start(d)
      <3>1. Becomes(d, IF directory THEN "filter" ELSE "mkdir", {}, None, <<>>)
        BY <2>2, <2>8, StartIs
      <3>2. x.pc \notin Writing /\ files' = files /\ torn' = torn
        BY <2>1, <2>8 DEF Start, Running, Writing
      <3> QED BY <2>7, <3>1, <3>2
    <2>9. CASE Mkdir(d)
      <3>1. PICK p \in {"collided", "filter"} : Becomes(d, p, x.todo, x.instance, x.results)
        BY <2>1, <2>2, <2>9, GotoIs DEF Mkdir
      <3>2. x.pc \notin Writing /\ files' = files /\ torn' = torn
        BY <2>1, <2>9 DEF Mkdir, At, Writing
      <3> QED BY <2>7, <3>1, <3>2
    <2>10. CASE Filter(d)
      <3>1. PICK t : t = {i \in Instances(d) : ~files[instance_filename_stub(i)].exists}
        OBVIOUS
      <3>2. Becomes(d, "next", t, x.instance, x.results)
        BY <2>1, <2>2, <2>10, <3>1, FilterIs
      <3>3. x.pc = "filter" /\ files' = files /\ torn' = torn
        BY <2>1, <2>10 DEF Filter, At
      <3>4. PICK y : y = Driver("next", t, x.instance, x.results)
        OBVIOUS
      <3>5. y.pc = "next" /\ y.todo = t
        BY <3>4 DEF Driver
      <3>6. \A i \in Instances(d) : KeptAt(i, y, files[instance_filename_stub(i)], torn)
        BY <2>4, <3>1, <3>3, <3>5, KeptFilter
      <3> QED BY <2>5, <3>2, <3>3, <3>4, <3>6
    <2>11. CASE Next_instance(d)
      <3>1. x.pc = "next" /\ files' = files /\ torn' = torn
        BY <2>1, <2>11 DEF Next_instance, At
      <3>2. CASE x.todo = {}
        <4>1. Becomes(d, "ended", x.todo, x.instance, x.results)
          BY <2>1, <2>2, <2>11, <3>2, NextInstanceIs
        <4>2. PICK y : y = Driver("ended", x.todo, x.instance, x.results)
          OBVIOUS
        <4>3. y.pc = "ended"
          BY <4>2 DEF Driver
        <4>4. \A i \in Instances(d) : KeptAt(i, y, files[instance_filename_stub(i)], torn)
          BY <2>4, <3>1, <3>2, <4>3, KeptNext
        <4> QED BY <2>5, <3>1, <4>1, <4>2, <4>4
      <3>3. CASE x.todo # {}
        <4>1. PICK n, t : n = First(x.todo) /\ t = x.todo \ {n}
          OBVIOUS
        <4>2. Becomes(d, "reps", t, n, <<>>)
          BY <2>1, <2>2, <2>11, <3>3, <4>1, NextInstanceIs
        <4>3. n \in x.todo
          BY <2>2, <3>3, <4>1, FirstIsOne
        <4>4. PICK y : y = Driver("reps", t, n, <<>>)
          OBVIOUS
        <4>5. y.pc = "reps" /\ y.instance = n /\ y.todo = t
          BY <4>4 DEF Driver
        <4>6. \A i \in Instances(d) : KeptAt(i, y, files[instance_filename_stub(i)], torn)
          BY <2>4, <3>1, <4>1, <4>3, <4>5, KeptNext
        <4> QED BY <2>5, <3>1, <4>2, <4>4, <4>6
      <3> QED BY <3>2, <3>3
    <2>12. CASE Rep(d)
      <3>1. x.pc = "reps" /\ files' = files /\ torn' = torn
        BY <2>1, <2>12 DEF Rep, At
      <3>2. PICK p, r : p \in {"raised", "reps", "create"} /\ Becomes(d, p, x.todo, x.instance, r)
        <4>1. PICK p, r : p \in {"raised", "reps", "create"} /\ RepResult(d, p, r)
          BY <2>12, RepIs
        <4>2. Becomes(d, p, x.todo, x.instance, r)
          BY <2>1, <4>1 DEF RepResult
        <4> QED BY <4>1, <4>2
      <3>3. CASE p = "raised"
        BY <2>7, <3>1, <3>2, <3>3 DEF Writing
      <3>4. CASE p \in {"reps", "create"}
        <4>1. PICK y : y = Driver(p, x.todo, x.instance, r)
          OBVIOUS
        <4>2. y.pc = p /\ y.todo = x.todo /\ y.instance = x.instance
          BY <4>1 DEF Driver
        <4>3. \A i \in Instances(d) : KeptAt(i, y, files[instance_filename_stub(i)], torn)
          BY <2>4, <3>1, <3>4, <4>2, KeptRep
        <4> QED BY <2>5, <3>1, <3>2, <4>1, <4>3
      <3> QED BY <3>2, <3>3, <3>4
    <2>13. ASSUME x.pc \in Busy
           PROVE  \E i, f : /\ i = Current(d) /\ i = x.instance /\ i \in Instances(d)
                            /\ instance_filename_stub(i) = FileOf(d)
                            /\ f = files[FileOf(d)] /\ f \in FileType
                            /\ KeptAt(i, x, f, torn)
                            /\ x.pc # "reps" => Len(x.results) = NUM_REPS
      BY <2>1, <2>4, <2>13, FileOfOne DEF Current
    <2>14. CASE Create(d)
      <3>1. x.pc = "create" /\ torn' = torn
        BY <2>1, <2>14 DEF Create, At
      <3>2. Becomes(d, "fill", x.todo, x.instance, x.results)
        BY <2>1, <2>2, <2>14, GotoIs DEF Create
      <3>3. x.pc \in Busy
        BY <3>1 DEF Busy
      <3>4. PICK i, f : /\ i = Current(d) /\ i = x.instance /\ f \in FileType
                        /\ KeptAt(i, x, f, torn)
        BY <2>13, <3>3
      <3>5. PICK y : y = Driver("fill", x.todo, x.instance, x.results)
        OBVIOUS
      <3>6. y.pc = "fill" /\ y.todo = x.todo /\ y.instance = x.instance
        BY <3>5 DEF Driver
      <3>7. KeptAt(i, y, EmptyFile, torn)
        BY <3>1, <3>4, <3>6, KeptCreate
      <3>8. Rewrites(FileOf(d), EmptyFile)
        BY <2>1, <2>14, <3>3, FillIs
      <3> QED BY <2>6, <3>1, <3>2, <3>3, <3>4, <3>5, <3>7, <3>8
    <2>15. CASE Fill(d)
      <3>1. x.pc = "fill" /\ torn' = torn
        BY <2>1, <2>15 DEF Fill, At
      <3>2. Becomes(d, "label", x.todo, x.instance, x.results)
        BY <2>1, <2>2, <2>15, GotoIs DEF Fill
      <3>3. x.pc \in Busy
        BY <3>1 DEF Busy, Writing
      <3>4. PICK i, f : /\ i = Current(d) /\ i = x.instance /\ f = files[FileOf(d)]
                        /\ f \in FileType /\ KeptAt(i, x, f, torn)
        BY <2>13, <3>3
      <3>5. PICK y : y = Driver("label", x.todo, x.instance, x.results)
        OBVIOUS
      <3>6. y.pc = "label" /\ y.todo = x.todo /\ y.instance = x.instance /\ y.results = x.results
        BY <3>5 DEF Driver
      <3>7. PICK g : g = [rows |-> x.results, labels |-> f.labels, exists |-> f.exists]
        OBVIOUS
      <3>8. KeptAt(i, y, g, torn)
        BY <3>1, <3>4, <3>6, <3>7, KeptFill
      <3>9. Rewrites(FileOf(d), g)
        BY <2>1, <2>15, <3>3, <3>4, <3>7, FillIs
      <3> QED BY <2>6, <3>1, <3>2, <3>3, <3>4, <3>5, <3>8, <3>9
    <2>16. CASE Label(d)
      <3>1. x.pc = "label" /\ torn' = torn
        BY <2>1, <2>16 DEF Label, At
      <3>2. Becomes(d, "next", x.todo, x.instance, x.results)
        BY <2>1, <2>2, <2>16, GotoIs DEF Label
      <3>3. x.pc \in Busy
        BY <3>1 DEF Busy, Writing
      <3>4. PICK i, f : /\ i = Current(d) /\ i = x.instance /\ f = files[FileOf(d)]
                        /\ f \in FileType /\ KeptAt(i, x, f, torn)
                        /\ Len(x.results) = NUM_REPS
        BY <2>13, <3>1, <3>3
      <3>5. PICK y : y = Driver("next", x.todo, x.instance, x.results)
        OBVIOUS
      <3>6. y.pc = "next" /\ y.todo = x.todo /\ y.instance = x.instance
        BY <3>5 DEF Driver
      <3>7. PICK g : g = [rows |-> f.rows, labels |-> i, exists |-> f.exists]
        OBVIOUS
      <3>8. KeptAt(i, y, g, torn)
        BY <3>1, <3>4, <3>6, <3>7, KeptLabel
      <3>9. Rewrites(FileOf(d), g)
        BY <2>1, <2>16, <3>3, <3>4, <3>7, FillIs
      <3> QED BY <2>6, <3>1, <3>2, <3>3, <3>4, <3>5, <3>8, <3>9
    <2>17. CASE Crash(d)
      <3>1. Becomes(d, "killed", x.todo, x.instance, x.results)
        BY <2>1, <2>2, <2>17, GotoIs DEF Crash
      <3>2. CASE x.pc \notin Writing
        <4>1. files' = files /\ torn' = torn
          BY <2>1, <2>17, <3>2 DEF Crash
        <4> QED BY <2>7, <3>1, <3>2, <4>1
      <3>3. CASE x.pc \in Writing
        <4>1. x.pc \in Busy
          BY <3>3 DEF Busy
        <4>2. PICK i, f : /\ i = Current(d) /\ i = x.instance /\ f = files[FileOf(d)]
                          /\ instance_filename_stub(i) = FileOf(d) /\ i \in Instances(d)
                          /\ f \in FileType /\ KeptAt(i, x, f, torn)
          BY <2>13, <4>1
        <4>3. /\ torn' = torn \cup {FileOf(d)}
              /\ files' \in {files, [files EXCEPT ![FileOf(d)] = EmptyFile]}
          BY <2>1, <2>17, <3>3 DEF Crash
        <4>4. PICK g : (g = f \/ g = EmptyFile) /\ Rewrites(FileOf(d), g)
          <5>1. files = [h \in Names |-> IF h = FileOf(d) THEN f ELSE files[h]]
            BY <2>2, <4>2
          <5>2. CASE files' = files
            BY <5>1, <5>2 DEF Rewrites
          <5>3. CASE files' = [files EXCEPT ![FileOf(d)] = EmptyFile]
            BY <2>2, <5>3 DEF Rewrites
          <5> QED BY <4>3, <5>2, <5>3
        <4>5. PICK y : y = Driver("killed", x.todo, x.instance, x.results)
          OBVIOUS
        <4>6. y.pc = "killed"
          BY <4>5 DEF Driver
        <4>7. PICK U : U = torn'
          OBVIOUS
        <4>8. torn \subseteq U /\ instance_filename_stub(i) \in U
          BY <4>2, <4>3, <4>7
        <4>9. KeptAt(i, x, f, U)
          BY <4>2, <4>8, KeptGrows
        <4>10. KeptAt(i, y, g, U)
          BY <3>3, <4>2, <4>4, <4>6, <4>8, <4>9, KeptTorn
        <4> QED BY <2>6, <3>1, <4>1, <4>2, <4>4, <4>5, <4>7, <4>8, <4>10
      <3> QED BY <3>2, <3>3
    <2> QED BY <1>2, <2>8, <2>9, <2>10, <2>11, <2>12, <2>14, <2>15, <2>16, <2>17 DEF Step
  <1> QED BY <1>1, <1>2 DEF Next

LEMMA KeptHolds == NoOverlap => (Spec => []Kept)
  <1> SUFFICES ASSUME NoOverlap PROVE Spec => []Kept
    OBVIOUS
  <1>1. Init => Kept
    BY KeptInit
  <1>2. Inv /\ Kept /\ [Next]_vars => Kept'
    BY KeptStep
  <1> QED BY <1>1, <1>2, InvHolds, PTL DEF Spec

-----------------------------------------------------------------------------
(* Drivers whose command lines have no instance in common never write a     *)
(* file that one of them has recorded, though the script opens files        *)
(* without looking (experiments.py:199), whatever is killed and run again.  *)
THEOREM RecordedStay == NoOverlap => (Spec => ResultsKept)
  <1> SUFFICES ASSUME NoOverlap PROVE Spec => ResultsKept
    OBVIOUS
  <1>1. ASSUME Inv, Kept, [Next]_vars
        PROVE  [\A f \in Names : Recorded(f) => files'[f] = files[f]]_vars
    <2> SUFFICES ASSUME NEW d \in Drivers, Start(d) \/ Step(d) \/ Crash(d),
                        NEW f \in Names, Recorded(f)
                 PROVE  files'[f] = files[f]
      BY <1>1 DEF Next
    <2>1. CASE files' = files
      BY <2>1
    <2>2. ASSUME driver[d].pc \in {"create", "fill", "label"}
          PROVE  FileOf(d) # f
      <3>1. driver[d].pc \in Busy
        BY <2>2 DEF Busy, Writing
      <3>2. KeptAt(Current(d), driver[d], files[FileOf(d)], torn)
        BY <1>1, <3>1, FileOfOne DEF Kept
      <3>3. files[FileOf(d)] \in FileType
        BY <1>1, <3>1, FileOfOne
      <3>4. files[FileOf(d)].labels = None
        BY <2>2, <3>2, <3>3 DEF KeptAt, Past, Busy, Writing, Writes, Ahead, Current, FileType
      <3> QED BY <3>4 DEF Recorded
    <2>3. files \in [Names -> FileType]
      BY <1>1 DEF Inv, FilesOK
    <2>4. CASE driver[d].pc \in Busy /\ (Create(d) \/ Fill(d) \/ Label(d))
      <3>1. driver[d].pc \in {"create", "fill", "label"}
        BY <2>4 DEF Create, Fill, Label, At
      <3>2. \E g : Rewrites(FileOf(d), g)
        BY <1>1, <2>4, FillIs
      <3> QED BY <2>2, <3>1, <3>2 DEF Rewrites
    <2>5. CASE Crash(d) /\ files' # files
      <3>1. driver[d].pc \in {"create", "fill", "label"}
        BY <2>5 DEF Crash, Writing
      <3>2. files' = [files EXCEPT ![FileOf(d)] = EmptyFile]
        BY <2>5 DEF Crash
      <3> QED BY <2>2, <2>3, <3>1, <3>2
    <2>6. Create(d) \/ Fill(d) \/ Label(d) => driver[d].pc \in Busy
      BY DEF Create, Fill, Label, At, Busy, Writing
    <2> QED BY <2>1, <2>4, <2>5, <2>6 DEF Start, Step, Mkdir, Filter, Next_instance, Rep
  <1>2. Spec => []Kept
    BY KeptHolds
  <1> QED BY <1>1, <1>2, InvHolds, PTL DEF Spec, ResultsKept

\* The file of an instance whose driver has ended.
LEMMA DoneIsMeasured ==
  ASSUME Inv, Kept, NEW d \in Drivers, At(d, "ended"), NEW i \in Instances(d)
  PROVE  LET file == files[instance_filename_stub(i)]
         IN  /\ file.exists
             /\ \/ instance_filename_stub(i) \in torn
                \/ file.labels = i /\ Len(file.rows) = NUM_REPS
             /\ file.rows \in Seq(RowSet)
  <1>1. instance_filename_stub(i) \in Names
    BY InstancesAre DEF Inv, Names
  <1>2. PICK f \in FileType : f = files[instance_filename_stub(i)]
    BY <1>1 DEF Inv, FilesOK
  <1>3. KeptAt(i, driver[d], f, torn)
    BY <1>2 DEF Kept
  <1>4. PICK x : x = driver[d] /\ x.pc = "ended"
    BY DEF At
  <1>5. f.exists /\ (instance_filename_stub(i) \in torn \/ (f.labels = i /\ Len(f.rows) = NUM_REPS))
    BY <1>3, <1>4 DEF KeptAt, Past, Busy, Writing, Writes, Ahead, FileType
  <1> QED BY <1>2, <1>5 DEF FileType

(* Drivers with disjoint command lines: one that has ended leaves a recorded *)
(* file of all repetitions for every instance of its command line, except    *)
(* where a driver was killed over an open file; if none was, the export is   *)
(* every repetition of every instance under its own labels.                  *)
THEOREM AllIsMeasured == NoOverlap => (Spec => []EndsMeasured)
  <1> SUFFICES ASSUME NoOverlap PROVE Spec => []EndsMeasured
    OBVIOUS
  <1> DEFINE file(i) == files[instance_filename_stub(i)]
             lines(i) == {[labels |-> i, rep |-> r, row |-> file(i).rows[r + 1]] :
                            r \in 0 .. NUM_REPS - 1}
  <1>1. ASSUME Inv, Kept
        PROVE  EndsMeasured
    <2>1. ASSUME NEW d \in Drivers, At(d, "ended"), NEW i \in Instances(d)
          PROVE  \/ file(i).labels = i /\ Len(file(i).rows) = NUM_REPS
                 \/ file(i).exists /\ instance_filename_stub(i) \in torn
      BY <1>1, <2>1, DoneIsMeasured
    <2>2. ASSUME torn = {}, \A d \in Drivers : At(d, "ended")
          PROVE  Export = UNION {lines(i) : i \in All}
      <3>1. ASSUME NEW i \in All
            PROVE  /\ file(i).exists /\ file(i).labels = i /\ file(i).rows # <<>>
                   /\ DOMAIN file(i).rows = 1 .. NUM_REPS
        <4>1. PICK d \in Drivers : i \in Instances(d)
          BY <3>1 DEF All
        <4>2. /\ file(i).exists /\ file(i).labels = i
              /\ file(i).rows \in Seq(RowSet) /\ Len(file(i).rows) = NUM_REPS
          BY <1>1, <2>2, <4>1, DoneIsMeasured
        <4>3. PICK s \in Seq(RowSet) : s = file(i).rows
          BY <4>2
        <4>4. DOMAIN s = 1 .. NUM_REPS /\ s # <<>>
          BY <4>2, <4>3, ConstantsAssumption
        <4> QED BY <4>2, <4>3, <4>4
      <3>2. Open = {}
        BY <2>2 DEF Open, At, Writing
      <3>3. DOMAIN files = Names
        BY <1>1 DEF Inv, FilesOK
      <3>4. PICK there : there = {f \in DOMAIN files : files[f].exists}
        OBVIOUS
      <3>5. there = Names
        <4>1. \A f \in Names : \E i \in All : f = instance_filename_stub(i)
          BY DEF Names
        <4> QED BY <3>1, <3>3, <3>4, <4>1
      <3>6. \A f \in there : f \notin Open /\ files[f].rows # <<>>
        BY <3>1, <3>2, <3>5 DEF Names
      <3> DEFINE of(f) == {[labels |-> files[f].labels, rep |-> k - 1, row |-> files[f].rows[k]] :
                             k \in DOMAIN files[f].rows}
      <3>7. Export = UNION {of(f) : f \in there}
        BY <3>4, <3>6 DEF Export
      <3>8. ASSUME NEW i \in All
            PROVE  of(instance_filename_stub(i)) = lines(i)
        <4>1. PICK rows : rows = file(i).rows
          OBVIOUS
        <4>2. /\ of(instance_filename_stub(i)) =
                   {[labels |-> i, rep |-> k - 1, row |-> rows[k]] : k \in 1 .. NUM_REPS}
              /\ lines(i) = {[labels |-> i, rep |-> r, row |-> rows[r + 1]] :
                               r \in 0 .. NUM_REPS - 1}
          <5>1. file(i).labels = i /\ DOMAIN rows = 1 .. NUM_REPS
            BY <3>1, <3>8, <4>1
          <5>2. of(instance_filename_stub(i)) =
                   {[labels |-> i, rep |-> k - 1, row |-> rows[k]] : k \in 1 .. NUM_REPS}
            BY <4>1, <5>1
          <5>3. lines(i) = {[labels |-> i, rep |-> r, row |-> rows[r + 1]] :
                              r \in 0 .. NUM_REPS - 1}
            BY <4>1
          <5> QED BY <5>2, <5>3
        <4>3. \A k \in 1 .. NUM_REPS : k - 1 \in 0 .. NUM_REPS - 1 /\ (k - 1) + 1 = k
          BY ConstantsAssumption
        <4>4. \A r \in 0 .. NUM_REPS - 1 : r + 1 \in 1 .. NUM_REPS /\ (r + 1) - 1 = r
          BY ConstantsAssumption
        <4> QED BY <4>2, <4>3, <4>4
      <3> HIDE DEF of, lines
      <3>9. {of(f) : f \in there} = {lines(i) : i \in All}
        BY <3>5, <3>8 DEF Names
      <3> QED BY <3>7, <3>9
    <2> HIDE DEF lines
    <2> QED BY <2>1, <2>2 DEF EndsMeasured, lines
  <1>2. Spec => []Kept
    BY KeptHolds
  <1> QED BY <1>1, <1>2, InvHolds, PTL
=============================================================================
