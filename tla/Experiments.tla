----------------------------- MODULE Experiments -----------------------------
(***************************************************************************)
(* The experiment driver (experiments.py), the three programs a container  *)
(* of it pipes together (inputgenerator, then hyperlogloglog/measure,      *)
(* datasketches/measure or the ZetaSketch jar) as far as their command     *)
(* lines and their input go, and the exporter (data_export.py).            *)
(*                                                                         *)
(* Several drivers may run at once on one results directory, as --cpu and  *)
(* the filter options invite.  A driver may be killed at any moment; a     *)
(* generator may die before it has written everything, which nobody        *)
(* notices, and a measuring program may die before it has printed.         *)
(* Times and estimates are not modelled: a row of results is the sketch    *)
(* that was measured, the input it was measured on and whether all of that *)
(* input arrived.                                                          *)
(***************************************************************************)
EXTENDS Naturals, FiniteSets, SequencesExt

CONSTANTS
    Drivers,          \* processes running experiments.py
    MODES, ALGORITHMS, DATATYPES, MS, NS,   \* the sequences of the script
    None,             \* an option or an attribute that is not there
    NUM_REPS,
    ArgChoices,       \* possible command lines of the drivers, [Drivers -> Args]
    MaxFaults,        \* bound: programs that die in their container
    MaxCrashes        \* bound: drivers killed

Args == [mode : Range(MODES) \cup {None}, algo : Range(ALGORITHMS) \cup {None},
         dt : Range(DATATYPES) \cup {None}, m : Range(MS) \cup {None}, n : Range(NS) \cup {None}]

(* Families of algorithms: algo.startswith('hyperloglog'), and so on.       *)
Variants == {"hyperlogloglog", "hyperloglogloga", "hyperlogloglogi",
             "hyperlogloglogai", "hyperlogloglogb"}
Ours == Variants \cup {"hyperloglog", "hyperloglogzstd"}
ApacheHll == {"apache-hll4", "apache-hll6", "apache-hll8"}
Apache == ApacheHll \cup {"apache-cpc"}
Algorithms == Ours \cup Apache \cup {"hashonly", "zetasketch"}

\* The words of a command line.
Words == Algorithms \cup {"query", "merge", "uint64", "str", "jr", "4", "6", "8", "hll", "cpc",
                          "default", "appendonly", "increaseonly", "appendincreaseonly", "bottom"}

PowerOfTwo(m) == \E k \in 0..30 : m = 2^k

\* experiments.py:14-34: the lists hold what the script writes into them.
ASSUME ConstantsAssumption ==
    /\ NUM_REPS \in Nat \ {0}
    /\ MaxFaults \in Nat /\ MaxCrashes \in Nat
    /\ MODES \in Seq({"query", "merge"})
    /\ ALGORITHMS \in Seq(Algorithms)
    /\ DATATYPES \in Seq({"uint64", "str", "jr"})
    /\ MS \in Seq(Nat) /\ NS \in Seq(Nat) /\ \A k \in DOMAIN MS : PowerOfTwo(MS[k])
    /\ None \notin Words \cup Nat

ASSUME ArgsAssumption == ArgChoices \subseteq [Drivers -> Args]

VARIABLES
    args,       \* the command line of each driver
    directory,  \* whether results/ exists
    files,      \* the .hdf5 files, by name
    driver,     \* per driver: pc, the instances still to run, the one it runs and its results so far
    faults, crashes, torn   \* history: deaths so far, files open at a crash

vars == <<args, directory, files, driver, faults, crashes, torn>>

-----------------------------------------------------------------------------
\* The values of a list that an option admits: all if it is not given.
chosen(all, option) == {x \in Range(all) : option \in {None, x}}

Listed(a) ==
    {[mode |-> mode, algo |-> algo, dt |-> dt, m |-> m, n |-> n] :
       mode \in chosen(MODES, a.mode), algo \in chosen(ALGORITHMS, a.algo),
       dt \in chosen(DATATYPES, a.dt), m \in chosen(MS, a.m), n \in chosen(NS, a.n)}

\* Mutant: lists the jr instances of programs that do not read them.
filter_instances_with_jr(a) == Listed(a)

\* experiments.py:57-91, without the order.
filter_instances(a) ==
    {i \in Listed(a) : /\ ~(i.mode = "merge" /\ i.algo = "hashonly")
                       /\ i.algo \in Ours \/ i.dt # "jr"
                       /\ ~(i.algo = "zetasketch" /\ i.m < 1024)
                       /\ ~(i.algo = "apache-cpc" /\ i.m >= 524288)}

\* The instances of the command lines in use, each set worked out once.
instances_of ==
    LET lines == UNION {Range(choice) : choice \in ArgChoices}
    IN  [a \in lines |-> filter_instances(a)]

\* The place of a value in its list, from 0.
at(all, x) == (CHOOSE k \in DOMAIN all : all[k] = x) - 1

\* The order of the loops (60-71), the last one turning fastest.
Turn(i) ==
    (((at(MODES, i.mode) * Len(ALGORITHMS) + at(ALGORITHMS, i.algo)) * Len(DATATYPES)
        + at(DATATYPES, i.dt)) * Len(MS) + at(MS, i.m)) * Len(NS) + at(NS, i.n)

First(instances) == CHOOSE i \in instances : \A j \in instances : Turn(i) <= Turn(j)

\* Mutant: one file name for the queries and the merges.
instance_filename_stub_without_mode(i) == <<i.algo, i.dt, i.m, i.n>>

\* experiments.py:37-39; a file name is as good as the five parts it joins.
instance_filename_stub(i) == <<i.mode, i.algo, i.dt, i.m, i.n>>

\* Mutant: every number of elements starts from the same seed.
Seed_per_registers(dt, m, n, rep) == (at(DATATYPES, dt) * Len(MS) + at(MS, m)) * NUM_REPS + rep

\* populate_seeds (41-53): consecutive numbers in the order of its loops,
\* counted from the initial seed.
Seed(dt, m, n, rep) ==
    ((at(DATATYPES, dt) * Len(MS) + at(MS, m)) * Len(NS) + at(NS, n)) * NUM_REPS + rep

-----------------------------------------------------------------------------
(* construct_docker_command (95-144): the two programs of the pipe and      *)
(* their arguments; an option that is not given is None.                    *)
construct_docker_command(i, seed) ==
    [generator |-> [len |-> IF i.dt = "str" THEN 8 ELSE None,
                    m |-> IF i.dt = "jr" THEN i.m ELSE None,
                    n |-> i.n, dt |-> i.dt, seed |-> seed],
     program |-> CASE i.algo \in Ours \cup {"hashonly"} -> "hyperlogloglog/measure"
                   [] i.algo \in Apache -> "datasketches/measure"
                   [] OTHER -> "zetasketch/measure.jar",
     flags |-> CASE i.algo = "hyperlogloglog" -> "default"
                 [] i.algo = "hyperloglogloga" -> "appendonly"
                 [] i.algo = "hyperlogloglogi" -> "increaseonly"
                 [] i.algo = "hyperlogloglogai" -> "appendincreaseonly"
                 [] i.algo = "hyperlogloglogb" -> "bottom"
                 [] OTHER -> None,
     bits |-> CASE i.algo = "apache-hll4" -> "4"
                [] i.algo = "apache-hll6" -> "6"
                [] i.algo = "apache-hll8" -> "8"
                [] OTHER -> None,
     len |-> IF i.dt = "str" THEN 8 ELSE None,
     mode |-> i.mode,
     algorithm |-> CASE i.algo \in Variants -> "hyperlogloglog"
                     [] i.algo \in ApacheHll -> "hll"
                     [] i.algo = "apache-cpc" -> "cpc"
                     [] i.algo = "zetasketch" -> None
                     [] OTHER -> i.algo,
     dt |-> i.dt, m |-> i.m, n |-> i.n]

\* inputgenerator.cpp:102-136
generator_accepts(g) ==
    /\ g.dt \in {"uint64", "str", "jr"}
    /\ g.m # None <=> g.dt = "jr"
    /\ g.len # None <=> g.dt = "str"

\* hyperlogloglog/measure.cpp:284-370
our_measure_accepts(c) ==
    /\ c.mode \in {"query", "merge"}
    /\ c.algorithm \in {"hyperloglog", "hyperloglogzstd", "hyperlogloglog", "hashonly"}
    /\ c.dt \in {"uint64", "str", "jr"}
    /\ c.flags \in {None, "default", "appendonly", "increaseonly", "appendincreaseonly", "bottom"}
    /\ c.bits = None
    /\ ~(c.algorithm = "hashonly" /\ (c.mode = "merge" \/ c.dt = "jr"))
    /\ PowerOfTwo(c.m)
    /\ c.flags # None => c.algorithm = "hyperlogloglog"
    /\ c.len # None <=> c.dt = "str"

\* datasketches/measure.cpp:237-315
datasketches_measure_accepts(c) ==
    /\ c.mode \in {"query", "merge"}
    /\ c.algorithm \in {"hll", "cpc"}
    /\ c.dt \in {"uint64", "str"}
    /\ c.flags = None
    /\ PowerOfTwo(c.m)
    /\ c.bits # None <=> c.algorithm = "hll"
    /\ c.len # None <=> c.dt = "str"

\* Measure.java:163-221; a HyperLogLogPlusPlus has at least 2^10 registers.
zetasketch_measure_accepts(c) ==
    /\ c.mode \in {"query", "merge"}
    /\ c.dt \in {"uint64", "str"}
    /\ PowerOfTwo(c.m) /\ c.m >= 1024
    /\ c.len # None <=> c.dt = "str"

accepts(c) == CASE c.program = "hyperlogloglog/measure" -> our_measure_accepts(c)
                [] c.program = "datasketches/measure" -> datasketches_measure_accepts(c)
                [] OTHER -> zetasketch_measure_accepts(c)

\* What a measuring program builds from its arguments (measure.cpp:170-279 and
\* 350-361; datasketches 82-96, 206-233 and 294-298; Measure.java:101-159): no
\* flags are the default, and the other programs have none.
sketch_of(c) ==
    [program |-> c.program, algorithm |-> c.algorithm, merged |-> c.mode = "merge", m |-> c.m,
     setting |-> IF c.bits # None THEN c.bits
                 ELSE IF c.algorithm # "hyperlogloglog" THEN None ELSE c.flags]

\* readData (measure.hpp:16-67) does not look at the result of read, and the
\* values that are missing are zeros; so for readStrings of Measure.java, which
\* repeats a buffer.  readLongs ends the program instead (Measure.java:34-54).
notices_missing(c) == c.program = "zetasketch/measure.jar" /\ c.dt = "uint64"

\* The row of a measurement that printed its report (measure.cpp:154-166,
\* datasketches/measure.cpp:113-125, Measure.java:58-65).
Report(c, read, printed) ==
    [sketch |-> sketch_of(c), input |-> c.generator, read |-> read, printed |-> printed]

-----------------------------------------------------------------------------
NoFile == [rows |-> <<>>, labels |-> None, exists |-> FALSE]
EmptyFile == [NoFile EXCEPT !.exists = TRUE]

Instances(d) == instances_of[args[d]]
All == UNION {Instances(d) : d \in Drivers}
Names == {instance_filename_stub(i) : i \in All}

Init ==
    /\ args \in ArgChoices
    /\ directory = FALSE
    /\ files = [f \in Names |-> NoFile]
    /\ driver = [d \in Drivers |-> [pc |-> "off", todo |-> {}, instance |-> None, results |-> <<>>]]
    /\ faults = 0 /\ crashes = 0 /\ torn = {}

Writing == {"fill", "label"}
Running(d) == driver[d].pc \notin {"off", "ended", "raised", "collided", "killed"}
Current(d) == driver[d].instance
FileOf(d) == instance_filename_stub(Current(d))
At(d, pc) == driver[d].pc = pc
goto(d, pc) == driver' = [driver EXCEPT ![d].pc = pc]

\* main (207-239): a driver that stopped early is run again by hand, with the
\* command line it had.
Start(d) ==
    /\ ~Running(d) /\ ~At(d, "ended")
    /\ driver' = [driver EXCEPT ![d] = [pc |-> IF directory THEN "filter" ELSE "mkdir",
                                        todo |-> {}, instance |-> None,
                                        results |-> <<>>]]
    /\ UNCHANGED <<args, directory, files, faults, crashes, torn>>

\* 240: raises if the other driver has made the directory since 238 looked.
Mkdir(d) ==
    /\ At(d, "mkdir")
    /\ directory' = TRUE
    /\ goto(d, IF directory THEN "collided" ELSE "filter")
    /\ UNCHANGED <<args, files, faults, crashes, torn>>

\* Mutant: runs everything again.
Filter_nothing(d) ==
    /\ At(d, "filter")
    /\ driver' = [driver EXCEPT ![d].pc = "next", ![d].todo = Instances(d)]
    /\ UNCHANGED <<args, directory, files, faults, crashes, torn>>

\* 234 and 244: the instances to run are those without a file, now.
Filter(d) ==
    /\ At(d, "filter")
    /\ driver' = [driver EXCEPT
          ![d].pc = "next",
          ![d].todo = {i \in Instances(d) : ~files[instance_filename_stub(i)].exists}]
    /\ UNCHANGED <<args, directory, files, faults, crashes, torn>>

\* Mutant: goes on with the instance it has just finished.
Next_instance_again(d) ==
    /\ At(d, "next")
    /\ driver' = IF driver[d].todo = {} THEN [driver EXCEPT ![d].pc = "ended"]
                 ELSE [driver EXCEPT ![d].pc = "reps", ![d].results = <<>>,
                                     ![d].instance = First(driver[d].todo)]
    /\ UNCHANGED <<args, directory, files, faults, crashes, torn>>

\* 248-249, and 163 of run: the next instance starts with no results.
Next_instance(d) ==
    /\ At(d, "next")
    /\ driver' = IF driver[d].todo = {} THEN [driver EXCEPT ![d].pc = "ended"]
                 ELSE [driver EXCEPT ![d].pc = "reps", ![d].results = <<>>,
                                     ![d].instance = First(driver[d].todo),
                                     ![d].todo = @ \ {First(@)}]
    /\ UNCHANGED <<args, directory, files, faults, crashes, torn>>

\* 165-192: one container is run and waited for, and what it printed becomes a
\* row; nothing printed raises (x[1] of an empty line).  The generator may die
\* with its output half written: the status of a pipe is that of its last
\* program.  A measuring program may be killed before it prints; the C++ ones
\* print all at once, when they end, Java line by line.
Rep(d) ==
    /\ At(d, "reps")
    /\ \E wrote \in {"all", "some"}, lines \in {"none", "some", "all"} :
         LET i == Current(d)
             c == construct_docker_command(
                    i, Seed(i.dt, i.m, i.n, Len(driver[d].results)))
             died == Cardinality({x \in {<<"generator", wrote>>, <<"program", lines>>} :
                                    x[2] # "all"})
             read == IF generator_accepts(c.generator) THEN wrote ELSE "some"
             reports == /\ accepts(c)
                        /\ lines # "none"
                        /\ read = "all" \/ ~notices_missing(c)
             results == Append(driver[d].results, Report(c, read, lines))
         IN  /\ lines = "some" => c.program = "zetasketch/measure.jar"
             /\ faults + died <= MaxFaults
             /\ faults' = faults + died
             /\ driver' = IF ~reports THEN [driver EXCEPT ![d].pc = "raised"]
                          ELSE [driver EXCEPT
                                  ![d].results = results,
                                  ![d].pc = IF Len(results) = NUM_REPS THEN "create" ELSE "reps"]
    /\ UNCHANGED <<args, directory, files, crashes, torn>>

\* 199: opening the file creates it, empty; an older one of its name is gone.
Create(d) ==
    /\ At(d, "create")
    /\ files' = [files EXCEPT ![FileOf(d)] = EmptyFile]
    /\ goto(d, "fill")
    /\ UNCHANGED <<args, directory, faults, crashes, torn>>

\* 200
Fill(d) ==
    /\ At(d, "fill")
    /\ files' = [files EXCEPT ![FileOf(d)].rows = driver[d].results]
    /\ goto(d, "label")
    /\ UNCHANGED <<args, directory, faults, crashes, torn>>

\* 201-205, the end of the with block and of run
Label(d) ==
    /\ At(d, "label")
    /\ files' = [files EXCEPT ![FileOf(d)].labels = Current(d)]
    /\ goto(d, "next")
    /\ UNCHANGED <<args, directory, faults, crashes, torn>>

\* The driver is killed or interrupted.  What was written of an open file is in
\* it or is not.
Crash(d) ==
    /\ Running(d) /\ crashes < MaxCrashes
    /\ crashes' = crashes + 1
    /\ goto(d, "killed")
    /\ IF driver[d].pc \in Writing
       THEN /\ torn' = torn \cup {FileOf(d)}
            /\ files' \in {files, [files EXCEPT ![FileOf(d)] = EmptyFile]}
       ELSE UNCHANGED <<files, torn>>
    /\ UNCHANGED <<args, directory, faults>>

Step(d) == Mkdir(d) \/ Filter(d) \/ Next_instance(d) \/ Rep(d) \/ Create(d) \/ Fill(d) \/ Label(d)
Next == \E d \in Drivers : Start(d) \/ Step(d) \/ Crash(d)

\* A driver is a sequential process and the programs it waits for end.
Spec == Init /\ [][Next]_vars /\ \A d \in Drivers : WF_vars(Step(d))

-----------------------------------------------------------------------------
\* No instance is of two of the command lines in use at once.
NoOverlap ==
    \A choice \in ArgChoices : \A d, e \in Drivers :
      d # e => filter_instances(choice[d]) \cap filter_instances(choice[e]) = {}

\* The files a driver has open.
Open == {FileOf(d) : d \in {e \in Drivers : driver[e].pc \in Writing}}

(* data_export.py:9-29: raises at a file that has no measurements or that a *)
(* driver has open; otherwise one line for every row of every file.         *)
Export ==
    LET there == {f \in DOMAIN files : files[f].exists}
    IN  IF \E f \in there : f \in Open \/ files[f].rows = <<>> THEN {}
        ELSE UNION {{[labels |-> files[f].labels, rep |-> k - 1, row |-> files[f].rows[k]] :
                       k \in DOMAIN files[f].rows} : f \in there}

-----------------------------------------------------------------------------
Recorded(f) == files[f].labels # None
(* Two rows of the recorded files were measured on the same input when their *)
(* instances agree on data type, registers and length and they are the same  *)
(* repetition, on inputs of another seed when they do not, and with the same *)
(* sketch exactly when they agree on mode, algorithm and registers: the      *)
(* algorithms are compared on the same data, no seed is used twice, and no   *)
(* variant is measured under another one's name.  (What populate_seeds,      *)
(* construct_docker_command and the three programs make together.)           *)
Comparable ==
    LET recorded == {i \in All : Recorded(instance_filename_stub(i))}
        rows(i) == files[instance_filename_stub(i)].rows
    IN  \A i, j \in recorded : \A k \in DOMAIN rows(i), l \in DOMAIN rows(j) :
          /\ rows(i)[k].input.seed = rows(j)[l].input.seed <=>
               <<i.dt, i.m, i.n, k>> = <<j.dt, j.m, j.n, l>>
          /\ <<i.dt, i.m, i.n, k>> = <<j.dt, j.m, j.n, l>> => rows(i)[k].input = rows(j)[l].input
          /\ rows(i)[k].sketch = rows(j)[l].sketch <=>
               <<i.mode, i.algo, i.m>> = <<j.mode, j.algo, j.m>>

(* A driver that ended has a recorded file of all repetitions for every      *)
(* instance of its command line, whatever was killed before, except where a  *)
(* driver was killed with the file open: that file stays as it is.  Without  *)
(* such a file, what is exported once all drivers have ended is every        *)
(* repetition of every instance, under its own labels.                       *)
EndsMeasured ==
    LET file(i) == files[instance_filename_stub(i)]
        lines(i) == {[labels |-> i, rep |-> r, row |-> file(i).rows[r + 1]] : r \in 0..NUM_REPS - 1}
    IN  /\ \A d \in Drivers : At(d, "ended") => \A i \in Instances(d) :
             \/ file(i).labels = i /\ Len(file(i).rows) = NUM_REPS
             \/ file(i).exists /\ instance_filename_stub(i) \in torn
        /\ torn = {} /\ (\A d \in Drivers : At(d, "ended")) =>
             Export = UNION {lines(i) : i \in All}

(* No driver raises over a container, and no row is short of input or of     *)
(* lines, unless a program died: every command the script can build is       *)
(* accepted by the generator and by the program it is piped into.            *)
OnlyDeathsHurt ==
    faults = 0 => \A d \in Drivers :
        /\ ~At(d, "raised")
        /\ \A row \in Range(driver[d].results) : row.read = "all" /\ row.printed = "all"

(* A recorded file is never written again, though the script opens files for *)
(* writing without looking (199): drivers with disjoint command lines keep   *)
(* each other's results, and a driver that is run again keeps its own.       *)
ResultsKept == [][\A f \in Names : Recorded(f) => files'[f] = files[f]]_vars

(* A driver that runs ends, raises or is killed: it gets through its list.   *)
DriverEnds == \A d \in Drivers : Running(d) ~> ~Running(d)
=============================================================================
