-------------------------------- MODULE Hash --------------------------------
(***************************************************************************)
(* How addHash turns a hash into the arguments of addJr: the register      *)
(* address fibonacciHash(x, logM) (src/hyperlogloglog/Hash.hpp) and the    *)
(* rank rho(x) (src/hyperlogloglog/common.hpp), for words of W bits.  A    *)
(* sketch of m registers is given every hash there is, once.               *)
(*                                                                         *)
(* A shift by the word length and the leading zeros of zero are undefined: *)
(* the functions are sets of possible results.                             *)
(***************************************************************************)
EXTENDS FiniteSetsExt, Integers

CONSTANTS
  W,           \* bits of a word
  Multiplier,  \* 0x9e3779b97f4a7c15 for 64 bits: odd, about 2^W / golden ratio
  RegisterCounts  \* the arguments m the program passes to the constructor

ASSUME HashAssumption ==
  /\ W \in Nat \ {0}
  /\ Multiplier \in Nat
  /\ RegisterCounts \subseteq 1 .. 2 ^ W - 1

VARIABLES
  m,      \* number of registers, a power of two
  x,      \* the next hash
  share,  \* share[j]: how many hashes went to register j
  count   \* count[r]: how many hashes had rank r

vars == <<m, x, share, count>>

Word == 0 .. 2 ^ W - 1

log2i[y \in Word] == IF y < 2 THEN 0 ELSE 1 + log2i[y \div 2]

\* Shifting by W gives the unshifted word where the processor masks the count,
\* and zero where it does not.
ShiftRight(y, n) == IF n < W THEN {y \div 2 ^ n} ELSE {y, 0}

\* Mutant of fibonacciHash: the multiplier is even.
fibonacciHash_Even(y, b) == ShiftRight(((Multiplier + 1) * y) % 2 ^ W, W - b)

fibonacciHash(y, b) == ShiftRight((Multiplier * y) % 2 ^ W, W - b)

\* __builtin_clz*.
clz(y) == IF y = 0 THEN 0 .. W
          ELSE {CHOOSE n \in 0 .. W - 1 : y \div 2 ^ (W - 1 - n) = 1}

rho(y) == {n + 1 : n \in clz(y)}

-----------------------------------------------------------------------------
\* The constructor throws unless m is a power of two, by this comparison.
Accepted(k) == k = 2 ^ log2i[k]

Init ==
  /\ m \in {k \in RegisterCounts : Accepted(k)}
  /\ x = 0
  /\ share = [j \in 0 .. m - 1 |-> 0]
  /\ count = [r \in 0 .. W + 1 |-> 0]

\* addHash(x).
AddHash ==
  /\ x < 2 ^ W
  /\ \E j \in fibonacciHash(x, log2i[m]), r \in rho(x) :
       /\ share' = [i \in DOMAIN share |-> share[i] + (IF i = j THEN 1 ELSE 0)]
       /\ count' = [count EXCEPT ![r] = @ + (IF x = 0 THEN 0 ELSE 1)]
  /\ x' = x + 1
  /\ UNCHANGED m

Next == AddHash

Spec == Init /\ [][Next]_vars

-----------------------------------------------------------------------------
\* Over all hashes every register is given its share, and no other address is
\* given any ("j must satisfy 0 <= j < m but no checks are made", addJr); half
\* of the hashes have rank 1, half of the rest rank 2, and so on: the
\* distribution the estimate is derived from.
SpreadsHashes ==
  x = 2 ^ W => /\ \A j \in DOMAIN share : share[j] = 2 ^ W \div m
               /\ \A r \in 1 .. W : count[r] = 2 ^ (W - r)
=============================================================================
