------------------------------ MODULE Recursion ------------------------------
(***************************************************************************)
(* Division, induction over numbers, and the functions that recursion      *)
(* defines.  A property is a set here, the numbers that have it, and a     *)
(* step of the recursion is a function.                                    *)
(***************************************************************************)
EXTENDS Integers, Sequences, WellFoundedInduction, TLAPS

(* Division with a remainder. *)
LEMMA Division ==
    ASSUME NEW n \in Nat, NEW d \in Nat \ {0}
    PROVE  \E q, r \in Nat : n \div d = q /\ n % d = r /\ n = q * d + r /\ r < d
PROOF
  <1>1. n \div d \in Nat
    BY SMT
  <1>2. n % d \in Nat
    BY SMT
  <1>3. PICK q \in Nat : q = n \div d
    BY <1>1
  <1>4. PICK r \in Nat : r = n % d
    BY <1>2
  <1>5. n = q * d + r
    BY <1>3, <1>4, SMT
  <1>6. r < d
    BY <1>4, SMT
  <1> QED
    BY <1>3, <1>4, <1>5, <1>6, Zenon

(* Quotient and remainder are the only ones. *)
LEMMA Quotient ==
    ASSUME NEW n \in Nat, NEW d \in Nat \ {0}, NEW q \in Nat, NEW r \in Nat,
           n = q * d + r, r < d
    PROVE  n \div d = q /\ n % d = r
PROOF
  <1>1. PICK p \in Nat, t \in Nat : n \div d = p /\ n % d = t /\ n = p * d + t /\ t < d
    BY Division, Zenon
  <1>2. CASE p < q
    <2>1. PICK k \in Nat : q = p + 1 + k
      <3>1. q - p - 1 \in Nat /\ q = p + 1 + (q - p - 1)
        BY <1>2
      <3> QED
        BY <3>1
    <2>2. q * d = p * d + d + k * d /\ k * d \in Nat /\ p * d \in Nat
      BY <2>1, SMT
    <2> QED
      BY <1>1, <2>2
  <1>3. CASE q < p
    <2>1. PICK k \in Nat : p = q + 1 + k
      <3>1. p - q - 1 \in Nat /\ p = q + 1 + (p - q - 1)
        BY <1>3
      <3> QED
        BY <3>1
    <2>2. p * d = q * d + d + k * d /\ k * d \in Nat /\ q * d \in Nat
      BY <2>1, SMT
    <2> QED
      BY <1>1, <2>2
  <1>4. CASE p = q
    BY <1>1, <1>4, SMT
  <1> QED
    BY <1>2, <1>3, <1>4

(* A set of natural numbers has a smallest one. *)
LEMMA Smallest ==
    ASSUME NEW T \in SUBSET Nat, T # {}
    PROVE  \E x \in T : \A y \in T : x <= y
PROOF
  <1>1. PICK x \in T : \A y \in T : ~(<<y, x>> \in OpToRel(<, Nat))
    BY NatLessThanWellFounded, WFMin, Zenon
  <1>2. ASSUME NEW y \in T PROVE x <= y
    <2>1. <<y, x>> \in Nat \X Nat /\ <<y, x>>[1] = y /\ <<y, x>>[2] = x
      OBVIOUS
    <2>2. ~(y < x)
      BY <1>1, <2>1, Zenon DEF OpToRel
    <2> QED
      BY <2>2
  <1> QED
    BY <1>2

(* What holds of 0 and of every number up to n after one of which it holds,  *)
(* holds of all numbers up to n.                                             *)
LEMMA UpTo ==
    ASSUME NEW n \in Nat, NEW T, 0 \in T, \A i \in 1 .. n : i - 1 \in T => i \in T
    PROVE  \A i \in 0 .. n : i \in T
PROOF
  <1> SUFFICES ASSUME NEW j \in 0 .. n, j \notin T PROVE FALSE
    OBVIOUS
  <1> DEFINE U == {i \in 0 .. n : i \notin T}
  <1>1. U \in SUBSET Nat /\ U # {}
    OBVIOUS
  <1>2. PICK x \in U : \A y \in U : x <= y
    BY <1>1, Smallest, Zenon
  <1>3. x \in 1 .. n /\ x \notin T /\ x - 1 \in 0 .. n
    OBVIOUS
  <1>4. x - 1 \notin U
    BY <1>2, <1>3
  <1> QED
    BY <1>3, <1>4

(* The values of a recursive function are of the type that its steps keep. *)
LEMMA Hereditary ==
    ASSUME NEW n \in Nat, NEW f, NEW S,
           f[0] \in S, \A i \in 1 .. n : f[i - 1] \in S => f[i] \in S
    PROVE  \A i \in 0 .. n : f[i] \in S
PROOF
  <1> DEFINE T == {i \in 0 .. n : f[i] \in S}
  <1>1. 0 \in T
    OBVIOUS
  <1>2. \A i \in 1 .. n : i - 1 \in T => i \in T
    OBVIOUS
  <1> HIDE DEF T
  <1>3. \A i \in 0 .. n : i \in T
    BY <1>1, <1>2, UpTo
  <1> QED
    BY <1>3 DEF T

(* f begins with a, and its value at i is that of the step at i, applied to  *)
(* the value before.                                                         *)
Unrolls(f, n, a, step) == f[0] = a /\ \A i \in 1 .. n : f[i] = step[i][f[i - 1]]

Steps(n, S) == [1 .. n -> [S -> S]]
Values(n, S) == [0 .. n -> S]

(* Recursion defines a function. *)
LEMMA Recursive ==
    ASSUME NEW n \in Nat, NEW S, NEW a \in S, NEW step \in Steps(n, S)
    PROVE  \E f \in Values(n, S) : Unrolls(f, n, a, step)
PROOF
  <1> DEFINE Upto(m, f) == f[0] = a /\ \A i \in 1 .. m : f[i] = step[i][f[i - 1]]
             T == {m \in 0 .. n : \E f \in [0 .. m -> S] : Upto(m, f)}
  <1>1. 0 \in T
    <2>1. [i \in 0 .. 0 |-> a] \in [0 .. 0 -> S] /\ Upto(0, [i \in 0 .. 0 |-> a])
      OBVIOUS
    <2>2. 0 \in 0 .. n
      OBVIOUS
    <2> QED
      BY <2>1, <2>2, Zenon
  <1>2. ASSUME NEW m \in 1 .. n, m - 1 \in T PROVE m \in T
    <2>1. PICK f \in [0 .. m - 1 -> S] : Upto(m - 1, f)
      BY <1>2
    <2> DEFINE g == [i \in 0 .. m |-> IF i = m THEN step[m][f[m - 1]] ELSE f[i]]
    <2>2. f[m - 1] \in S /\ step[m] \in [S -> S]
      BY <2>1 DEF Steps
    <2>3. g \in [0 .. m -> S]
      BY <2>2
    <2>4. g[0] = a
      BY <2>1
    <2>5. ASSUME NEW i \in 1 .. m PROVE g[i] = step[i][g[i - 1]]
      <3>1. CASE i = m
        BY <3>1
      <3>2. CASE i # m
        <4>1. i \in 1 .. m - 1 /\ i - 1 \in 0 .. m - 1 /\ i - 1 # m
          BY <3>2
        <4> QED
          BY <2>1, <3>2, <4>1
      <3> QED
        BY <3>1, <3>2
    <2> HIDE DEF g
    <2>6. Upto(m, g)
      BY <2>4, <2>5
    <2>7. m \in 0 .. n
      OBVIOUS
    <2> QED
      BY <2>3, <2>6, <2>7, Zenon
  <1> HIDE DEF T
  <1>3. n \in T
    <2>1. \A i \in 0 .. n : i \in T
      BY <1>1, <1>2, UpTo
    <2> QED
      BY <2>1
  <1>4. PICK f \in [0 .. n -> S] : Upto(n, f)
    BY <1>3 DEF T
  <1> QED
    BY <1>4, Zenon DEF Unrolls, Values

=============================================================================
