--------------------------- MODULE NaturalRecursion ---------------------------
(***************************************************************************)
(* Induction over the natural numbers, and functions defined by recursion  *)
(* over them, with sets in the place of predicates: the provers need no    *)
(* instance of an operator to use these facts.                             *)
(***************************************************************************)
EXTENDS Integers, WellFoundedInduction, TLAPS

(* A set of natural numbers has a least element.                           *)
LEMMA LeastNumber ==
  ASSUME NEW T \in SUBSET Nat, T # {}
  PROVE  \E x \in T : \A y \in T : ~(y < x)
<1>1. IsWellFoundedOn(OpToRel(<, Nat), Nat)
  BY NatLessThanWellFounded, Zenon
<1>2. \E x \in T : \A y \in T : ~(<<y, x>> \in OpToRel(<, Nat))
  BY <1>1, WFMin, Zenon
<1>3. \A x, y \in Nat : x < y => <<x, y>> \in OpToRel(<, Nat)
  BY DEF OpToRel
<1> QED
  BY <1>2, <1>3, Zenon

(* A set that has 0, and with every number the next one, has them all.     *)
LEMMA Induction ==
  ASSUME NEW S, 0 \in S, \A n \in Nat : n \in S => n + 1 \in S
  PROVE  \A n \in Nat : n \in S
<1> SUFFICES ASSUME Nat \ S # {}
             PROVE  FALSE
  OBVIOUS
<1>1. PICK x \in Nat \ S : \A y \in Nat \ S : ~(y < x)
  BY LeastNumber
<1>2. x # 0 /\ x - 1 \in Nat /\ x - 1 < x /\ (x - 1) + 1 = x
  OBVIOUS
<1>3. x - 1 \in S
  BY <1>1, <1>2
<1> QED
  BY <1>2, <1>3

(* A sequence of values that starts with start and goes on as step says.   *)
Chain(h, n, start, step) ==
    h[0] = start /\ \A i \in 0..(n - 1) : h[i + 1] = step[<<i, h[i]>>]

(* The values up to n are determined.                                      *)
LEMMA ChainUnique ==
  ASSUME NEW start, NEW step, NEW m \in Nat, NEW n \in Nat,
         NEW g, NEW h, Chain(g, m, start, step), Chain(h, n, start, step),
         NEW i \in Nat, i <= m, i <= n
  PROVE  g[i] = h[i]
<1> DEFINE S == {k \in Nat : k <= m /\ k <= n => g[k] = h[k]}
<1>1. 0 \in S
  BY DEF Chain
<1>2. ASSUME NEW k \in Nat, k \in S
      PROVE  k + 1 \in S
  <2> SUFFICES ASSUME k + 1 <= m, k + 1 <= n
               PROVE  g[k + 1] = h[k + 1]
    OBVIOUS
  <2>1. k \in 0..(m - 1) /\ k \in 0..(n - 1) /\ g[k] = h[k]
    BY <1>2
  <2> QED
    BY <2>1 DEF Chain
<1> HIDE DEF S
<1>3. i \in S
  BY <1>1, <1>2, Induction
<1> QED
  BY <1>3 DEF S

(* There are values up to any n.                                           *)
LEMMA ChainExists ==
  ASSUME NEW V, NEW start \in V, NEW step \in [Nat \X V -> V]
  PROVE  \A n \in Nat : \E h \in [0..n -> V] : Chain(h, n, start, step)
<1> DEFINE S == {n \in Nat : \E h \in [0..n -> V] : Chain(h, n, start, step)}
<1>1. 0 \in S
  <2> DEFINE h == [i \in 0..0 |-> start]
  <2>1. h \in [0..0 -> V] /\ h[0] = start
    OBVIOUS
  <2>2. \A i \in 0..(0 - 1) : FALSE
    OBVIOUS
  <2> HIDE DEF h
  <2>3. Chain(h, 0, start, step)
    BY <2>1, <2>2 DEF Chain
  <2> QED
    BY <2>1, <2>3
<1>2. ASSUME NEW n \in Nat, n \in S
      PROVE  n + 1 \in S
  <2>1. PICK h \in [0..n -> V] : Chain(h, n, start, step)
    BY <1>2
  <2> DEFINE g == [i \in 0..(n + 1) |->
                     IF i = n + 1 THEN step[<<n, h[n]>>] ELSE h[i]]
  <2>2. step[<<n, h[n]>>] \in V
    <3>1. <<n, h[n]>> \in Nat \X V
      OBVIOUS
    <3> QED
      BY <3>1
  <2>3. g \in [0..(n + 1) -> V]
    BY <2>2
  <2>4. g[0] = start
    BY <2>1 DEF Chain
  <2>5. ASSUME NEW i \in 0..((n + 1) - 1)
        PROVE  g[i + 1] = step[<<i, g[i]>>]
    <3>1. i \in 0..n /\ i \in 0..(n + 1) /\ i + 1 \in 0..(n + 1) /\ i # n + 1
      OBVIOUS
    <3>2. g[i] = h[i]
      BY <3>1
    <3>3. CASE i = n
      BY <3>1, <3>2, <3>3
    <3>4. CASE i # n
      <4>1. i \in 0..(n - 1) /\ i + 1 # n + 1
        BY <3>4, <3>1
      <4>2. g[i + 1] = h[i + 1]
        BY <4>1, <3>1
      <4> QED
        BY <4>1, <4>2, <3>2, <2>1 DEF Chain
    <3> QED
      BY <3>3, <3>4
  <2> HIDE DEF g
  <2>6. Chain(g, n + 1, start, step)
    BY <2>4, <2>5 DEF Chain
  <2> QED
    BY <2>3, <2>6
<1> HIDE DEF S
<1>3. \A n \in Nat : n \in S
  BY <1>1, <1>2, Induction
<1> QED
  BY <1>3 DEF S

Recurs(f, start, step) ==
    f[0] = start /\ \A n \in Nat : f[n + 1] = step[<<n, f[n]>>]

(* There is a function over the natural numbers with these values.         *)
LEMMA Recursion ==
  ASSUME NEW V, NEW start \in V, NEW step \in [Nat \X V -> V]
  PROVE  \E f \in [Nat -> V] : Recurs(f, start, step)
<1> DEFINE H(n) == CHOOSE h \in [0..n -> V] : Chain(h, n, start, step)
           f == [n \in Nat |-> H(n)[n]]
<1>1. \A n \in Nat : H(n) \in [0..n -> V] /\ Chain(H(n), n, start, step)
  BY ChainExists
<1> HIDE DEF H
<1>2. f \in [Nat -> V]
  BY <1>1
<1>3. f[0] = start
  BY <1>1 DEF Chain
<1>4. ASSUME NEW n \in Nat
      PROVE  f[n + 1] = step[<<n, f[n]>>]
  <2>1. H(n)[n] = H(n + 1)[n]
    BY <1>1, ChainUnique
  <2>2. H(n + 1)[n + 1] = step[<<n, H(n + 1)[n]>>]
    <3>1. n \in 0..((n + 1) - 1)
      OBVIOUS
    <3> QED
      BY <3>1, <1>1 DEF Chain
  <2> QED
    BY <2>1, <2>2
<1> HIDE DEF f
<1> QED
  BY <1>2, <1>3, <1>4 DEF Recurs

=============================================================================
