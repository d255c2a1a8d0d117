-------------------------- MODULE TcpTransferProofs --------------------------
(***************************************************************************)
(* The codec and the byte stream of TcpTransfer, for messages and bytes of *)
(* any size, any number of tries and any way the sockets cut it up.        *)
(***************************************************************************)
EXTENDS TcpTransfer, NaturalRecursion

-----------------------------------------------------------------------------
(* Sequences                                                               *)

LEMMA ConcatElements ==
  ASSUME NEW S, NEW s \in Seq(S), NEW t \in Seq(S)
  PROVE  /\ s \o t \in Seq(S)
         /\ Len(s \o t) = Len(s) + Len(t)
         /\ \A i \in 1..Len(s) : (s \o t)[i] = s[i]
         /\ \A i \in 1..Len(t) : (s \o t)[Len(s) + i] = t[i]
  OBVIOUS

LEMMA Joined ==
  ASSUME NEW S, NEW s \in Seq(S), NEW t \in Seq(S)
  PROVE  s \o t \in Seq(S) /\ Len(s \o t) = Len(s) + Len(t)
  OBVIOUS

LEMMA AsFunction ==
  ASSUME NEW S, NEW s \in Seq(S)
  PROVE  /\ Len(s) \in Nat
         /\ DOMAIN s = 1..Len(s)
         /\ s = [i \in 1..Len(s) |-> s[i]]
  OBVIOUS

LEMMA SameElements ==
  ASSUME NEW S, NEW s \in Seq(S), NEW t \in Seq(S), Len(s) = Len(t),
         \A i \in 1..Len(s) : s[i] = t[i]
  PROVE  s = t
<1>1. s = [i \in 1..Len(s) |-> s[i]] /\ t = [i \in 1..Len(s) |-> t[i]]
  BY AsFunction
<1> QED
  BY <1>1, Zenon

LEMMA ConcatIsAssociative ==
  ASSUME NEW S
  PROVE  \A s, t, u \in Seq(S) : (s \o t) \o u = s \o (t \o u)
<1> SUFFICES ASSUME NEW s \in Seq(S), NEW t \in Seq(S), NEW u \in Seq(S)
             PROVE  (s \o t) \o u = s \o (t \o u)
  OBVIOUS
<1> QED
  OBVIOUS

LEMMA ConcatEmpty ==
  ASSUME NEW S, NEW s \in Seq(S)
  PROVE  << >> \o s = s /\ s \o << >> = s
  OBVIOUS

LEMMA SplitSequence ==
  ASSUME NEW S, NEW s \in Seq(S), NEW n \in 0..Len(s)
  PROVE  /\ Take(s, n) \in Seq(S)
         /\ Drop(s, n) \in Seq(S)
         /\ Len(Take(s, n)) = n
         /\ Take(s, n) \o Drop(s, n) = s
<1> DEFINE a == SubSeq(s, 1, n)
           b == SubSeq(s, n + 1, Len(s))
<1>0. Len(s) \in Nat
  OBVIOUS
<1>1. a \in Seq(S) /\ Len(a) = n /\ \A i \in 1..n : a[i] = s[i]
  OBVIOUS
<1>2. /\ b \in Seq(S) /\ Len(b) = Len(s) - n
      /\ \A i \in 1..Len(b) : b[i] = s[n + i]
  OBVIOUS
<1>3. a \o b \in Seq(S) /\ Len(a \o b) = Len(s)
  BY <1>1, <1>2
<1>4. ASSUME NEW i \in 1..Len(s)
      PROVE  (a \o b)[i] = s[i]
  <2> HIDE DEF a, b
  <2>1. CASE i <= n
    BY <2>1, <1>1, <1>2
  <2>2. CASE i > n
    <3>1. i - n \in 1..Len(b) /\ n + (i - n) = i
      BY <2>2, <1>2
    <3>2. (a \o b)[i] = b[i - n]
      BY <2>2, <1>1, <1>2
    <3> QED
      BY <3>1, <3>2, <1>2
  <2>3. i <= n \/ i > n
    BY <1>0
  <2> QED
    BY <2>1, <2>2, <2>3, Zenon
<1>5. a \o b = s
  <2> HIDE DEF a, b
  <2> QED
    BY <1>3, <1>4, SameElements
<1> QED
  BY <1>1, <1>2, <1>5 DEF Take, Drop

LEMMA TakePrefix ==
  ASSUME NEW S, NEW s \in Seq(S), NEW t \in Seq(S)
  PROVE  Take(s \o t, Len(s)) = s
  BY DEF Take

(* A part of a sequence does not depend on what follows it.                *)
LEMMA SlicePrefix ==
  ASSUME NEW S, NEW s \in Seq(S), NEW t \in Seq(S),
         NEW i \in Nat \ {0}, NEW j \in Nat, j <= Len(s)
  PROVE  SubSeq(s \o t, i, j) = SubSeq(s, i, j)
  OBVIOUS

LEMMA SliceSuffix ==
  ASSUME NEW S, NEW s \in Seq(S), NEW t \in Seq(S)
  PROVE  SubSeq(s \o t, Len(s) + 1, Len(s) + Len(t)) = t
  OBVIOUS

LEMMA SliceWhole ==
  ASSUME NEW S, NEW s \in Seq(S)
  PROVE  SubSeq(s, 1, Len(s)) = s
  OBVIOUS

-----------------------------------------------------------------------------
(* Quotients                                                               *)

LEMMA DivMod ==
  ASSUME NEW b \in Nat \ {0}, NEW v \in Nat
  PROVE  /\ v \div b \in Nat /\ v % b \in 0..(b - 1)
         /\ v = (v \div b) * b + (v % b)
<1>1. v \div b \in Nat
  OBVIOUS
<1>2. v % b \in 0..(b - 1)
  OBVIOUS
<1>3. v = (v \div b) * b + (v % b)
  BY SMT
<1> QED
  BY <1>1, <1>2, <1>3

LEMMA Multiples ==
  ASSUME NEW b \in Nat, NEW s \in Nat, NEW t \in Nat, s < t
  PROVE  s * b + b <= t * b
<1>1. PICK k \in Nat : t = (s + 1) + k
  <2>1. t = (s + 1) + (t - (s + 1)) /\ t - (s + 1) \in Nat
    OBVIOUS
  <2> QED
    BY <2>1
<1>2. ((s + 1) + k) * b = s * b + b + k * b
  OBVIOUS
<1>3. s * b \in Nat /\ k * b \in Nat
  OBVIOUS
<1> QED
  BY <1>1, <1>2, <1>3

LEMMA Quotient ==
  ASSUME NEW b \in Nat \ {0}, NEW q \in Nat, NEW r \in 0..(b - 1), NEW v \in Nat, v = q * b + r
  PROVE  v \div b = q
<1>1. PICK x \in Nat, y \in 0..(b - 1) : x = v \div b /\ v = x * b + y
  BY DivMod
<1>2. q * b \in Nat /\ x * b \in Nat
  OBVIOUS
<1>3. ~ (x < q)
  <2>1. x < q => x * b + b <= q * b
    BY Multiples
  <2> QED
    BY <2>1, <1>1, <1>2
<1>4. ~ (q < x)
  <2>1. q < x => q * b + b <= x * b
    BY Multiples
  <2> QED
    BY <2>1, <1>1, <1>2
<1> QED
  BY <1>1, <1>3, <1>4

(* Shifting by one more byte is dividing once more.                        *)
LEMMA QuotientOfQuotient ==
  ASSUME NEW b \in Nat \ {0}, NEW p \in Nat \ {0}, NEW v \in Nat
  PROVE  v \div (b * p) = (v \div p) \div b
<1>1. PICK q \in Nat, r \in 0..(p - 1) : q = v \div p /\ v = q * p + r
  BY DivMod
<1>2. PICK s \in Nat, t \in 0..(b - 1) : s = q \div b /\ q = s * b + t
  BY DivMod
<1>3. b * p \in Nat \ {0} /\ t * p + r \in Nat /\ b * p = p * b
  OBVIOUS
<1>4. v = s * (b * p) + (t * p + r)
  <2>1. (s * b + t) * p = s * (b * p) + t * p
    OBVIOUS
  <2>2. q * p = s * (b * p) + t * p
    BY <2>1, <1>2, Zenon
  <2>3. s * (b * p) \in Nat /\ t * p \in Nat
    OBVIOUS
  <2> QED
    BY <2>2, <2>3, <1>1
<1>5. t * p + r \in 0..(b * p - 1)
  <2>1. t * p + p <= b * p
    BY Multiples
  <2>2. t * p \in Nat
    OBVIOUS
  <2> QED
    BY <2>1, <2>2, <1>1, <1>3
<1>6. \A c \in Nat \ {0} : \A r1 \in 0..(c - 1) :
        v = s * c + r1 => v \div c = s
  BY Quotient
<1>7. v \div (b * p) = s
  BY <1>3, <1>4, <1>5, <1>6, Zenon
<1> QED
  BY <1>1, <1>2, <1>7, Zenon

-----------------------------------------------------------------------------
(* Integers                                                                *)

(* The weights are the powers of the base.                                 *)
LEMMA WeightDef ==
  /\ \A n \in Nat : Weight[n] \in Nat \ {0}
  /\ Weight[0] = 1
  /\ \A n \in Nat : Weight[n + 1] = Base * Weight[n]
<1> DEFINE V == Nat \ {0}
           step == [p \in Nat \X V |-> Base * p[2]]
           rest(f) == [n \in Nat |-> IF n = 0 THEN 1 ELSE Base * f[n - 1]]
<1>1. step \in [Nat \X V -> V]
  BY CodecAssumption
<1>2. 1 \in V
  OBVIOUS
<1>3. PICK f \in [Nat -> V] :
        Recurs(f, 1, step)
  <2> HIDE DEF step, V
  <2> QED
    BY <1>1, <1>2, Recursion, Zenon
<1> HIDE DEF step
<1>r. f[0] = 1 /\ \A n \in Nat : f[n + 1] = step[<<n, f[n]>>]
  BY <1>3 DEF Recurs
<1>4. \A n \in Nat : f[n + 1] = Base * f[n]
  <2> SUFFICES ASSUME NEW n \in Nat
               PROVE  f[n + 1] = Base * f[n]
    OBVIOUS
  <2>1. <<n, f[n]>> \in Nat \X V
    BY <1>3
  <2>2. step[<<n, f[n]>>] = Base * f[n]
    BY <2>1 DEF step
  <2> QED
    BY <2>2, <1>r
<1>5. f = rest(f)
  <2>1. \A n \in Nat : f[n] = IF n = 0 THEN 1 ELSE Base * f[n - 1]
    <3> SUFFICES ASSUME NEW n \in Nat, n # 0
                 PROVE  f[n] = Base * f[n - 1]
      BY <1>r
    <3>1. n - 1 \in Nat /\ (n - 1) + 1 = n
      OBVIOUS
    <3> QED
      BY <3>1, <1>4
  <2> QED
    BY <2>1, <1>3
<1>6. Weight = rest(Weight)
  BY <1>5, Zenon DEF Weight
<1>7. Weight[0] = 1 /\ \A n \in Nat : Weight[n + 1] = Base * Weight[n]
  <2>1. \A n \in Nat : Weight[n] = IF n = 0 THEN 1 ELSE Base * Weight[n - 1]
    BY <1>6
  <2> QED
    BY <2>1
<1>8. \A n \in Nat : n \in {k \in Nat : Weight[k] \in V}
  <2>1. 0 \in {k \in Nat : Weight[k] \in V}
    BY <1>7
  <2>2. \A n \in Nat : n \in {k \in Nat : Weight[k] \in V} =>
          n + 1 \in {k \in Nat : Weight[k] \in V}
    BY <1>7, CodecAssumption
  <2> QED
    BY <2>1, <2>2, Induction
<1> QED
  BY <1>7, <1>8

LEMMA InMemoryBytes ==
  ASSUME NEW v \in Nat, NEW w \in Nat
  PROVE  InMemory(v, w) \in Seq(Bytes) /\ Len(InMemory(v, w)) = w
<1>1. \A i \in 1..w : (v \div Weight[i - 1]) % Base \in Bytes
  <2> SUFFICES ASSUME NEW i \in 1..w
               PROVE  (v \div Weight[i - 1]) % Base \in Bytes
    OBVIOUS
  <2>1. Weight[i - 1] \in Nat \ {0}
    BY WeightDef
  <2>2. v \div Weight[i - 1] \in Nat
    BY <2>1, DivMod
  <2>3. \A q \in Nat : q % Base \in 0..(Base - 1)
    BY DivMod, CodecAssumption
  <2> QED
    BY <2>2, <2>3, Zenon DEF Bytes
<1>2. InMemory(v, w) \in [1..w -> Bytes]
  BY <1>1 DEF InMemory
<1> QED
  BY <1>2

(* FromMemory adds up the bytes.                                          *)
LEMMA ValueDef ==
  ASSUME NEW bytes \in Seq(Bytes)
  PROVE  \E f \in [0..Len(bytes) -> Nat] :
           /\ f[0] = 0
           /\ \A n \in 0..(Len(bytes) - 1) :
                f[n + 1] = f[n] + bytes[n + 1] * Weight[n]
           /\ FromMemory(bytes) = f[Len(bytes)]
<1> DEFINE step == [p \in Nat \X Nat |->
                      IF p[1] < Len(bytes)
                      THEN p[2] + bytes[p[1] + 1] * Weight[p[1]] ELSE 0]
           rest(f) == [n \in 0..Len(bytes) |->
                        IF n = 0 THEN 0
                        ELSE f[n - 1] + bytes[n] * Weight[n - 1]]
<1>l. Len(bytes) \in Nat /\ \A n \in 1..Len(bytes) : bytes[n] \in Nat
  BY CodecAssumption DEF Bytes
<1>1. step \in [Nat \X Nat -> Nat]
  <2> SUFFICES ASSUME NEW a \in Nat, NEW b \in Nat, a < Len(bytes)
               PROVE  b + bytes[a + 1] * Weight[a] \in Nat
    OBVIOUS
  <2>1. a + 1 \in 1..Len(bytes)
    BY <1>l
  <2>2. bytes[a + 1] \in Nat /\ Weight[a] \in Nat
    BY <1>l, <2>1, WeightDef, Zenon
  <2> QED
    BY <2>2
<1> HIDE DEF step
<1>2. PICK g \in [Nat -> Nat] : Recurs(g, 0, step)
  <2>1. 0 \in Nat
    OBVIOUS
  <2> QED
    BY <2>1, <1>1, Recursion, Zenon
<1>r. g[0] = 0 /\ \A n \in Nat : g[n + 1] = step[<<n, g[n]>>]
  BY <1>2 DEF Recurs
<1>3. \A n \in 0..(Len(bytes) - 1) :
        g[n + 1] = g[n] + bytes[n + 1] * Weight[n]
  <2> SUFFICES ASSUME NEW n \in 0..(Len(bytes) - 1)
               PROVE  g[n + 1] = g[n] + bytes[n + 1] * Weight[n]
    OBVIOUS
  <2>1. n \in Nat /\ n < Len(bytes)
    BY <1>l
  <2>3. <<n, g[n]>> \in Nat \X Nat
    BY <2>1, <1>2
  <2>2. step[<<n, g[n]>>] = g[n] + bytes[n + 1] * Weight[n]
    BY <2>1, <2>3 DEF step
  <2> QED
    BY <2>1, <2>2, <1>r
<1> DEFINE h == [n \in 0..Len(bytes) |-> g[n]]
<1>4. h = rest(h)
  <2>1. \A n \in 0..Len(bytes) :
          h[n] = IF n = 0 THEN 0 ELSE h[n - 1] + bytes[n] * Weight[n - 1]
    <3> SUFFICES ASSUME NEW n \in 0..Len(bytes), n # 0
                 PROVE  h[n] = h[n - 1] + bytes[n] * Weight[n - 1]
      BY <1>r, <1>l
    <3>1. n - 1 \in 0..(Len(bytes) - 1) /\ (n - 1) + 1 = n
          /\ n - 1 \in 0..Len(bytes)
      BY <1>l
    <3> QED
      BY <3>1, <1>3
  <2> QED
    BY <2>1
<1> DEFINE f == CHOOSE x : x = rest(x)
<1>5. f = rest(f)
  <2> HIDE DEF h, rest
  <2> QED
  BY <1>4, Zenon
<1>6. FromMemory(bytes) = f[Len(bytes)]
  BY Zenon DEF FromMemory
<1> HIDE DEF f
<1>7. f[0] = 0
  BY <1>5, <1>l
<1>8. \A n \in 0..(Len(bytes) - 1) :
        f[n + 1] = f[n] + bytes[n + 1] * Weight[n]
  <2> SUFFICES ASSUME NEW n \in 0..(Len(bytes) - 1)
               PROVE  f[n + 1] = f[n] + bytes[n + 1] * Weight[n]
    OBVIOUS
  <2>1. n + 1 \in 0..Len(bytes) /\ n + 1 # 0 /\ (n + 1) - 1 = n
    BY <1>l
  <2> QED
    BY <2>1, <1>5
<1>9. f \in [0..Len(bytes) -> Nat]
  <2> DEFINE S == {n \in Nat : n <= Len(bytes) => f[n] \in Nat}
  <2>1. 0 \in S
    BY <1>7
  <2>2. ASSUME NEW n \in Nat, n \in S PROVE n + 1 \in S
    <3> SUFFICES ASSUME n + 1 <= Len(bytes)
                 PROVE  f[n + 1] \in Nat
      OBVIOUS
    <3>1. n \in 0..(Len(bytes) - 1) /\ f[n] \in Nat
      BY <2>2, <1>l
    <3>2. n + 1 \in 1..Len(bytes)
      BY <1>l
    <3>3. bytes[n + 1] \in Nat /\ Weight[n] \in Nat
      BY <3>2, <1>l, WeightDef, Zenon
    <3>4. f[n] + bytes[n + 1] * Weight[n] \in Nat
      <4>1. \A a, b, c \in Nat : a + b * c \in Nat
        OBVIOUS
      <4> QED
        BY <4>1, <3>1, <3>3, Zenon
    <3> QED
      BY <3>1, <3>4, <1>8, Zenon
  <2> HIDE DEF S
  <2>3. \A n \in Nat : n \in S
    BY <2>1, <2>2, Induction
  <2>4. \A n \in 0..Len(bytes) : f[n] \in Nat
    BY <2>3, <1>l DEF S
  <2> QED
    BY <2>4, <1>5
<1> QED
  BY <1>6, <1>7, <1>8, <1>9

(* What an integer leaves over after n bytes is its quotient by the weight *)
(* of the next one; behind the last it is nothing.                         *)
LEMMA MemoryRoundTrip ==
  ASSUME NEW w \in Nat, NEW v \in Nat, v < Weight[w]
  PROVE  FromMemory(InMemory(v, w)) = v
<1> DEFINE b == InMemory(v, w)
<1>1. b \in Seq(Bytes) /\ Len(b) = w
  BY InMemoryBytes
<1>2. \A n \in 0..(w - 1) : b[n + 1] = (v \div Weight[n]) % Base
  BY DEF InMemory
<1> HIDE DEF b
<1>3. PICK f \in [0..w -> Nat] :
        /\ f[0] = 0
        /\ \A n \in 0..(w - 1) : f[n + 1] = f[n] + b[n + 1] * Weight[n]
        /\ FromMemory(b) = f[w]
  BY <1>1, ValueDef
<1> DEFINE S == {n \in Nat : n <= w =>
                   v = f[n] + (v \div Weight[n]) * Weight[n]}
<1>4. 0 \in S
  <2>1. v = 0 + (v \div 1) * 1
    OBVIOUS
  <2>2. f[0] = 0 /\ Weight[0] = 1
    BY <1>3, WeightDef
  <2>3. v = f[0] + (v \div Weight[0]) * Weight[0]
    BY <2>1, <2>2, Zenon
  <2> QED
    BY <2>3
<1>5. ASSUME NEW n \in Nat, n \in S
      PROVE  n + 1 \in S
  <2> SUFFICES ASSUME n + 1 <= w
               PROVE  v = f[n + 1] + (v \div Weight[n + 1]) * Weight[n + 1]
    OBVIOUS
  <2>1. n \in 0..(w - 1) /\ n \in 0..w /\ Weight[n] \in Nat \ {0}
    BY WeightDef
  <2>2. PICK p \in Nat \ {0} : p = Weight[n]
    BY <2>1
  <2>3. PICK q \in Nat : q = v \div p
    BY <2>2, DivMod
  <2>b. Base \in Nat \ {0}
    BY CodecAssumption
  <2>4. PICK s \in Nat, t \in 0..(Base - 1) :
          s = q \div Base /\ t = q % Base /\ q = s * Base + t
    BY <2>b, DivMod, Zenon
  <2>5. v = f[n] + q * p
    BY <1>5, <2>1, <2>2, <2>3
  <2>6. f[n + 1] = f[n] + t * p
    BY <1>2, <1>3, <2>1, <2>2, <2>3, <2>4
  <2>7. Weight[n + 1] = Base * p /\ v \div Weight[n + 1] = s
    <3>1. Weight[n + 1] = Base * p
      BY <2>1, <2>2, WeightDef
    <3>2. v \div (Base * p) = (v \div p) \div Base
      BY <2>b, <2>2, QuotientOfQuotient, Zenon
    <3> QED
      BY <3>1, <3>2, <2>3, <2>4, Zenon
  <2>8. q * p = t * p + s * (Base * p)
    <3>1. (s * Base + t) * p = t * p + s * (Base * p)
      BY CodecAssumption
    <3> QED
      BY <3>1, <2>4, Zenon
  <2>9. /\ f[n] \in Nat /\ t * p \in Nat /\ s * (Base * p) \in Nat
    BY <2>1, CodecAssumption
  <2>10. v = f[n + 1] + s * (Base * p)
    BY <2>5, <2>6, <2>8, <2>9
  <2> QED
    BY <2>7, <2>10, Zenon
<1> HIDE DEF S
<1>6. w \in S
  BY <1>4, <1>5, Induction
<1>7. v \div Weight[w] = 0
  <2>1. v = 0 * Weight[w] + v /\ v \in 0..(Weight[w] - 1)
        /\ Weight[w] \in Nat \ {0}
    <3>1. PICK p \in Nat \ {0} : p = Weight[w]
      BY WeightDef
    <3>2. v = 0 * p + v /\ v \in 0..(p - 1)
      BY <3>1
    <3> QED
      BY <3>1, <3>2
  <2>2. 0 \in Nat
    OBVIOUS
  <2> QED
    BY <2>1, <2>2, Quotient, Zenon
<1>8. v = f[w] + 0 * Weight[w]
  BY <1>6, <1>7 DEF S
<1>9. f[w] \in Nat /\ 0 * Weight[w] = 0
  <2>1. \A p \in Nat : 0 * p = 0
    OBVIOUS
  <2>2. Weight[w] \in Nat
    BY WeightDef, Zenon
  <2>3. f[w] \in Nat
    BY <1>3
  <2> QED
    BY <2>1, <2>2, <2>3, Zenon
<1> QED
  BY <1>3, <1>8, <1>9 DEF b

(* Copying the bytes in reverse on both sides gives back the bytes.        *)
LEMMA Reversed ==
  ASSUME NEW S, NEW s \in Seq(S)
  PROVE  /\ reverse_memcpy(s) \in Seq(S)
         /\ Len(reverse_memcpy(s)) = Len(s)
         /\ reverse_memcpy(reverse_memcpy(s)) = s
<1> DEFINE r == reverse_memcpy(s)
           n == Len(s)
<1>1. n \in Nat /\ DOMAIN s = 1..n /\ s = [i \in 1..n |-> s[i]]
  BY AsFunction
<1>2. r = [i \in 1..n |-> s[n - i + 1]]
  BY <1>1 DEF reverse_memcpy
<1>3. \A i \in 1..n : n - i + 1 \in 1..n /\ n - (n - i + 1) + 1 = i
  BY <1>1
<1>4. r \in [1..n -> S]
  BY <1>2, <1>3
<1>5. r \in Seq(S) /\ Len(r) = n /\ DOMAIN r = 1..n
  BY <1>1, <1>4
<1> HIDE DEF r, n
<1>6. reverse_memcpy(r) = [i \in 1..n |-> r[n - i + 1]]
  BY <1>5 DEF reverse_memcpy
<1>7. \A i \in 1..n : r[n - i + 1] = s[i]
  BY <1>2, <1>3
<1>8. reverse_memcpy(r) = s
  BY <1>1, <1>6, <1>7
<1> QED
  BY <1>5, <1>8 DEF r, n

(* What deserialize reads is what serialize was given, if it fits.         *)
LEMMA SerializedInt ==
  ASSUME NEW v \in Nat, NEW w \in Nat
  PROVE  /\ SerializeInt(v, w) \in Seq(Bytes)
         /\ Len(SerializeInt(v, w)) = w
         /\ v < Weight[w] => DeserializeInt(SerializeInt(v, w)) = v
<1>1. InMemory(v, w) \in Seq(Bytes) /\ Len(InMemory(v, w)) = w
  BY InMemoryBytes
<1>2. SerializeInt(v, w) \in Seq(Bytes) /\ Len(SerializeInt(v, w)) = w
  BY <1>1, Reversed DEF SerializeInt
<1>3. reverse_memcpy(SerializeInt(v, w)) = InMemory(v, w)
  BY <1>1, Reversed DEF SerializeInt
<1> QED
  BY <1>2, <1>3, MemoryRoundTrip DEF DeserializeInt

(* The first fields fit into a byte.                                       *)
LEMMA OneByte == \A v \in Bytes : v < Weight[1]
<1>1. Weight[0 + 1] = Base * 1
  BY WeightDef, Zenon
<1> QED
  BY <1>1, CodecAssumption DEF Bytes

-----------------------------------------------------------------------------
(* Messages                                                                *)

(* The event id fits into its width.                                       *)
LEMMA EventFits ==
  ASSUME NEW e \in 0..(Weight[EventWidth] - 1)
  PROVE  e \in Nat /\ e < Weight[EventWidth]
<1>1. Weight[EventWidth] \in Nat
  BY WeightDef, CodecAssumption, Zenon
<1> QED
  BY <1>1

LEMMA Array ==
  ASSUME NEW n \in Nat, NEW a \in Arrays(n)
  PROVE  a \in Seq(Bytes) /\ Len(a) = n
  BY DEF Arrays

(* The fields of a signature message in front of the signature.            *)
Head4(m) ==
    SerializeInt(msg_signature_type, 1) \o SerializeInt(m.event, EventWidth)
      \o m.nonce \o SerializeInt(m.id, 1)

LEMMA ChallengeIsSequence ==
  ASSUME NEW m \in Challenges
  PROVE  /\ SerializeChallenge(m) \in Seq(Bytes)
         /\ Len(SerializeChallenge(m)) = ChallengeSize
<1> DEFINE a == SerializeInt(msg_challenge_type, 1)
           b == SerializeInt(m.event, EventWidth)
<1>1. a \in Seq(Bytes) /\ Len(a) = 1
  BY SerializedInt DEF msg_challenge_type
<1>2. b \in Seq(Bytes) /\ Len(b) = EventWidth
  BY SerializedInt, EventFits, CodecAssumption DEF Challenges
<1>3. m.nonce \in Seq(Bytes) /\ Len(m.nonce) = NonceSize
  BY Array, CodecAssumption DEF Challenges
<1> HIDE DEF a, b
<1>4. a \o b \in Seq(Bytes) /\ Len(a \o b) = 1 + EventWidth
  <2>1. /\ a \o b \in Seq(Bytes)
        /\ Len(a \o b) = Len(a) + Len(b)
    BY <1>1, <1>2, Joined
  <2> QED
    BY <2>1, <1>1, <1>2
<1>5. /\ (a \o b) \o m.nonce \in Seq(Bytes)
      /\ Len((a \o b) \o m.nonce) = 1 + EventWidth + NonceSize
  <2>1. /\ (a \o b) \o m.nonce \in Seq(Bytes)
        /\ Len((a \o b) \o m.nonce) = Len((a \o b)) + Len(m.nonce)
    BY <1>3, <1>4, Joined
  <2> QED
    BY <2>1, <1>3, <1>4
<1> QED
  BY <1>5 DEF SerializeChallenge, ChallengeSize, a, b

LEMMA HeadIsSequence ==
  ASSUME NEW m \in Signatures
  PROVE  Head4(m) \in Seq(Bytes) /\ Len(Head4(m)) = BodySize
<1> DEFINE a == SerializeInt(msg_signature_type, 1)
           b == SerializeInt(m.event, EventWidth)
           d == SerializeInt(m.id, 1)
<1>1. a \in Seq(Bytes) /\ Len(a) = 1
  BY SerializedInt DEF msg_signature_type
<1>2. b \in Seq(Bytes) /\ Len(b) = EventWidth
  BY SerializedInt, EventFits, CodecAssumption DEF Signatures
<1>3. m.nonce \in Seq(Bytes) /\ Len(m.nonce) = NonceSize
  BY Array, CodecAssumption DEF Signatures
<1>4. d \in Seq(Bytes) /\ Len(d) = 1
  <2>1. m.id \in Nat
    BY CodecAssumption DEF Signatures, Bytes
  <2> QED
    BY <2>1, SerializedInt
<1> HIDE DEF a, b, d
<1>5. a \o b \in Seq(Bytes) /\ Len(a \o b) = 1 + EventWidth
  <2>1. /\ a \o b \in Seq(Bytes)
        /\ Len(a \o b) = Len(a) + Len(b)
    BY <1>1, <1>2, Joined
  <2> QED
    BY <2>1, <1>1, <1>2
<1>6. /\ (a \o b) \o m.nonce \in Seq(Bytes)
      /\ Len((a \o b) \o m.nonce) = 1 + EventWidth + NonceSize
  <2>1. /\ (a \o b) \o m.nonce \in Seq(Bytes)
        /\ Len((a \o b) \o m.nonce) = Len((a \o b)) + Len(m.nonce)
    BY <1>3, <1>5, Joined
  <2> QED
    BY <2>1, <1>3, <1>5
<1>7. /\ ((a \o b) \o m.nonce) \o d \in Seq(Bytes)
      /\ Len(((a \o b) \o m.nonce) \o d) = 1 + EventWidth + NonceSize + 1
  <2>1. /\ ((a \o b) \o m.nonce) \o d \in Seq(Bytes)
        /\ Len(((a \o b) \o m.nonce) \o d) = Len(((a \o b) \o m.nonce)) + Len(d)
    BY <1>4, <1>6, Joined
  <2> QED
    BY <2>1, <1>4, <1>6
<1> QED
  BY <1>7 DEF Head4, BodySize, ChallengeSize, a, b, d

(* A signature message is its head and its signature; without the          *)
(* signature it has the same head.                                         *)
LEMMA SignatureMessage ==
  ASSUME NEW m \in Signatures
  PROVE  /\ SerializeSignature(m) = Head4(m) \o m.signature
         /\ Unsigned(m) = Head4(m) \o [i \in 1..SignatureSize |-> 0]
  BY DEF SerializeSignature, Head4, Unsigned, Signatures

(* Whatever has the size of a signature leaves the body alone.             *)
LEMMA BodyIsHead ==
  ASSUME NEW m \in Signatures, NEW t \in Seq(Bytes), Len(t) = SignatureSize
  PROVE  Body(Head4(m) \o t) = Head4(m)
<1>1. /\ Head4(m) \in Seq(Bytes)
      /\ Len(Head4(m) \o t) - SignatureSize = Len(Head4(m))
  BY HeadIsSequence, CodecAssumption
<1> QED
  BY <1>1, TakePrefix DEF Body, Take

(* serialize_at puts the signature where serialize would have put it.      *)
LEMMA SerializeAt ==
  ASSUME NEW m \in Signatures
  PROVE  /\ SerializeSignatureAt(m.signature, Unsigned(m)) = SerializeSignature(m)
         /\ SerializeSignature(m) \in Seq(Bytes)
         /\ Len(SerializeSignature(m)) = MessageSize
         /\ Body(Unsigned(m)) = Body(SerializeSignature(m))
<1> DEFINE h == Head4(m)
           t == m.signature
           z == [i \in 1..SignatureSize |-> 0]
<1>1. h \in Seq(Bytes) /\ Len(h) = BodySize /\ BodySize = OffsetOfSignature
  BY HeadIsSequence, CodecAssumption
     DEF BodySize, ChallengeSize, OffsetOfSignature
<1>2. t \in Seq(Bytes) /\ Len(t) = SignatureSize
  BY Array, CodecAssumption DEF Signatures
<1>3. z \in Seq(Bytes) /\ Len(z) = SignatureSize
  <2>1. z \in Arrays(SignatureSize)
    BY CodecAssumption DEF Arrays, Bytes
  <2> QED
    BY <2>1, Array, CodecAssumption
<1>4. SerializeSignature(m) = h \o t /\ Unsigned(m) = h \o z
  BY SignatureMessage
<1> HIDE DEF h, t, z
<1>5. SerializeSignatureAt(t, h \o z) = h \o t
  <2>1. /\ h \o z \in Seq(Bytes) /\ Len(h \o z) = Len(h) + SignatureSize
        /\ h \o t \in Seq(Bytes) /\ Len(h \o t) = Len(h) + SignatureSize
    BY <1>1, <1>2, <1>3
  <2>2. ASSUME NEW i \in 1..(Len(h) + SignatureSize)
        PROVE  SerializeSignatureAt(t, h \o z)[i] = (h \o t)[i]
    <3>1. CASE i <= Len(h)
      BY <3>1, <1>1, <1>2, <1>3, <2>1, CodecAssumption DEF SerializeSignatureAt
    <3>2. CASE i > Len(h)
      <4>1. i - OffsetOfSignature \in DOMAIN t
        BY <3>2, <1>1, <1>2, CodecAssumption
      <4>2. (h \o t)[i] = t[i - OffsetOfSignature]
        BY <3>2, <1>1, <1>2, CodecAssumption
      <4> QED
        BY <4>1, <4>2, <2>1 DEF SerializeSignatureAt
    <3>3. i <= Len(h) \/ i > Len(h)
      BY <1>1, AsFunction
    <3> QED
      BY <3>1, <3>2, <3>3, Zenon
  <2>3. DOMAIN (h \o t) = 1..(Len(h) + SignatureSize)
    BY <2>1
  <2>4. /\ SerializeSignatureAt(t, h \o z)
             = [i \in 1..(Len(h) + SignatureSize) |->
                  SerializeSignatureAt(t, h \o z)[i]]
    BY <2>1 DEF SerializeSignatureAt
  <2>5. h \o t = [i \in 1..(Len(h) + SignatureSize) |-> (h \o t)[i]]
    BY <2>1, AsFunction
  <2> QED
    BY <2>2, <2>4, <2>5, Zenon
<1>6. Body(h \o t) = h /\ Body(h \o z) = h
  BY <1>2, <1>3, BodyIsHead DEF h
<1>7. h \o t \in Seq(Bytes) /\ Len(h \o t) = BodySize + SignatureSize
  <2>1. /\ h \o t \in Seq(Bytes)
        /\ Len(h \o t) = Len(h) + Len(t)
    BY <1>1, <1>2, Joined
  <2> QED
    BY <2>1, <1>1, <1>2
<1> QED
  BY <1>4, <1>5, <1>6, <1>7, Zenon DEF MessageSize, t

(* The fields in front of the id, which both messages have.                *)
Fields(type, m) ==
    SerializeInt(type, 1) \o SerializeInt(m.event, EventWidth) \o m.nonce

LEMMA FieldsDecoded ==
  ASSUME NEW type \in Bytes, NEW m, m.event \in 0..(Weight[EventWidth] - 1),
         m.nonce \in Arrays(NonceSize), NEW t \in Seq(Bytes)
  PROVE  /\ Fields(type, m) \in Seq(Bytes)
         /\ Len(Fields(type, m)) = ChallengeSize
         /\ TypeOf(Fields(type, m) \o t) = type
         /\ DeserializeInt(SubSeq(Fields(type, m) \o t, 2, 1 + EventWidth))
              = m.event
         /\ SubSeq(Fields(type, m) \o t, 2 + EventWidth, ChallengeSize) = m.nonce
<1> DEFINE a == SerializeInt(type, 1)
           b == SerializeInt(m.event, EventWidth)
           c == m.nonce
           f == (a \o b) \o c
<1>w. EventWidth \in Nat \ {0} /\ NonceSize \in Nat
  BY CodecAssumption
<1>1. a \in Seq(Bytes) /\ Len(a) = 1 /\ DeserializeInt(a) = type
  <2>1. type \in Nat /\ type < Weight[1] /\ 1 \in Nat
    BY OneByte, CodecAssumption DEF Bytes
  <2> QED
    BY <2>1, SerializedInt
<1>2. b \in Seq(Bytes) /\ Len(b) = EventWidth /\ DeserializeInt(b) = m.event
  BY <1>w, SerializedInt, EventFits
<1>3. c \in Seq(Bytes) /\ Len(c) = NonceSize
  BY <1>w, Array
<1>4. a \o b \in Seq(Bytes) /\ Len(a \o b) = 1 + EventWidth
  <2> HIDE DEF a, b
  <2>1. a \o b \in Seq(Bytes) /\ Len(a \o b) = Len(a) + Len(b)
    BY <1>1, <1>2, Joined
  <2> QED
    BY <2>1, <1>1, <1>2
<1>5. f \in Seq(Bytes) /\ Len(f) = 1 + EventWidth + NonceSize
  <2> HIDE DEF a, b, c
  <2>1. f \in Seq(Bytes) /\ Len(f) = Len(a \o b) + Len(c)
    BY <1>3, <1>4, Joined
  <2> QED
    BY <2>1, <1>3, <1>4
<1> HIDE DEF a, b, c
<1>6. SubSeq(f \o t, 1, 1) = a
  <2>1. SubSeq(f \o t, 1, 1) = SubSeq(f, 1, 1)
    BY <1>5, <1>w, SlicePrefix
  <2>2. SubSeq(f, 1, 1) = SubSeq(a \o b, 1, 1)
    BY <1>3, <1>4, <1>w, SlicePrefix
  <2>3. SubSeq(a \o b, 1, 1) = SubSeq(a, 1, 1)
    <3>1. 1 \in Nat \ {0} /\ 1 \in Nat /\ 1 <= Len(a)
      BY <1>1
    <3> QED
      BY <3>1, <1>1, <1>2, SlicePrefix, Zenon
  <2>4. SubSeq(a, 1, 1) = a
    <3>1. SubSeq(a, 1, Len(a)) = a
      BY <1>1, SliceWhole
    <3> QED
      BY <3>1, <1>1
  <2> QED
    BY <2>1, <2>2, <2>3, <2>4, Zenon
<1>7. SubSeq(f \o t, 2, 1 + EventWidth) = b
  <2>1. SubSeq(f \o t, 2, 1 + EventWidth) = SubSeq(f, 2, 1 + EventWidth)
    BY <1>5, <1>w, SlicePrefix
  <2>2. SubSeq(f, 2, 1 + EventWidth) = SubSeq(a \o b, 2, 1 + EventWidth)
    BY <1>3, <1>4, <1>w, SlicePrefix
  <2>3. SubSeq(a \o b, 2, 1 + EventWidth) = b
    <3>1. SubSeq(a \o b, Len(a) + 1, Len(a) + Len(b)) = b
      BY <1>1, <1>2, SliceSuffix
    <3>2. Len(a) + 1 = 2 /\ Len(a) + Len(b) = 1 + EventWidth
      BY <1>1, <1>2
    <3> QED
      BY <3>1, <3>2, Zenon
  <2> QED
    BY <2>1, <2>2, <2>3, Zenon
<1>8. SubSeq(f \o t, 2 + EventWidth, ChallengeSize) = c
  <2>1. SubSeq(f \o t, 2 + EventWidth, 1 + EventWidth + NonceSize)
          = SubSeq(f, 2 + EventWidth, 1 + EventWidth + NonceSize)
    BY <1>5, <1>w, SlicePrefix
  <2>2. SubSeq(f, Len(a \o b) + 1, Len(a \o b) + Len(c)) = c
    BY <1>3, <1>4, SliceSuffix
  <2>3. /\ Len(a \o b) + 1 = 2 + EventWidth
        /\ Len(a \o b) + Len(c) = 1 + EventWidth + NonceSize
    BY <1>3, <1>4, <1>w
  <2> QED
    BY <2>1, <2>2, <2>3, Zenon DEF ChallengeSize
<1>9. Fields(type, m) = f
  BY DEF Fields, a, b, c
<1> HIDE DEF f
<1> QED
  BY <1>1, <1>2, <1>5, <1>6, <1>7, <1>8, <1>9, Zenon
     DEF TypeOf, ChallengeSize, c

(* deserialize gives back the challenge that was serialized.               *)
LEMMA ChallengeDecoded ==
  ASSUME NEW m \in Challenges
  PROVE  /\ TypeOf(SerializeChallenge(m)) = msg_challenge_type
         /\ DeserializeChallenge(SerializeChallenge(m)) = m
<1>1. /\ m.event \in 0..(Weight[EventWidth] - 1) /\ m.nonce \in Arrays(NonceSize)
      /\ m = [event |-> m.event, nonce |-> m.nonce]
  BY DEF Challenges
<1>2. msg_challenge_type \in Bytes /\ << >> \in Seq(Bytes)
  BY CodecAssumption DEF msg_challenge_type, Bytes
<1> DEFINE f == Fields(msg_challenge_type, m)
<1>3. /\ f \in Seq(Bytes)
      /\ TypeOf(f \o << >>) = msg_challenge_type
      /\ DeserializeInt(SubSeq(f \o << >>, 2, 1 + EventWidth)) = m.event
      /\ SubSeq(f \o << >>, 2 + EventWidth, ChallengeSize) = m.nonce
  BY <1>1, <1>2, FieldsDecoded
<1>4. SerializeChallenge(m) = f
  BY DEF SerializeChallenge, Fields
<1> HIDE DEF f
<1>5. f \o << >> = f
  BY <1>3, ConcatEmpty
<1> QED
  BY <1>1, <1>3, <1>4, <1>5, Zenon DEF DeserializeChallenge

(* And the same for a signature.                                           *)
LEMMA SignatureDecoded ==
  ASSUME NEW m \in Signatures
  PROVE  /\ TypeOf(SerializeSignature(m)) = msg_signature_type
         /\ DeserializeSignature(SerializeSignature(m)) = m
<1>1. /\ m.event \in 0..(Weight[EventWidth] - 1) /\ m.nonce \in Arrays(NonceSize)
      /\ m.id \in Bytes /\ m.signature \in Arrays(SignatureSize)
      /\ m = [event |-> m.event, nonce |-> m.nonce, id |-> m.id,
              signature |-> m.signature]
  BY DEF Signatures
<1>2. msg_signature_type \in Bytes /\ SignatureSize \in Nat
  BY CodecAssumption DEF msg_signature_type, Bytes
<1> DEFINE f == Fields(msg_signature_type, m)
           d == SerializeInt(m.id, 1)
           g == m.signature
<1>3. d \in Seq(Bytes) /\ Len(d) = 1 /\ DeserializeInt(d) = m.id
  <2>1. m.id \in Nat /\ m.id < Weight[1] /\ 1 \in Nat
    BY <1>1, OneByte, CodecAssumption DEF Bytes
  <2> QED
    BY <2>1, SerializedInt
<1>4. g \in Seq(Bytes) /\ Len(g) = SignatureSize
  BY <1>1, <1>2, Array
<1> HIDE DEF d, g
<1>5. d \o g \in Seq(Bytes)
  BY <1>3, <1>4, Joined
<1>6. /\ f \in Seq(Bytes) /\ Len(f) = ChallengeSize
      /\ TypeOf(f \o (d \o g)) = msg_signature_type
      /\ DeserializeInt(SubSeq(f \o (d \o g), 2, 1 + EventWidth)) = m.event
      /\ SubSeq(f \o (d \o g), 2 + EventWidth, ChallengeSize) = m.nonce
  BY <1>1, <1>2, <1>5, FieldsDecoded
<1>7. SerializeSignature(m) = (f \o d) \o g
  BY DEF SerializeSignature, Fields, d, g
<1> HIDE DEF f
<1>8. (f \o d) \o g = f \o (d \o g)
  BY <1>3, <1>4, <1>6, ConcatIsAssociative
<1>9. f \o d \in Seq(Bytes) /\ Len(f \o d) = BodySize /\ BodySize \in Nat \ {0}
  <2>1. f \o d \in Seq(Bytes) /\ Len(f \o d) = Len(f) + Len(d)
    BY <1>3, <1>6, Joined
  <2> QED
    BY <2>1, <1>3, <1>6, CodecAssumption DEF BodySize, ChallengeSize
<1>10. SubSeq((f \o d) \o g, BodySize, BodySize) = d
  <2>1. SubSeq((f \o d) \o g, BodySize, BodySize)
          = SubSeq(f \o d, BodySize, BodySize)
    BY <1>4, <1>9, SlicePrefix
  <2>2. SubSeq(f \o d, Len(f) + 1, Len(f) + Len(d)) = d
    BY <1>3, <1>6, SliceSuffix
  <2>3. Len(f) + 1 = BodySize /\ Len(f) + Len(d) = BodySize
    BY <1>3, <1>6 DEF BodySize
  <2> QED
    BY <2>1, <2>2, <2>3, Zenon
<1>11. SubSeq((f \o d) \o g, BodySize + 1, MessageSize) = g
  <2>1. SubSeq((f \o d) \o g, Len(f \o d) + 1, Len(f \o d) + Len(g)) = g
    BY <1>4, <1>9, SliceSuffix
  <2> QED
    BY <2>1, <1>4, <1>9, Zenon DEF MessageSize
<1> QED
  BY <1>1, <1>3, <1>6, <1>7, <1>8, <1>10, <1>11, Zenon
     DEF DeserializeSignature, g

-----------------------------------------------------------------------------
(* The inductive invariant                                                 *)

Sequences3 ==
    /\ to_be_sent \in Seq(Bytes)
    /\ wire \in Seq(Bytes)
    /\ buffer \in Seq(Bytes)

(* What is sent never changes, and a signature covers what is in front of  *)
(* it.                                                                     *)
Sent ==
    \/ kind = "challenge" /\ message \in Challenges
    \/ /\ kind = "signature"
       /\ message \in Signatures
       /\ signedBody = Body(Encoded)

(* Only a receive that has filled the buffer succeeds.                     *)
Filled ==
    /\ result = [side \in Sides |-> result[side]]
    /\ result["receive"] = "ok" => Len(buffer) = Expected

IInv ==
    /\ Sequences3
    /\ Sent
    /\ Filled
    /\ broken \in BOOLEAN
    /\ broken => wire = << >>
    /\ StreamIntact

LEMMA EncodedIsSequence ==
  ASSUME Sent
  PROVE  Encoded \in Seq(Bytes) /\ Len(Encoded) = Expected
  BY ChallengeIsSequence, SerializeAt DEF Sent, Encoded, Expected

LEMMA InitInvariant == Init => IInv
<1> SUFFICES ASSUME Init
             PROVE  IInv
  OBVIOUS
<1>1. Sent /\ to_be_sent = Encoded
  <2>1. CASE SendChallenge
    BY <2>1 DEF SendChallenge, Sent, Encoded
  <2>2. CASE SendSignature
    BY <2>2, SerializeAt DEF SendSignature, Sent, Encoded
  <2> QED
    BY <2>1, <2>2 DEF Init
<1>2. Sequences3
  BY <1>1, EncodedIsSequence DEF Init, Sequences3
<1>3. StreamIntact
  <2>1. << >> \o << >> = << >>
    OBVIOUS
  <2>2. (<< >> \o << >>) \o to_be_sent = to_be_sent
    BY <1>2, <2>1, ConcatEmpty DEF Sequences3
  <2> QED
    BY <1>1, <2>2 DEF Init, StreamIntact
<1>4. Filled
  BY DEF Init, Filled, Sides
<1> QED
  BY <1>1, <1>2, <1>3, <1>4 DEF Init, IInv

(* The steps that leave the bytes where they are.                          *)
LEMMA NoBytesMove ==
  ASSUME IInv, UNCHANGED <<kind, message, signedBody, to_be_sent, wire, buffer,
                           broken>>,
         result' = [side \in Sides |-> result'[side]],
         result'["receive"] = "ok" => result["receive"] = "ok"
  PROVE  IInv'
  BY DEF IInv, Sequences3, Sent, Filled, StreamIntact, Encoded, Expected

LEMMA AfterErrorResult ==
  ASSUME IInv, NEW side \in Sides, NEW code, code # "ok", AfterError(side, code)
  PROVE  /\ result' = [x \in Sides |-> result'[x]]
         /\ result'["receive"] = "ok" => result["receive"] = "ok"
<1>1. UNCHANGED result \/ Return(side, code) \/ Return(side, "ran_out_of_tries")
  BY DEF AfterError
<1> QED
  BY <1>1 DEF IInv, Filled, Return, Sides

LEMMA SocketCodes ==
  ASSUME NEW e
  PROVE  ChallengeSendCode(e) # "ok" /\ ChallengeReceiveCode(e) # "ok"
  BY DEF ChallengeSendCode, ChallengeReceiveCode, ChallengeSocketCode

LEMMA SendFailsInvariant ==
  ASSUME IInv, NEW e, SendFails(e)
  PROVE  IInv'
<1>1. /\ result' = [x \in Sides |-> result'[x]]
      /\ result'["receive"] = "ok" => result["receive"] = "ok"
  BY AfterErrorResult, SocketCodes DEF SendFails, Sides
<1> QED
  BY <1>1, NoBytesMove DEF SendFails, SpanAfterError

LEMMA ReceiveFailsInvariant ==
  ASSUME IInv, NEW e, ReceiveFails(e)
  PROVE  IInv'
<1>1. /\ result' = [x \in Sides |-> result'[x]]
      /\ result'["receive"] = "ok" => result["receive"] = "ok"
  BY AfterErrorResult, SocketCodes DEF ReceiveFails, Sides
<1> QED
  BY <1>1, NoBytesMove DEF ReceiveFails

(* The first n bytes of the span go to the end of the wire.                *)
LEMMA SendInvariant ==
  ASSUME IInv, NEW n \in 1..Len(to_be_sent), Send(n)
  PROVE  IInv'
<1> DEFINE a == Take(to_be_sent, n)
           b == Drop(to_be_sent, n)
<1>1. /\ a \in Seq(Bytes) /\ b \in Seq(Bytes) /\ a \o b = to_be_sent
      /\ n \in 0..Len(to_be_sent)
  BY SplitSequence DEF IInv, Sequences3
<1>2. wire' = wire \o a /\ to_be_sent' = b /\ ~broken
      /\ UNCHANGED <<kind, message, signedBody, buffer, broken>>
  BY DEF Send
<1> HIDE DEF a, b
<1>3. Sequences3'
  BY <1>1, <1>2, Joined DEF IInv, Sequences3
<1>4. StreamIntact'
  <2>1. (buffer \o wire) \o (a \o b) = Encoded
    BY <1>1, <1>2 DEF IInv, StreamIntact
  <2>2. buffer \in Seq(Bytes) /\ wire \in Seq(Bytes)
    BY DEF IInv, Sequences3
  <2>3. buffer \o wire \in Seq(Bytes) /\ wire \o a \in Seq(Bytes)
    BY <1>1, <2>2, Joined
  <2>4. ((buffer \o wire) \o a) \o b = (buffer \o wire) \o (a \o b)
    <3>1. \A s, t, u \in Seq(Bytes) : (s \o t) \o u = s \o (t \o u)
      BY ConcatIsAssociative
    <3>2. a \in Seq(Bytes) /\ b \in Seq(Bytes)
      BY <1>1
    <3> QED
      BY <3>1, <3>2, <2>3
  <2>5. (buffer \o wire) \o a = buffer \o (wire \o a)
    BY <1>1, <2>2, ConcatIsAssociative
  <2>6. (buffer \o (wire \o a)) \o b = Encoded
    BY <2>1, <2>4, <2>5
  <2> QED
    BY <1>2, <2>6 DEF StreamIntact, Encoded
<1>5. Filled'
  <2>1. UNCHANGED result \/ Return("send", "ok")
    BY DEF Send
  <2> QED
    BY <1>2, <2>1 DEF IInv, Filled, Return, Sides, Expected
<1> QED
  BY <1>2, <1>3, <1>4, <1>5 DEF IInv, Sent, Encoded

(* The first n bytes of the wire go to the end of the buffer.              *)
LEMMA ReceiveInvariant ==
  ASSUME IInv, NEW n \in 1..Len(wire), Receive(n)
  PROVE  IInv'
<1> DEFINE a == Take(wire, n)
           b == Drop(wire, n)
<1>1. /\ a \in Seq(Bytes) /\ b \in Seq(Bytes) /\ a \o b = wire
      /\ Len(a) = n
  BY SplitSequence DEF IInv, Sequences3
<1>2. buffer' = buffer \o a /\ wire' = b
      /\ UNCHANGED <<kind, message, signedBody, to_be_sent, broken>>
  BY DEF Receive
<1>3. ~broken
  <2>1. Len(<< >>) = 0
    OBVIOUS
  <2> QED
    BY <2>1 DEF IInv
<1> HIDE DEF a, b
<1>4. Sequences3'
  BY <1>1, <1>2, Joined DEF IInv, Sequences3
<1>5. StreamIntact'
  <2>1. (buffer \o (a \o b)) \o to_be_sent = Encoded
    BY <1>1, <1>3 DEF IInv, StreamIntact
  <2>2. buffer \in Seq(Bytes)
    BY DEF IInv, Sequences3
  <2>3. (buffer \o a) \o b = buffer \o (a \o b)
    <3>1. \A s, t, u \in Seq(Bytes) : (s \o t) \o u = s \o (t \o u)
      BY ConcatIsAssociative
    <3>2. a \in Seq(Bytes) /\ b \in Seq(Bytes)
      BY <1>1
    <3> QED
      BY <3>1, <3>2, <2>2
  <2> QED
    BY <1>2, <1>3, <2>1, <2>3 DEF StreamIntact, Encoded
<1>6. Filled'
  <2>1. Len(buffer') = Len(buffer) + n
    BY <1>1, <1>2, Joined DEF IInv, Sequences3
  <2>2. \/ Len(buffer) + n = Expected /\ Return("receive", "ok")
        \/ UNCHANGED result
    BY DEF Receive
  <2>3. result["receive"] = "none" /\ Expected' = Expected
    BY <1>2 DEF Receive, Running, Expected
  <2> QED
    BY <2>1, <2>2, <2>3 DEF IInv, Filled, Return, Sides
<1> QED
  BY <1>2, <1>3, <1>4, <1>5, <1>6 DEF IInv, Sent, Encoded

(* What has been read before the connection broke stays the beginning of   *)
(* the message.                                                            *)
LEMMA BreakInvariant ==
  ASSUME IInv, Break
  PROVE  IInv'
<1>1. << >> \in Seq(Bytes)
  OBVIOUS
<1>2. Take(Encoded, Len(buffer)) = buffer
  <2>1. CASE broken
    BY <2>1 DEF IInv, StreamIntact
  <2>2. CASE ~broken
    <3>1. /\ buffer \in Seq(Bytes) /\ wire \in Seq(Bytes)
          /\ to_be_sent \in Seq(Bytes)
      BY DEF IInv, Sequences3
    <3>2. wire \o to_be_sent \in Seq(Bytes)
      BY <3>1, Joined
    <3>3. (buffer \o wire) \o to_be_sent = buffer \o (wire \o to_be_sent)
      BY <3>1, ConcatIsAssociative
    <3>4. Encoded = buffer \o (wire \o to_be_sent)
      BY <2>2, <3>3 DEF IInv, StreamIntact
    <3> QED
      BY <3>1, <3>2, <3>4, TakePrefix
  <2> QED
    BY <2>1, <2>2 DEF IInv
<1> QED
  BY <1>1, <1>2 DEF Break, IInv, Sequences3, Sent, Filled, StreamIntact,
     Encoded, Expected

LEMMA NextInvariant == IInv /\ [Next]_vars => IInv'
<1> SUFFICES ASSUME IInv, [Next]_vars
             PROVE  IInv'
  OBVIOUS
<1>1. ASSUME NEW n \in 1..Len(to_be_sent), Send(n) PROVE IInv'
  BY <1>1, SendInvariant
<1>2. ASSUME NEW n \in 1..Len(wire), Receive(n) PROVE IInv'
  BY <1>2, ReceiveInvariant
<1>3. CASE SendTimeout \/ SendToClosed
  BY <1>3, SendFailsInvariant DEF SendTimeout, SendToClosed
<1>4. CASE ReceiveTimeout \/ ReceiveFromClosed
  BY <1>4, ReceiveFailsInvariant DEF ReceiveTimeout, ReceiveFromClosed
<1>5. ASSUME NEW e \in Errnos, SendFails(e) \/ ReceiveFails(e) PROVE IInv'
  BY <1>5, SendFailsInvariant, ReceiveFailsInvariant
<1>6. ASSUME NEW side \in Sides, Disconnect(side) PROVE IInv'
  <2>1. UNCHANGED result /\ result = [x \in Sides |-> result[x]]
    BY <1>6 DEF Disconnect, IInv, Filled
  <2> QED
    BY <1>6, <2>1, NoBytesMove DEF Disconnect
<1>7. CASE Break
  BY <1>7, BreakInvariant
<1>8. CASE UNCHANGED vars
  <2>1. UNCHANGED result /\ result = [x \in Sides |-> result[x]]
    BY <1>8 DEF vars, IInv, Filled
  <2> QED
    BY <1>8, <2>1, NoBytesMove DEF vars
<1> QED
  BY <1>1, <1>2, <1>3, <1>4, <1>5, <1>6, <1>7, <1>8 DEF Next

LEMMA Invariance == Spec => []IInv
  BY InitInvariant, NextInvariant, PTL DEF Spec

(* challenge_socket_send and challenge_socket_receive move a message       *)
(* without losing, repeating or reordering a byte, whatever the sizes and  *)
(* wherever they are interrupted.                                          *)
THEOREM StreamStaysIntact == Spec => []StreamIntact
<1>1. IInv => StreamIntact
  BY DEF IInv
<1> QED
  BY <1>1, Invariance, PTL

LEMMA OkIsEncoded ==
  ASSUME IInv, result["receive"] = "ok"
  PROVE  buffer = Encoded
<1>1. Len(buffer) = Expected
  BY DEF IInv, Filled
<1>2. Encoded \in Seq(Bytes) /\ Len(Encoded) = Len(buffer)
  BY <1>1, EncodedIsSequence DEF IInv
<1>3. CASE broken
  <2>1. Take(Encoded, Len(Encoded)) = Encoded
    BY <1>2 DEF Take
  <2> QED
    BY <1>3, <2>1, <1>2 DEF IInv, StreamIntact
<1>4. CASE ~broken
  <2>1. /\ buffer \in Seq(Bytes) /\ wire \in Seq(Bytes)
        /\ to_be_sent \in Seq(Bytes)
    BY DEF IInv, Sequences3
  <2>2. wire \o to_be_sent \in Seq(Bytes)
    BY <2>1, Joined
  <2>3. (buffer \o wire) \o to_be_sent = buffer \o (wire \o to_be_sent)
    BY <2>1, ConcatIsAssociative
  <2>4. Encoded = buffer \o (wire \o to_be_sent)
    BY <1>4, <2>3 DEF IInv, StreamIntact
  <2>5. \A i \in 1..Len(buffer) : Encoded[i] = buffer[i]
    BY <2>1, <2>2, <2>4, ConcatElements
  <2> QED
    BY <1>2, <2>1, <2>5, SameElements
<1> QED
  BY <1>3, <1>4 DEF IInv

(* What receive_signature verifies is what send_signature has signed.      *)
THEOREM VerifiesWhatWasSigned == Spec => []VerifiedBodyIsSigned
<1>1. IInv => VerifiedBodyIsSigned
  BY OkIsEncoded DEF VerifiedBodyIsSigned, IInv, Sent
<1> QED
  BY <1>1, Invariance, PTL

(* Whoever reads a message to its end has what the other side put in, for  *)
(* all widths of the fields, all values of a byte and all messages.        *)
THEOREM ReceivesWhatWasSent == Spec => []OkMeansWhole
<1>1. ASSUME IInv, result["receive"] = "ok"
      PROVE  IF kind = "challenge"
             THEN /\ TypeOf(buffer) = msg_challenge_type
                  /\ DeserializeChallenge(buffer) = message
             ELSE /\ TypeOf(buffer) = msg_signature_type
                  /\ DeserializeSignature(buffer) = message
  <2>1. buffer = Encoded
    BY <1>1, OkIsEncoded
  <2>2. CASE kind = "challenge"
    <3>1. message \in Challenges
      BY <1>1, <2>2 DEF IInv, Sent
    <3> QED
      BY <2>1, <2>2, <3>1, ChallengeDecoded DEF Encoded
  <2>3. CASE kind # "challenge"
    <3>1. message \in Signatures
      BY <1>1, <2>3 DEF IInv, Sent
    <3> QED
      BY <2>1, <2>3, <3>1, SignatureDecoded DEF Encoded
  <2> QED
    BY <2>2, <2>3
<1>2. IInv => OkMeansWhole
  BY <1>1 DEF OkMeansWhole
<1> QED
  BY <1>2, Invariance, PTL

-----------------------------------------------------------------------------
(* Bounds                                                                  *)

(* Whoever still runs has a try left; nothing overruns the buffers.        *)
Bounded ==
    /\ Len(wire) <= Capacity
    /\ Len(buffer) <= Expected
    /\ tries \in [Sides -> 0..(1 + Retries)]
    /\ result \in [Sides -> Results]
    /\ open \in SUBSET Sides
    /\ \A side \in Sides : Running(side) => tries[side] # 0

LEMMA SocketCodesTyped ==
  ASSUME NEW e
  PROVE  /\ ChallengeSendCode(e) \in ErrorCodes \cup {"retry"}
         /\ ChallengeReceiveCode(e) \in ErrorCodes \cup {"retry"}
  BY DEF ChallengeSendCode, ChallengeReceiveCode, ChallengeSocketCode, ErrorCodes

(* Only the last try ends the loop, and it does.                           *)
LEMMA AfterErrorBounded ==
  ASSUME Bounded, NEW side \in Sides, Running(side),
         NEW code \in ErrorCodes \cup {"retry"}, AfterError(side, code)
  PROVE  /\ tries' \in [Sides -> 0..(1 + Retries)]
         /\ result' \in [Sides -> Results]
         /\ \A x \in Sides : Running(x)' => tries'[x] # 0
<1>1. CASE code # "retry"
  <2>1. code \in Results /\ code # "none"
    BY <1>1 DEF Results, ErrorCodes
  <2> QED
    BY <1>1, <2>1 DEF AfterError, Return, Bounded, Running
<1>2. CASE code = "retry"
  <2>1. tries[side] \in 1..(1 + Retries)
    BY TransferAssumption DEF Bounded
  <2>2. tries' = [tries EXCEPT ![side] = @ - 1]
    BY <1>2 DEF AfterError
  <2>3. tries' \in [Sides -> 0..(1 + Retries)]
    BY <2>1, <2>2, TransferAssumption DEF Bounded
  <2>4. "ran_out_of_tries" \in Results /\ "ran_out_of_tries" # "none"
    BY DEF Results, ErrorCodes
  <2>5. CASE tries[side] = 1
    BY <2>2, <2>3, <2>4, <2>5, <1>2 DEF AfterError, Return, Bounded, Running
  <2>6. CASE tries[side] # 1
    <3>1. UNCHANGED result /\ tries'[side] # 0
      BY <2>1, <2>2, <2>6, <1>2 DEF AfterError, Bounded
    <3> QED
      BY <2>2, <2>3, <3>1 DEF Bounded, Running
  <2> QED
    BY <2>5, <2>6
<1> QED
  BY <1>1, <1>2

LEMMA NextBounded == IInv /\ Bounded /\ [Next]_vars => Bounded'
<1> SUFFICES ASSUME IInv, Bounded, [Next]_vars
             PROVE  Bounded'
  OBVIOUS
<1>1. ASSUME NEW n \in 1..Len(to_be_sent), Send(n)
      PROVE  Bounded'
  <2>1. Len(wire') = Len(wire) + n
    <3>1. Take(to_be_sent, n) \in Seq(Bytes) /\ Len(Take(to_be_sent, n)) = n
      BY SplitSequence DEF IInv, Sequences3
    <3> QED
      BY <1>1, <3>1, Joined DEF Send, IInv, Sequences3
  <2>2. \/ UNCHANGED result
        \/ result' = [result EXCEPT !["send"] = "ok"]
    BY <1>1 DEF Send, Return
  <2>3. UNCHANGED <<kind, buffer, tries, open>>
    BY <1>1 DEF Send
  <2>4. Len(wire') <= Capacity
    BY <1>1, <2>1 DEF Send
  <2> QED
    BY <2>2, <2>3, <2>4 DEF Bounded, Running, Results, Expected
<1>2. ASSUME NEW n \in 1..Len(wire), Receive(n)
      PROVE  Bounded'
  <2>1. Len(wire') = Len(wire) - n /\ Len(buffer') = Len(buffer) + n
    <3>1. /\ Take(wire, n) \in Seq(Bytes) /\ Len(Take(wire, n)) = n
      BY SplitSequence DEF IInv, Sequences3
    <3>2. Len(Drop(wire, n)) = Len(wire) - n
      BY DEF Drop, IInv, Sequences3
    <3> QED
      BY <1>2, <3>1, <3>2, Joined DEF Receive, IInv, Sequences3
  <2>2. \/ UNCHANGED result
        \/ result' = [result EXCEPT !["receive"] = "ok"]
    BY <1>2 DEF Receive, Return
  <2>3. UNCHANGED <<kind, tries, open>>
    BY <1>2 DEF Receive
  <2>4. Len(buffer') <= Expected /\ Len(wire') <= Capacity
    <3>1. Len(wire) \in Nat
      BY DEF IInv, Sequences3
    <3> QED
      BY <1>2, <2>1, <3>1, TransferAssumption DEF Receive, Bounded
  <2> QED
    BY <2>2, <2>3, <2>4 DEF Bounded, Running, Results, Expected
<1>3. ASSUME NEW e, SendFails(e) \/ ReceiveFails(e)
      PROVE  Bounded'
  <2>1. /\ tries' \in [Sides -> 0..(1 + Retries)]
        /\ result' \in [Sides -> Results]
        /\ \A x \in Sides : Running(x)' => tries'[x] # 0
    <3>1. "send" \in Sides /\ "receive" \in Sides
      BY DEF Sides
    <3> QED
      BY <3>1, <1>3, SocketCodesTyped, AfterErrorBounded
         DEF SendFails, ReceiveFails
  <2> QED
    BY <2>1, <1>3 DEF SendFails, ReceiveFails, Bounded, Expected
<1>4. CASE SendTimeout \/ SendToClosed \/ ReceiveTimeout \/ ReceiveFromClosed
  BY <1>3, <1>4
     DEF SendTimeout, SendToClosed, ReceiveTimeout, ReceiveFromClosed
<1>5. ASSUME NEW side \in Sides, Disconnect(side)
      PROVE  Bounded'
  BY <1>5 DEF Disconnect, Bounded, Running, Expected
<1>6. CASE Break
  <2>1. Len(<< >>) = 0 /\ 0 <= Capacity
    BY TransferAssumption
  <2> QED
    BY <2>1, <1>6 DEF Break, Bounded, Running, Expected
<1>7. CASE UNCHANGED vars
  BY <1>7 DEF vars, Bounded, Running, Expected
<1> QED
  BY <1>1, <1>2, <1>3, <1>4, <1>5, <1>6, <1>7 DEF Next

(* No side reads or writes more than the message, the buffers of TCP hold  *)
(* what is under way, and the tries never run below zero, where an         *)
(* unsigned counter would start again from its largest value.              *)
THEOREM TypeCorrect == Spec => []TypeOK
<1>1. Init => Bounded
  <2> SUFFICES ASSUME Init
               PROVE  Bounded
    OBVIOUS
  <2>1. Len(<< >>) = 0
    OBVIOUS
  <2>2. Expected \in Nat
    BY CodecAssumption DEF Expected, MessageSize, BodySize, ChallengeSize
  <2>3. 1 + Retries \in 0..(1 + Retries) /\ 1 + Retries # 0
    BY TransferAssumption
  <2> QED
    BY <2>1, <2>2, <2>3, TransferAssumption DEF Init, Bounded, Results, Running
<1>2. IInv /\ Bounded => TypeOK
  BY DEF IInv, Bounded, Sequences3, Sent, TypeOK
<1> QED
  BY <1>1, <1>2, InitInvariant, NextInvariant, NextBounded, PTL DEF Spec

=============================================================================
