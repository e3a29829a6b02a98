----------------------------- MODULE DataLemmas -----------------------------
(***************************************************************************)
(* Facts about data for the proof modules: induction over numbers, what a  *)
(* function defined by recursion is, sequences put together from           *)
(* sequences, and sequences used as queues.                                *)
(*                                                                         *)
(* Induction is stated for a set, not for a predicate: a lemma with an     *)
(* operator for a parameter cannot be used. It rests on < being well       *)
(* founded.                                                                *)
(***************************************************************************)
EXTENDS Naturals, Sequences, SequencesExt, SequenceTheorems, WellFoundedInduction, TLAPS

-----------------------------------------------------------------------------
(* Induction.                                                              *)

(* What contains 0 and with every number the next contains all numbers.    *)
LEMMA SetInduction ==
    ASSUME NEW S, 0 \in S, \A n \in Nat : n \in S => n + 1 \in S
    PROVE  Nat \subseteq S
  <1> DEFINE R == OpToRel(<, Nat)
             T == Nat \ S
  <1>1. SUFFICES ASSUME T # {} PROVE FALSE
    OBVIOUS
  <1>2. IsWellFoundedOn(R, Nat)
    BY NatLessThanWellFounded
  <1>3. PICK x \in T : \A y \in T : ~(<<y, x>> \in R)
    <2> HIDE DEF R
    <2> QED BY <1>1, <1>2, WFMin
  <1>4. \A y \in T : ~(y < x)
    BY <1>3 DEF OpToRel
  <1>5. x - 1 \in Nat /\ x - 1 < x
    OBVIOUS
  <1> QED BY <1>4, <1>5

(* The same from a up to b.                                                *)
LEMMA IntervalInduction ==
    ASSUME NEW S, NEW a \in Nat, NEW b \in Nat, a \in S,
           \A i \in a..(b - 1) : i \in S => i + 1 \in S
    PROVE  a..b \subseteq S
  <1> DEFINE T == {n \in Nat : a + n <= b => a + n \in S}
  <1>1. 0 \in T
    OBVIOUS
  <1>2. ASSUME NEW n \in Nat, n \in T PROVE n + 1 \in T
    <2> SUFFICES ASSUME a + (n + 1) <= b PROVE a + (n + 1) \in S
      OBVIOUS
    <2>1. a + n \in a..(b - 1) /\ a + n \in S
      BY <1>2
    <2>2. (a + n) + 1 \in S
      BY <2>1
    <2> QED BY <2>2
  <1>3. Nat \subseteq T
    <2> HIDE DEF T
    <2> QED BY <1>1, <1>2, SetInduction
  <1>4. ASSUME NEW i \in a..b PROVE i \in S
    <2>1. i - a \in Nat /\ a + (i - a) = i
      OBVIOUS
    <2> QED BY <1>3, <2>1
  <1> QED BY <1>4

Alike(f, g, N) == \A i \in 0..N : f[i] = g[i]

\* f and g start alike, and go on so.
GoOnAlike(f, g, N) ==
    f[0] = g[0] /\ \A i \in 0..(N - 1) : f[i] = g[i] => f[i + 1] = g[i + 1]

LEMMA AlikeByInduction ==
    ASSUME NEW N \in Nat, NEW f, NEW g, GoOnAlike(f, g, N)
    PROVE  Alike(f, g, N)
  <1> USE DEF Alike, GoOnAlike
  <1> DEFINE E == {i \in 0..N : f[i] = g[i]}
  <1>1. 0 \in E
    OBVIOUS
  <1>2. ASSUME NEW i \in 0..(N - 1), i \in E PROVE i + 1 \in E
    BY <1>2
  <1>3. 0..N \subseteq E
    <2> HIDE DEF E
    <2> QED BY <1>1, <1>2, IntervalInduction
  <1> QED BY <1>3

\* f starts from a, and G[i] makes its i-th value of the one before.
Recursion(f, N, V, a, G) ==
    f \in [0..N -> V] /\ f[0] = a /\ \A i \in 1..N : f[i] = G[i][f[i - 1]]

(* There is such a function.                                               *)
LEMMA RecursiveValues ==
    ASSUME NEW N \in Nat, NEW V, NEW a \in V, NEW G \in [1..N -> [V -> V]]
    PROVE  \E f : Recursion(f, N, V, a, G)
  <1> DEFINE Good(f, n) == f[0] = a /\ \A i \in 1..n : f[i] = G[i][f[i - 1]]
             S == {n \in Nat : \E f \in [0..n -> V] : Good(f, n)}
  <1>1. 0 \in S
    <2>1. [i \in 0..0 |-> a] \in [0..0 -> V] /\ Good([i \in 0..0 |-> a], 0)
      OBVIOUS
    <2> QED BY <2>1
  <1>2. ASSUME NEW n \in 0..(N - 1), n \in S PROVE n + 1 \in S
    <2>1. PICK g \in [0..n -> V] : Good(g, n)
      BY <1>2
    <2> DEFINE v == G[n + 1][g[n]]
               f == [i \in 0..(n + 1) |-> IF i <= n THEN g[i] ELSE v]
    <2>2. v \in V
      BY <2>1
    <2>3. f \in [0..(n + 1) -> V]
      <3> HIDE DEF v
      <3> QED BY <2>1, <2>2
    <2>4. ASSUME NEW i \in 1..(n + 1) PROVE f[i] = G[i][f[i - 1]]
      <3>1. CASE i <= n
        BY <2>1, <3>1
      <3>2. CASE i = n + 1
        <4>1. f[n + 1] = v /\ f[n] = g[n]
          <5> HIDE DEF v
          <5> QED OBVIOUS
        <4>2. (n + 1) - 1 = n
          OBVIOUS
        <4> HIDE DEF f
        <4> QED BY <3>2, <4>1, <4>2
      <3> QED BY <3>1, <3>2
    <2>5. f[0] = a
      BY <2>1
    <2> HIDE DEF f
    <2>6. Good(f, n + 1)
      BY <2>4, <2>5
    <2> QED BY <2>3, <2>6
  <1>3. 0..N \subseteq S
    <2> HIDE DEF S
    <2>1. \A n \in 0..(N - 1) : n \in S => n + 1 \in S
      BY <1>2
    <2> QED BY <1>1, <2>1, IntervalInduction
  <1> QED BY <1>3 DEF Recursion

-----------------------------------------------------------------------------
(* Products, quotients and remainders.                                     *)

LEMMA ProductMonotonic ==
    ASSUME NEW a \in Nat, NEW b \in Nat, NEW c \in Nat, a <= b
    PROVE  a * c <= b * c /\ a * c \in Nat /\ b * c \in Nat
  OBVIOUS

(* What is k times d and less than d more has quotient k.                  *)
LEMMA DivisionIs ==
    ASSUME NEW d \in Nat, d > 0, NEW m \in Nat, NEW k \in Nat, NEW r \in Nat,
           r < d, m = k * d + r
    PROVE  m % d = r /\ m \div d = k
  <1>1. m % d = r
    OBVIOUS
  <1>2. m \div d = k
    <2>1. k * d \in Nat
      OBVIOUS
    <2>2. m >= k * d /\ m < k * d + d
      BY <2>1
    <2> QED BY <2>2
  <1> QED BY <1>1, <1>2

LEMMA Division ==
    ASSUME NEW d \in Nat, d > 0, NEW m \in Nat
    PROVE  /\ m \div d \in Nat /\ m % d \in Nat /\ m % d < d
           /\ m = (m \div d) * d + (m % d)
  <1> DEFINE k == m \div d
  <1>1. k \in Nat
    OBVIOUS
  <1>2. m >= k * d /\ m < k * d + d
    OBVIOUS
  <1> HIDE DEF k
  <1>3. k * d \in Nat
    BY <1>1
  <1> DEFINE r == m - k * d
  <1>4. r \in Nat /\ r < d /\ m = k * d + r
    BY <1>2, <1>3
  <1>5. m % d = r
    <2> HIDE DEF r
    <2> QED BY <1>1, <1>4, DivisionIs
  <1> HIDE DEF r
  <1>6. m % d \in Nat /\ m % d < d /\ m = k * d + (m % d)
    BY <1>4, <1>5, Zenon
  <1> QED BY <1>1, <1>6 DEF k

LEMMA QuotientBound ==
    ASSUME NEW d \in Nat, d > 0, NEW m \in Nat, NEW n \in Nat
    PROVE  n <= m \div d <=> n * d <= m
  <1> DEFINE q == m \div d
             r == m % d
  <1>1. q \in Nat /\ r \in Nat /\ r < d /\ m = q * d + r
    BY Division
  <1>2. CASE n <= q
    <2> HIDE DEF q, r
    <2>1. n * d <= q * d /\ n * d \in Nat /\ q * d \in Nat
      BY <1>1, <1>2, ProductMonotonic
    <2> QED BY <1>1, <1>2, <2>1 DEF q
  <1>3. CASE q + 1 <= n
    <2> HIDE DEF q, r
    <2>1. (q + 1) * d <= n * d /\ n * d \in Nat /\ q * d \in Nat
      BY <1>1, <1>3, ProductMonotonic
    <2>2. (q + 1) * d = q * d + d
      BY <1>1
    <2> QED BY <1>1, <1>3, <2>1, <2>2 DEF q
  <1> QED BY <1>1, <1>2, <1>3

-----------------------------------------------------------------------------
(* Sequences of sequences.                                                 *)

\* h[i] is what the first i sequences of ss are in a row.
RunningConcat(h, S, ss) ==
    /\ h \in [0..Len(ss) -> Seq(S)]
    /\ h[0] = <<>>
    /\ \A i \in 1..Len(ss) : h[i] = h[i - 1] \o ss[i]
    /\ \A i \in 0..Len(ss) : FlattenSeq(SubSeq(ss, 1, i)) = h[i]

(* Flattening the prefixes of ss adds one of its sequences after another.  *)
LEMMA FlattenPrefixes ==
    ASSUME NEW S, NEW ss \in Seq(Seq(S))
    PROVE  \E h : RunningConcat(h, S, ss)
  <1> DEFINE N == Len(ss)
             V == Seq(S)
             G == [i \in 1..N |-> [s \in V |-> s \o ss[i]]]
  <1>1. N \in Nat /\ \A i \in 1..N : ss[i] \in Seq(S)
    OBVIOUS
  <1>2. G \in [1..N -> [V -> V]]
    <2> SUFFICES ASSUME NEW i \in 1..N, NEW s \in Seq(S) PROVE s \o ss[i] \in Seq(S)
      OBVIOUS
    <2> QED BY <1>1, ConcatProperties
  <1>3. PICK h : Recursion(h, N, V, <<>>, G)
    <2>1. <<>> \in V
      OBVIOUS
    <2> HIDE DEF N, G, V
    <2> QED BY <1>1, <1>2, <2>1, RecursiveValues
  <1> DEFINE H == h \in [0..N -> V] /\ h[0] = <<>>
  <1>4. H /\ \A i \in 1..N : h[i] = h[i - 1] \o ss[i]
    <2>1. H /\ \A i \in 1..N : h[i] = G[i][h[i - 1]]
      BY <1>3 DEF Recursion
    <2> SUFFICES ASSUME NEW i \in 1..N PROVE h[i] = h[i - 1] \o ss[i]
      BY <2>1
    <2>2. i - 1 \in 0..N
      BY <1>1
    <2>3. h[i - 1] \in V
      BY <2>1, <2>2
    <2> QED BY <2>1, <2>3
  <1>5. ASSUME 1 \in 1..N PROVE h[1] = ss[1]
    <2>1. h[1] = h[1 - 1] \o ss[1]
      <3> HIDE DEF N
      <3> QED BY <1>4, <1>5, Zenon
    <2>2. 1 - 1 = 0
      OBVIOUS
    <2>3. h[1] = <<>> \o ss[1]
      BY <1>4, <2>1, <2>2, Zenon
    <2> QED BY <1>1, <1>5, <2>3, ConcatEmptySeq
  <1>6. FlattenSeq(SubSeq(ss, 1, 0)) = h[0]
    <2>1. SubSeq(ss, 1, 0) = <<>> /\ Len(<<>>) = 0
      OBVIOUS
    <2> QED BY <1>4, <2>1 DEF FlattenSeq
  <1>7. ASSUME NEW n \in 1..N PROVE FlattenSeq(SubSeq(ss, 1, n)) = h[n]
    <2> DEFINE t == SubSeq(ss, 1, n)
               P(f) == f = [i \in 1..Len(t) |-> IF i = 1 THEN t[i] ELSE f[i - 1] \o t[i]]
               c == CHOOSE f : P(f)
               g == [i \in 1..n |-> h[i]]
    <2> SUFFICES FlattenSeq(t) = h[n]
      OBVIOUS
    <2>1. n \in Nat \ {0} /\ Len(t) = n /\ \A i \in 1..n : t[i] = ss[i] /\ i \in 1..N
      BY <1>1
    <2>2. FlattenSeq(t) = c[Len(t)]
      <3>1. Len(t) # 0
        BY <2>1
      <3> HIDE DEF t
      <3> QED BY <3>1, Zenon DEF FlattenSeq
    <2>3. P(g)
      <3>1. h[1] = ss[1]
        BY <1>5, <2>1
      <3>2. ASSUME NEW i \in 1..n PROVE h[i] = IF i = 1 THEN t[i] ELSE g[i - 1] \o t[i]
        <4>1. CASE i = 1
          BY <2>1, <3>1, <4>1
        <4>2. CASE i # 1
          <5>1. i - 1 \in 1..n /\ g[i - 1] = h[i - 1]
            BY <2>1, <4>2
          <5>2. h[i] = h[i - 1] \o ss[i] /\ t[i] = ss[i]
            BY <1>4, <2>1
          <5> HIDE DEF t, g
          <5> QED BY <4>2, <5>1, <5>2
        <4> QED BY <4>1, <4>2
      <3>3. g = [i \in 1..n |-> IF i = 1 THEN t[i] ELSE g[i - 1] \o t[i]]
        <4> DEFINE e(i) == IF i = 1 THEN t[i] ELSE g[i - 1] \o t[i]
        <4>1. \A i \in 1..n : h[i] = e(i)
          BY <3>2
        <4> HIDE DEF e
        <4>2. [i \in 1..n |-> h[i]] = [i \in 1..n |-> e(i)]
          BY <4>1
        <4> QED BY <4>2 DEF e
      <3> HIDE DEF t, g
      <3> QED BY <2>1, <3>3
    <2>4. P(c)
      <3> HIDE DEF P
      <3> QED BY <2>3
    <2>5. ASSUME NEW i \in 1..n PROVE c[i] = IF i = 1 THEN t[i] ELSE c[i - 1] \o t[i]
      <3> HIDE DEF t, c
      <3> QED BY <2>1, <2>4
    <2> DEFINE E == {i \in 1..n : c[i] = h[i]}
    <2>6. 1 \in E
      <3>1. 1 \in 1..n /\ 1 \in 1..N
        BY <2>1
      <3>2. c[1] = ss[1]
        <4> HIDE DEF c, t
        <4> QED BY <2>1, <2>5, <3>1
      <3>3. h[1] = ss[1]
        BY <1>5, <3>1
      <3> QED BY <3>1, <3>2, <3>3
    <2>7. ASSUME NEW i \in 1..(n - 1), i \in E PROVE i + 1 \in E
      <3>1. i + 1 \in 1..n /\ i + 1 \in 1..N /\ (i + 1) - 1 = i /\ i + 1 # 1
        BY <2>1
      <3>2. c[i + 1] = c[i] \o ss[i + 1]
        <4> HIDE DEF c, t
        <4>1. c[i + 1] = c[(i + 1) - 1] \o t[i + 1]
          BY <2>5, <3>1
        <4> QED BY <2>1, <3>1, <4>1
      <3>3. h[i + 1] = h[i] \o ss[i + 1]
        BY <1>4, <3>1
      <3> HIDE DEF c
      <3> QED BY <2>7, <3>1, <3>2, <3>3
    <2>8. 1..n \subseteq E
      <3> HIDE DEF E
      <3> QED BY <2>1, <2>6, <2>7, IntervalInduction
    <2>9. c[n] = h[n]
      <3>1. n \in E
        <4> HIDE DEF E
        <4> QED BY <2>1, <2>8
      <3> HIDE DEF c
      <3> QED BY <3>1
    <2> HIDE DEF t, c
    <2> QED BY <2>1, <2>2, <2>9
  <1>8. ASSUME NEW i \in 0..N PROVE FlattenSeq(SubSeq(ss, 1, i)) = h[i]
    <2>1. i = 0 \/ i \in 1..N
      BY <1>1
    <2> HIDE DEF N
    <2> QED BY <1>6, <1>7, <2>1
  <1> QED BY <1>4, <1>8 DEF RunningConcat

-----------------------------------------------------------------------------
(* Sequences as queues of frames.                                          *)

(* Appending adds one element at the end.                                  *)
LEMMA AppendFacts ==
    ASSUME NEW S, NEW s \in Seq(S), NEW e \in S
    PROVE  /\ Append(s, e) \in Seq(S)
           /\ Len(Append(s, e)) = Len(s) + 1
           /\ DOMAIN Append(s, e) = DOMAIN s \cup {Len(s) + 1}
           /\ \A i \in DOMAIN s : Append(s, e)[i] = s[i]
           /\ Append(s, e)[Len(s) + 1] = e
           /\ Range(Append(s, e)) = Range(s) \cup {e}
  <1>1. /\ Append(s, e) \in Seq(S)
        /\ Len(Append(s, e)) = Len(s) + 1
        /\ DOMAIN Append(s, e) = 1..(Len(s) + 1)
        /\ DOMAIN s = 1..Len(s)
        /\ Len(s) \in Nat
        /\ \A i \in DOMAIN s : Append(s, e)[i] = s[i]
        /\ Append(s, e)[Len(s) + 1] = e
    OBVIOUS
  <1>2. DOMAIN Append(s, e) = DOMAIN s \cup {Len(s) + 1}
    BY <1>1
  <1>3. Range(Append(s, e)) = Range(s) \cup {e}
    BY <1>1, <1>2, Zenon DEF Range
  <1> QED BY <1>1, <1>2, <1>3

(* Taking the first element leaves the others, in their order.             *)
LEMMA TailFacts ==
    ASSUME NEW S, NEW s \in Seq(S), s # <<>>
    PROVE  /\ Len(s) \in Nat \ {0} /\ DOMAIN s = 1..Len(s)
           /\ Head(s) \in S /\ Head(s) \in Range(s) /\ Head(s) = s[1]
           /\ Tail(s) \in Seq(S) /\ DOMAIN Tail(s) = 1..(Len(s) - 1)
           /\ \A i \in 1..(Len(s) - 1) : Tail(s)[i] = s[i + 1]
           /\ Range(Tail(s)) \subseteq Range(s)
  <1>1. /\ Len(s) \in Nat \ {0} /\ DOMAIN s = 1..Len(s)
        /\ Head(s) = s[1] /\ Head(s) \in S
        /\ Tail(s) \in Seq(S) /\ DOMAIN Tail(s) = 1..(Len(s) - 1)
        /\ \A i \in 1..(Len(s) - 1) : Tail(s)[i] = s[i + 1]
    OBVIOUS
  <1>2. Range(Tail(s)) \subseteq Range(s)
    BY <1>1 DEF Range
  <1> QED BY <1>1, <1>2 DEF Range

(* So does taking one out of the middle.                                   *)
LEMMA RemoveAtFacts ==
    ASSUME NEW S, NEW s \in Seq(S), NEW k \in DOMAIN s
    PROVE  /\ s[k] \in S /\ s[k] \in Range(s)
           /\ RemoveAt(s, k) \in Seq(S)
           /\ Range(RemoveAt(s, k)) \subseteq Range(s)
           /\ Len(RemoveAt(s, k)) = Len(s) - 1
           /\ \A i \in 1..(Len(s) - 1) :
                 RemoveAt(s, k)[i] = IF i < k THEN s[i] ELSE s[i + 1]
  <1>1. /\ Len(s) \in Nat /\ DOMAIN s = 1..Len(s) /\ k \in 1..Len(s)
        /\ s[k] \in S
    OBVIOUS
  <1> DEFINE a == SubSeq(s, 1, k - 1)
             b == SubSeq(s, k + 1, Len(s))
  <1>2. /\ a \in Seq(S) /\ Len(a) = k - 1
        /\ \A i \in 1..(k - 1) : a[i] = s[i]
    BY <1>1
  <1>3. /\ b \in Seq(S) /\ Len(b) = Len(s) - k
        /\ \A i \in 1..(Len(s) - k) : b[i] = s[k + i]
    BY <1>1
  <1>4. RemoveAt(s, k) = a \o b
    BY DEF RemoveAt
  <1>5. /\ a \o b \in Seq(S) /\ Len(a \o b) = Len(s) - 1
        /\ \A i \in 1..(Len(s) - 1) :
              (a \o b)[i] = IF i <= k - 1 THEN a[i] ELSE b[i - (k - 1)]
    <2> HIDE DEF a, b
    <2>1. /\ a \o b \in Seq(S) /\ Len(a \o b) = Len(a) + Len(b)
          /\ \A i \in 1..(Len(a) + Len(b)) :
                (a \o b)[i] = IF i <= Len(a) THEN a[i] ELSE b[i - Len(a)]
      BY <1>2, <1>3, ConcatProperties
    <2>2. Len(a) + Len(b) = Len(s) - 1
      BY <1>1, <1>2, <1>3
    <2> QED BY <1>2, <2>1, <2>2
  <1>6. \A i \in 1..(Len(s) - 1) :
           (a \o b)[i] = IF i < k THEN s[i] ELSE s[i + 1]
    <2> SUFFICES ASSUME NEW i \in 1..(Len(s) - 1)
                 PROVE  (a \o b)[i] = IF i < k THEN s[i] ELSE s[i + 1]
      OBVIOUS
    <2> HIDE DEF a, b
    <2>1. CASE i <= k - 1
      <3>1. i \in 1..(k - 1)
        BY <2>1, <1>1
      <3>2. (a \o b)[i] = s[i]
        BY <2>1, <3>1, <1>2, <1>5
      <3>3. i < k
        BY <2>1, <1>1
      <3> QED BY <3>2, <3>3
    <2>2. CASE ~(i <= k - 1)
      <3>1. i - (k - 1) \in 1..(Len(s) - k) /\ k + (i - (k - 1)) = i + 1
        BY <2>2, <1>1
      <3>2. (a \o b)[i] = s[k + (i - (k - 1))]
        BY <2>2, <3>1, <1>3, <1>5
      <3>3. ~(i < k)
        BY <2>2, <1>1
      <3> QED BY <3>1, <3>2, <3>3
    <2> QED BY <2>1, <2>2
  <1>7. Range(a \o b) \subseteq Range(s)
    <2> SUFFICES ASSUME NEW x \in Range(a \o b) PROVE x \in Range(s)
      OBVIOUS
    <2>1. PICK i \in DOMAIN (a \o b) : x = (a \o b)[i]
      BY DEF Range
    <2>2. i \in 1..(Len(s) - 1)
      BY <1>5, <2>1
    <2>3. i \in DOMAIN s /\ i + 1 \in DOMAIN s
      BY <2>2, <1>1
    <2> HIDE DEF a, b
    <2> QED BY <2>1, <2>2, <2>3, <1>6 DEF Range
  <1>8. s[k] \in Range(s)
    BY <1>1 DEF Range
  <1> HIDE DEF a, b
  <1> QED BY <1>1, <1>4, <1>5, <1>6, <1>7, <1>8, Zenon

-----------------------------------------------------------------------------
(* Sequences put together and cut.                                         *)

\* c is s followed by t, by the places of each.
Joins(c, S, s, t) ==
    /\ c \in Seq(S) /\ Len(c) = Len(s) + Len(t)
    /\ \A i \in 1..Len(s) : c[i] = s[i]
    /\ \A i \in 1..Len(t) : c[Len(s) + i] = t[i]

(* What \o makes.                                                         *)
LEMMA ConcatJoins ==
    ASSUME NEW S, NEW s \in Seq(S), NEW t \in Seq(S)
    PROVE  Joins(s \o t, S, s, t)
  <1>1. Len(s) \in Nat /\ Len(t) \in Nat
    OBVIOUS
  <1> DEFINE c == s \o t
  <1>2. /\ c \in Seq(S) /\ Len(c) = Len(s) + Len(t)
        /\ \A i \in 1..(Len(s) + Len(t)) : c[i] = IF i <= Len(s) THEN s[i] ELSE t[i - Len(s)]
    BY ConcatProperties
  <1> HIDE DEF c
  <1>3. ASSUME NEW i \in 1..Len(s) PROVE c[i] = s[i]
    BY <1>1, <1>2
  <1>4. ASSUME NEW i \in 1..Len(t) PROVE c[Len(s) + i] = t[i]
    <2>1. /\ Len(s) + i \in 1..(Len(s) + Len(t))
          /\ ~(Len(s) + i <= Len(s)) /\ (Len(s) + i) - Len(s) = i
      BY <1>1
    <2> QED BY <1>2, <2>1
  <1>5. Joins(c, S, s, t)
    BY <1>2, <1>3, <1>4, Zenon DEF Joins
  <1> QED BY <1>5 DEF c

\* r is the elements of X after the p-th up to the k-th.
Piece(r, X, S, p, k) ==
    r \in Seq(S) /\ Len(r) = k - p /\ \A x \in 1..(k - p) : r[x] = X[p + x]

(* What SubSeq makes.                                                      *)
LEMMA PieceIs ==
    ASSUME NEW S, NEW X \in Seq(S), NEW p \in Nat, NEW k \in Nat, p <= k, k <= Len(X)
    PROVE  Piece(SubSeq(X, p + 1, k), X, S, p, k)
  <1> DEFINE a == p + 1
             r == SubSeq(X, a, k)
  <1>1. Len(X) \in Nat /\ a \in Int /\ k \in Int
    OBVIOUS
  <1>2. \A i \in a..k : X[i] \in S
    <2>1. \A i \in a..k : i \in 1..Len(X)
      BY <1>1
    <2> QED BY <2>1
  <1> HIDE DEF a
  <1>3. /\ r \in Seq(S) /\ Len(r) = IF a <= k THEN k - a + 1 ELSE 0
        /\ \A i \in 1..(k - a + 1) : r[i] = X[a + i - 1]
    BY <1>1, <1>2, SubSeqProperties
  <1> HIDE DEF r
  <1>4. Len(r) = k - p
    BY <1>3 DEF a
  <1>5. ASSUME NEW x \in 1..(k - p) PROVE r[x] = X[p + x]
    <2>1. x \in 1..(k - a + 1) /\ a + x - 1 = p + x
      BY DEF a
    <2> QED BY <1>3, <2>1
  <1>6. Piece(r, X, S, p, k)
    BY <1>3, <1>4, <1>5 DEF Piece
  <1> QED BY <1>6 DEF r, a

(* A piece of a piece, pieces side by side, a piece of a sequence to which *)
(* something was added.                                                    *)
LEMMA PieceOfPiece ==
    ASSUME NEW S, NEW X \in Seq(S), NEW p \in Nat, NEW k \in Nat, p <= k, k <= Len(X),
           NEW q \in Nat, p + q <= k
    PROVE  SubSeq(SubSeq(X, p + 1, k), q + 1, k - p) = SubSeq(X, p + q + 1, k)
  <1> DEFINE r == SubSeq(X, p + 1, k)
             n == k - p
             s == SubSeq(r, q + 1, n)
             pq == p + q
             t == SubSeq(X, pq + 1, k)
  <1>1. Len(X) \in Nat /\ n \in Nat /\ pq \in Nat /\ q <= n
    OBVIOUS
  <1>2. Piece(r, X, S, p, k)
    BY PieceIs
  <1>3. Piece(t, X, S, pq, k)
    <2> HIDE DEF pq
    <2> QED BY <1>1, PieceIs DEF pq
  <1> HIDE DEF r
  <1>4. r \in Seq(S) /\ Len(r) = n /\ \A x \in 1..n : r[x] = X[p + x]
    BY <1>2 DEF Piece
  <1>5. Piece(s, r, S, q, n)
    <2> HIDE DEF n
    <2> QED BY <1>1, <1>4, PieceIs
  <1> HIDE DEF s, t
  <1>6. Len(s) = Len(t) /\ s \in Seq(S) /\ t \in Seq(S) /\ Len(s) = n - q
    BY <1>3, <1>5 DEF Piece
  <1>7. ASSUME NEW x \in 1..(n - q) PROVE s[x] = t[x]
    <2>1. q + x \in 1..n /\ p + (q + x) = pq + x /\ x \in 1..(k - pq)
      BY <1>1
    <2>2. s[x] = r[q + x] /\ r[q + x] = X[p + (q + x)]
      BY <1>4, <1>5, <2>1 DEF Piece
    <2>3. t[x] = X[pq + x]
      BY <1>3, <2>1 DEF Piece
    <2> QED BY <2>1, <2>2, <2>3
  <1>8. s = t
    BY <1>6, <1>7, SeqEqual
  <1> QED BY <1>8 DEF s, t, r

LEMMA PiecesJoin ==
    ASSUME NEW S, NEW X \in Seq(S), NEW p \in Nat, NEW q \in Nat, NEW k \in Nat,
           p <= q, q <= k, k <= Len(X)
    PROVE  SubSeq(X, p + 1, q) \o SubSeq(X, q + 1, k) = SubSeq(X, p + 1, k)
  <1>1. p + 1 \in 1..(Len(X) + 1) /\ q \in ((p + 1) - 1)..Len(X) /\ k \in q..Len(X)
    OBVIOUS
  <1> QED BY <1>1, ConcatAdjacentSubSeq

LEMMA PieceOfConcat ==
    ASSUME NEW S, NEW X \in Seq(S), NEW e \in Seq(S), NEW p \in Nat, NEW k \in Nat,
           p <= k, k <= Len(X)
    PROVE  SubSeq(X \o e, p + 1, k) = SubSeq(X, p + 1, k)
  <1> DEFINE Y == X \o e
             s == SubSeq(X, p + 1, k)
             t == SubSeq(Y, p + 1, k)
  <1>1. Joins(Y, S, X, e)
    BY ConcatJoins
  <1> HIDE DEF Y
  <1>2. Y \in Seq(S) /\ Len(Y) = Len(X) + Len(e) /\ \A i \in 1..Len(X) : Y[i] = X[i]
    BY <1>1 DEF Joins
  <1>3. Len(X) \in Nat /\ Len(e) \in Nat /\ k <= Len(Y)
    BY <1>2
  <1>4. Piece(s, X, S, p, k)
    BY PieceIs
  <1>5. Piece(t, Y, S, p, k)
    BY <1>2, <1>3, PieceIs
  <1> HIDE DEF s, t
  <1>6. /\ s \in Seq(S) /\ t \in Seq(S) /\ Len(s) = k - p /\ Len(t) = k - p
        /\ \A x \in 1..(k - p) : s[x] = X[p + x] /\ t[x] = Y[p + x]
    BY <1>4, <1>5 DEF Piece
  <1>7. \A x \in 1..(k - p) : p + x \in 1..Len(X)
    BY <1>3
  <1>8. \A x \in 1..Len(t) : t[x] = s[x]
    BY <1>2, <1>6, <1>7
  <1>9. t = s
    BY <1>6, <1>8, SeqEqual
  <1> QED BY <1>9 DEF s, t, Y

LEMMA RestOfConcat ==
    ASSUME NEW S, NEW X \in Seq(S), NEW e \in Seq(S), NEW k \in Nat, k <= Len(X)
    PROVE  SubSeq(X \o e, k + 1, Len(X \o e)) = SubSeq(X, k + 1, Len(X)) \o e
  <1> DEFINE Y == X \o e
             s == SubSeq(X, k + 1, Len(X))
             t == SubSeq(Y, k + 1, Len(Y))
             c == s \o e
  <1>1. Joins(Y, S, X, e)
    BY ConcatJoins
  <1> HIDE DEF Y
  <1>2. /\ Y \in Seq(S) /\ Len(Y) = Len(X) + Len(e)
        /\ \A i \in 1..Len(X) : Y[i] = X[i]
        /\ \A i \in 1..Len(e) : Y[Len(X) + i] = e[i]
    BY <1>1 DEF Joins
  <1>3. Len(X) \in Nat /\ Len(e) \in Nat /\ Len(Y) \in Nat /\ k <= Len(Y)
    BY <1>2
  <1>4. Piece(s, X, S, k, Len(X))
    BY <1>3, PieceIs
  <1>5. Piece(t, Y, S, k, Len(Y))
    BY <1>2, <1>3, PieceIs
  <1> HIDE DEF s, t
  <1>6. /\ s \in Seq(S) /\ t \in Seq(S) /\ Len(s) = Len(X) - k /\ Len(t) = Len(Y) - k
        /\ \A x \in 1..(Len(X) - k) : s[x] = X[k + x]
        /\ \A x \in 1..(Len(Y) - k) : t[x] = Y[k + x]
    BY <1>4, <1>5 DEF Piece
  <1>7. Joins(c, S, s, e)
    BY <1>6, ConcatJoins
  <1> HIDE DEF c
  <1>8. /\ c \in Seq(S) /\ Len(c) = Len(t)
        /\ \A i \in 1..(Len(X) - k) : c[i] = s[i]
        /\ \A i \in 1..Len(e) : c[(Len(X) - k) + i] = e[i]
    BY <1>2, <1>3, <1>6, <1>7 DEF Joins
  <1>9. ASSUME NEW x \in 1..Len(c) PROVE c[x] = t[x]
    <2>1. x \in 1..(Len(Y) - k)
      BY <1>6, <1>8
    <2>2. CASE x <= Len(X) - k
      <3>1. x \in 1..(Len(X) - k) /\ k + x \in 1..Len(X)
        BY <1>3, <2>1, <2>2
      <3> QED BY <1>2, <1>6, <1>8, <2>1, <3>1
    <2>3. CASE ~(x <= Len(X) - k)
      <3> DEFINE y == x - (Len(X) - k)
      <3>1. y \in 1..Len(e) /\ (Len(X) - k) + y = x /\ Len(X) + y = k + x
        BY <1>2, <1>3, <2>1, <2>3
      <3> HIDE DEF y
      <3>2. c[x] = e[y] /\ Y[k + x] = e[y]
        BY <1>2, <1>8, <3>1
      <3> QED BY <1>6, <2>1, <3>2
    <2> QED BY <2>2, <2>3
  <1>10. c = t
    BY <1>6, <1>8, <1>9, SeqEqual
  <1> QED BY <1>10 DEF c, t, s, Y

LEMMA PrefixOfPiece ==
    ASSUME NEW S, NEW X \in Seq(S), NEW p \in Nat, NEW k \in Nat, p <= k, k <= Len(X),
           NEW j \in Nat, p + j <= k
    PROVE  SubSeq(SubSeq(X, p + 1, k), 1, j) = SubSeq(X, p + 1, p + j)
  <1> DEFINE r == SubSeq(X, p + 1, k)
             pj == p + j
             s == SubSeq(r, 0 + 1, j)
             t == SubSeq(X, p + 1, pj)
  <1>1. Len(X) \in Nat /\ pj \in Nat /\ p <= pj /\ pj <= Len(X) /\ j <= k - p /\ pj - p = j
    OBVIOUS
  <1>2. Piece(r, X, S, p, k)
    BY PieceIs
  <1>3. Piece(t, X, S, p, pj)
    <2> HIDE DEF pj
    <2> QED BY <1>1, PieceIs
  <1> HIDE DEF r, pj
  <1>4. r \in Seq(S) /\ Len(r) = k - p /\ \A x \in 1..(k - p) : r[x] = X[p + x]
    BY <1>2 DEF Piece
  <1>5. Piece(s, r, S, 0, j)
    BY <1>1, <1>4, PieceIs
  <1> HIDE DEF s, t
  <1>6. /\ s \in Seq(S) /\ t \in Seq(S) /\ Len(s) = j /\ Len(t) = j
        /\ \A x \in 1..j : s[x] = r[x] /\ t[x] = X[p + x]
    BY <1>1, <1>3, <1>5 DEF Piece
  <1>7. \A x \in 1..j : x \in 1..(k - p)
    BY <1>1
  <1>8. \A x \in 1..Len(s) : s[x] = t[x]
    BY <1>4, <1>6, <1>7
  <1>9. s = t
    BY <1>6, <1>8, SeqEqual
  <1>10. 0 + 1 = 1
    OBVIOUS
  <1> QED BY <1>9, <1>10 DEF s, t, r, pj

(* One element more.                                                       *)
LEMMA PieceGrows ==
    ASSUME NEW S, NEW s \in Seq(S), NEW a \in Nat, NEW m \in Nat, a <= m, m < Len(s)
    PROVE  Append(SubSeq(s, a + 1, m), s[m + 1]) = SubSeq(s, a + 1, m + 1)
  <1>1. a + 1 \in 1..Len(s) /\ m + 1 \in (a + 1)..Len(s) /\ (m + 1) - 1 = m /\ m + 1 \in 1..Len(s)
    OBVIOUS
  <1>2. SubSeq(s, a + 1, m + 1) = SubSeq(s, a + 1, m) \o <<s[m + 1]>>
    BY <1>1, SubSeqRecursiveSecond
  <1>3. Piece(SubSeq(s, a + 1, m), s, S, a, m)
    BY PieceIs
  <1>4. SubSeq(s, a + 1, m) \in Seq(S) /\ s[m + 1] \in S
    BY <1>1, <1>3 DEF Piece
  <1> QED BY <1>2, <1>4, AppendIsConcat
=============================================================================
