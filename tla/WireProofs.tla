----------------------------- MODULE WireProofs -----------------------------
(***************************************************************************)
(* What goes over the wire, for every instance: calls of the HTTP client,  *)
(* the helpers for every Secret and every application id of any length,    *)
(* and a private session for every sequence of frames of its client, of    *)
(* any form and size, cut into chunks anywhere: what it takes, what it     *)
(* writes, and that it answers every prompt in order.                      *)
(***************************************************************************)
EXTENDS MCWire, DataLemmas, FiniteSetTheorems

-----------------------------------------------------------------------------
(* A call of the HTTP client.                                              *)

\* What is known of a call on its way: before the server has taken it
\* nothing is done, afterwards it is done exactly if the reply is 2xx.
OnItsWay ==
    /\ outcome = [how |-> "pending", with |-> Call!Nothing]
    /\ step \in {"calling", "fetching"} => effects = 0
    /\ step \in {"answering", "reading"} =>
          /\ effects = IF reply.ok /\ Call!Writes(op) THEN 1 ELSE 0
          /\ reply.ok => reply.body \in {"value", "empty"}
          /\ step = "reading" /\ reply.ok => op.reads

CallInv ==
    /\ step \in {"calling", "fetching", "answering", "reading", "done"}
    /\ effects \in {0, 1}
    /\ reply.ok \in BOOLEAN /\ op.reads \in BOOLEAN
    /\ step # "done" => OnItsWay
    /\ Call!CallsTruthful

LEMMA CallInit == WireInit => CallInv
  <1> SUFFICES ASSUME WireInit PROVE CallInv
    OBVIOUS
  <1>1. Call!Init
    BY DEF WireInit
  <1>2. op.reads \in BOOLEAN
    <2>1. \E k, m, one : \E reads \in BOOLEAN : op = Call!Operation(m, k, one, reads)
      BY <1>1, Zenon DEF Call!Init, Call!Operations
    <2> QED BY <2>1 DEF Call!Operation
  <1> QED BY <1>1, <1>2 DEF CallInv, OnItsWay, Call!Init, Call!CallsTruthful, Call!Nothing

(* Each step of a call keeps it.                                           *)
LEMMA CallStep ==
    ASSUME CallInv, [WireNext]_vars
    PROVE  CallInv'
  <1> USE DEF CallInv, OnItsWay, Call!CallsTruthful, Call!Nothing
  <1>1. CASE UNCHANGED callVars
    BY <1>1 DEF callVars, Call!Writes
  <1>2. CASE Call!Fetch
    BY <1>2 DEF Call!Fetch, Call!Writes
  <1>3. CASE Call!Serves
    <2>1. /\ step = "fetching" /\ step' = "answering"
          /\ UNCHANGED <<op, outcome>> /\ effects = 0
          /\ outcome = [how |-> "pending", with |-> Call!Nothing]
      BY <1>3 DEF Call!Serves
    <2>2. CASE /\ reply' \in {[ok |-> TRUE, body |-> b] : b \in {"value", "empty"}}
               /\ effects' = IF Call!Writes(op) THEN effects + 1 ELSE effects
      <3>1. reply'.ok = TRUE /\ reply'.body \in {"value", "empty"}
        BY <2>2
      <3>2. effects' = IF Call!Writes(op) THEN 1 ELSE 0
        BY <2>1, <2>2
      <3>3. op' = op /\ step' = "answering" /\ outcome' = outcome
        BY <2>1
      <3>4. CASE op.method # "GET"
        <4>1. effects' = 1
          BY <3>2, <3>4 DEF Call!Writes
        <4>2. Call!CallsTruthful'
          BY <3>3, <4>1, <2>1
        <4>3. OnItsWay'
          BY <2>1, <3>1, <3>3, <3>4, <4>1 DEF Call!Writes
        <4> QED BY <3>1, <3>3, <4>1, <4>2, <4>3
      <3>5. CASE op.method = "GET"
        BY <2>1, <3>1, <3>2, <3>3, <3>5 DEF Call!Writes
      <3> QED BY <3>4, <3>5
    <2>3. CASE /\ reply' \in {[ok |-> FALSE, body |-> b] : b \in {"error", "empty"}}
               /\ UNCHANGED effects
      <3>1. reply'.ok = FALSE
        BY <2>3
      <3> QED BY <2>1, <2>3, <3>1 DEF Call!Writes
    <2> QED BY <1>3, <2>2, <2>3 DEF Call!Serves
  <1>4. CASE Call!FetchRejects
    BY <1>4 DEF Call!FetchRejects, Call!Settle, Call!Writes
  <1>5. CASE Call!HeadersCome
    BY <1>5 DEF Call!HeadersCome, Call!Settle, Call!Refused, Call!Writes
  <1>6. ASSUME NEW cut \in BOOLEAN, Call!BodyEnds(cut) PROVE CallInv'
    <2>1. /\ step = "reading" /\ step' = "done" /\ UNCHANGED <<op, effects, reply>>
          /\ \/ ~reply.ok /\ outcome' = [how |-> "rejected", with |-> "status"]
             \/ /\ reply.ok /\ reply.body # "empty"
                /\ outcome' = [how |-> "resolved", with |-> reply.body]
             \/ reply.ok /\ outcome' = [how |-> "rejected", with |-> "no JSON"]
      BY <1>6 DEF Call!BodyEnds, Call!Settle, Call!Refused
    <2>2. /\ effects = IF reply.ok /\ Call!Writes(op) THEN 1 ELSE 0
          /\ reply.ok => op.reads /\ reply.body \in {"value", "empty"}
      BY <2>1
    <2>3. op.reads \in BOOLEAN /\ effects \in {0, 1} /\ step' = "done"
      BY <2>1
    <2> HIDE DEF CallInv, OnItsWay, Call!CallsTruthful
    <2>7. op' = op /\ effects' = effects /\ reply' = reply
      BY <2>1
    <2>8. Call!CallsTruthful' => CallInv'
      <3>1. reply.ok \in BOOLEAN
        BY DEF CallInv
      <3> QED BY <2>3, <2>7, <3>1 DEF CallInv
    <2>4. CASE ~reply.ok
      <3>1. outcome' = [how |-> "rejected", with |-> "status"]
        BY <2>1, <2>4
      <3>2. effects' = 0
        BY <2>2, <2>4, <2>7
      <3> QED BY <2>8, <3>1, <3>2 DEF Call!CallsTruthful
    <2>5. CASE outcome' = [how |-> "rejected", with |-> "no JSON"]
      <3>1. outcome'.how # "resolved" /\ outcome'.with # "status"
        BY <2>5
      <3>2. effects' <= 1
        BY <2>3, <2>7
      <3> QED BY <2>8, <3>1, <3>2 DEF Call!CallsTruthful
    <2>6. CASE /\ reply.ok /\ reply.body # "empty"
               /\ outcome' = [how |-> "resolved", with |-> reply.body]
      <3>1. reply.body = "value" /\ op.reads
        BY <2>2, <2>6
      <3>2. outcome'.with = "value" /\ reply'.ok /\ op'.reads
        BY <2>6, <2>7, <3>1
      <3>3. effects' <= 1 /\ (op'.method # "GET" => effects' = 1)
        BY <2>2, <2>3, <2>6, <2>7 DEF Call!Writes
      <3>4. outcome'.with # "status"
        BY <3>2
      <3> QED BY <2>8, <3>2, <3>3, <3>4 DEF Call!CallsTruthful, Call!Writes
    <2> QED BY <2>1, <2>4, <2>5, <2>6, Zenon
  <1>7. WireNext => UNCHANGED callVars \/ Call!Next
    BY DEF WireNext
  <1>8. UNCHANGED vars => UNCHANGED callVars
    BY DEF vars
  <1> HIDE DEF CallInv
  <1> QED BY <1>1, <1>2, <1>3, <1>4, <1>5, <1>6, <1>7, <1>8 DEF Call!Next

(* A promise of the HTTP client that resolved tells the truth, one that is *)
(* rejected with a status too, and no call is made twice: for every        *)
(* operation, whatever is lost of the request, the response or its body.   *)
THEOREM CallsCorrect == WireSpec => []CallsTruthful
  <1>1. CallInv /\ [WireNext]_vars => CallInv'
    BY CallStep
  <1>2. CallInv => CallsTruthful
    BY DEF CallInv, CallsTruthful
  <1> QED BY CallInit, <1>1, <1>2, PTL DEF WireSpec

-----------------------------------------------------------------------------
(* The application id.                                                     *)

\* The values of the prefixes of id.
Values(n, id) ==
    /\ n \in [0..Len(id) -> Nat] /\ n[0] = 0
    /\ \A i \in 1..Len(id) : n[i] = n[i - 1] * Digits + id[i]

LEMMA BigIntIs ==
    ASSUME HelpersAssumption, NEW id \in Seq(Nat)
    PROVE  \E n : Values(n, id) /\ Helpers!BigInt(id) = n[Len(id)]
  <1> DEFINE N == Len(id)
             G == [i \in 1..N |-> [x \in Nat |-> x * Digits + id[i]]]
             P(n) == n = [i \in 0..N |-> IF i = 0 THEN 0 ELSE n[i - 1] * Digits + id[i]]
             c == CHOOSE n : P(n)
  <1>1. N \in Nat /\ Digits \in Nat /\ \A i \in 1..N : id[i] \in Nat
    BY DEF HelpersAssumption
  <1>2. G \in [1..N -> [Nat -> Nat]]
    <2> SUFFICES ASSUME NEW i \in 1..N, NEW x \in Nat PROVE x * Digits + id[i] \in Nat
      OBVIOUS
    <2>1. id[i] \in Nat /\ x * Digits \in Nat
      BY <1>1
    <2> QED BY <2>1
  <1>3. PICK g : Recursion(g, N, Nat, 0, G)
    <2> HIDE DEF N, G
    <2> QED BY <1>1, <1>2, RecursiveValues
  <1> HIDE DEF N
  <1>4. /\ g \in [0..N -> Nat] /\ g[0] = 0
        /\ \A i \in 1..N : g[i] = g[i - 1] * Digits + id[i]
    <2>1. g \in [0..N -> Nat] /\ g[0] = 0 /\ \A i \in 1..N : g[i] = G[i][g[i - 1]]
      BY <1>3 DEF Recursion
    <2>2. ASSUME NEW i \in 1..N PROVE g[i - 1] \in Nat
      BY <1>1, <2>1
    <2> QED BY <2>1, <2>2
  <1>5. P(g)
    <2> DEFINE e(i) == IF i = 0 THEN 0 ELSE g[i - 1] * Digits + id[i]
    <2>1. \A i \in 0..N : g[i] = e(i)
      BY <1>1, <1>4
    <2> HIDE DEF e
    <2>2. g = [i \in 0..N |-> e(i)]
      BY <1>4, <2>1
    <2> QED BY <2>2 DEF e
  <1>6. P(c)
    <2> HIDE DEF P
    <2> QED BY <1>5
  <1>7. c \in [0..N -> Nat]
    <2> HIDE DEF c
    <2>1. c[0] = g[0]
      BY <1>1, <1>4, <1>6
    <2>2. ASSUME NEW i \in 0..(N - 1), c[i] = g[i] PROVE c[i + 1] = g[i + 1]
      <3>1. i + 1 \in 1..N /\ i + 1 \in 0..N /\ i + 1 # 0 /\ (i + 1) - 1 = i
        BY <1>1
      <3>2. c[i + 1] = c[i] * Digits + id[i + 1]
        BY <1>6, <3>1
      <3>3. g[i + 1] = g[i] * Digits + id[i + 1]
        BY <1>4, <3>1
      <3> QED BY <2>2, <3>1, <3>2, <3>3
    <2>3. \A i \in 0..N : c[i] = g[i]
      <3>1. GoOnAlike(c, g, N)
        BY <2>1, <2>2, Zenon DEF GoOnAlike
      <3> QED BY <1>1, <3>1, AlikeByInduction DEF Alike
    <2>4. \A i \in 0..N : c[i] \in Nat
      BY <1>4, <2>3
    <2> QED BY <1>6, <2>4
  <1>8. c[0] = 0 /\ \A i \in 1..N : c[i] = c[i - 1] * Digits + id[i]
    <2> HIDE DEF c
    <2> QED BY <1>1, <1>6
  <1>9. Helpers!BigInt(id) = c[N]
    BY Zenon DEF Helpers!BigInt, N
  <1> HIDE DEF c
  <1> QED BY <1>7, <1>8, <1>9 DEF Values, N

\* What ParseUint came to after i of the digits with the values n.
ReadSoFar(n, id, i) ==
    IF (\A j \in 1..i : Helpers!IsDigit(id[j])) /\ n[i] <= UINT64_MAX
    THEN Helpers!Got(n[i]) ELSE Helpers!Failed

(* A digit is read exactly if there is an id with that value: the first    *)
(* comparison sees the product overflow and the second one the sum.        *)
LEMMA ReadDigit ==
    ASSUME HelpersAssumption, NEW n \in Nat, n <= UINT64_MAX, NEW d \in 0..(Digits - 1)
    PROVE  Helpers!Read(Helpers!Got(n), d) =
              IF n * Digits + d <= UINT64_MAX
              THEN Helpers!Got(n * Digits + d) ELSE Helpers!Failed
  <1> DEFINE D == Digits
             M == UINT64_MAX
             W == M + 1
             p == n * Digits
  <1>1. /\ D \in Nat /\ D > 0 /\ M \in Nat /\ D <= M /\ d \in Nat /\ d < D
        /\ W \in Nat /\ W > 0 /\ p \in Nat
    BY DEF HelpersAssumption
  <1>2. n < Helpers!Cutoff <=> p <= M
    <2>1. n <= M \div D <=> n * D <= M
      BY <1>1, QuotientBound
    <2>2. M \div D \in Nat
      BY <1>1, Division
    <2>3. Helpers!Cutoff = M \div D + 1
      BY DEF Helpers!Cutoff
    <2> HIDE DEF M, D
    <2>4. n < M \div D + 1 <=> n <= M \div D
      BY <2>2
    <2> QED BY <2>1, <2>3, <2>4 DEF D
  <1>3. ASSUME p <= M PROVE (p + d) % W >= p % W <=> p + d <= M
    <2> HIDE DEF p, M, D, W
    <2>1. W = M + 1
      BY DEF W
    <2>2. p % W = p
      <3>1. p = 0 * W + p /\ p < W
        BY <1>1, <1>3, <2>1
      <3> QED BY <1>1, <3>1, DivisionIs
    <2>3. CASE p + d <= M
      <3>1. p + d = 0 * W + (p + d) /\ p + d < W /\ p + d \in Nat
        BY <1>1, <2>1, <2>3
      <3>2. (p + d) % W = p + d
        BY <1>1, <3>1, DivisionIs
      <3> QED BY <1>1, <2>2, <2>3, <3>2
    <2>4. CASE p + d > M
      <3> DEFINE r == (p + d) - W
      <3>1. r \in Nat /\ r < W /\ p + d = 1 * W + r /\ p + d \in Nat /\ r < p
        BY <1>1, <1>3, <2>1, <2>4
      <3> HIDE DEF r
      <3>2. (p + d) % W = r
        BY <1>1, <3>1, DivisionIs
      <3> QED BY <1>1, <2>2, <2>4, <3>1, <3>2
    <2> QED BY <1>1, <2>3, <2>4
  <1>4. ASSUME p + d <= M PROVE (p + d) % W = p + d
    <2> HIDE DEF p, M, D, W
    <2>1. p + d = 0 * W + (p + d) /\ p + d < W /\ p + d \in Nat
      BY <1>1, <1>4 DEF W
    <2> QED BY <1>1, <2>1, DivisionIs
  <1> DEFINE ok == /\ n < Helpers!Cutoff
                   /\ (p + d) % W >= p % W
  <1>5. ok <=> p + d <= M
    <2> HIDE DEF p, M, D, W
    <2>1. p + d <= M => p <= M
      BY <1>1
    <2> QED BY <1>2, <1>3, <2>1
  <1>6. Helpers!Read(Helpers!Got(n), d) =
           IF ok THEN Helpers!Got((p + d) % W) ELSE Helpers!Failed
    <2>1. Helpers!IsDigit(d) /\ Helpers!Got(n).ok /\ Helpers!Got(n).value = n
      BY DEF Helpers!IsDigit, Helpers!Got
    <2>2. Helpers!W = W
      BY DEF Helpers!W
    <2> QED BY <2>1, <2>2, Zenon DEF Helpers!Read
  <1> HIDE DEF ok
  <1>7. CASE ok
    BY <1>4, <1>5, <1>6, <1>7
  <1>8. CASE ~ok
    BY <1>5, <1>6, <1>8
  <1> QED BY <1>7, <1>8

LEMMA ReadNext ==
    ASSUME HelpersAssumption, NEW id \in Seq(Nat), NEW n, Values(n, id),
           NEW i \in 1..Len(id)
    PROVE  ReadSoFar(n, id, i) = Helpers!Read(ReadSoFar(n, id, i - 1), id[i])
  <1> DEFINE N == Len(id)
             M == UINT64_MAX
             D == Digits
             digits(k) == \A j \in 1..k : Helpers!IsDigit(id[j])
  <1>1. /\ N \in Nat /\ D \in Nat /\ D > 0 /\ M \in Nat /\ id[i] \in Nat
        /\ i - 1 \in 0..N /\ n[i - 1] \in Nat /\ n[i] \in Nat
        /\ n[i] = n[i - 1] * D + id[i]
    <2>1. N \in Nat /\ D \in Nat /\ D > 0 /\ M \in Nat /\ id[i] \in Nat
      BY DEF HelpersAssumption
    <2>2. i - 1 \in 0..N /\ i \in 0..N
      BY <2>1
    <2> QED BY <2>1, <2>2 DEF Values
  <1>2. digits(i) <=> digits(i - 1) /\ Helpers!IsDigit(id[i])
    <2>1. \A j : j \in 1..i <=> j \in 1..(i - 1) \/ j = i
      OBVIOUS
    <2> QED BY <2>1, Zenon
  <1>3. n[i] <= M => n[i - 1] <= M
    <2> DEFINE a == n[i - 1]
               e == id[i]
    <2>1. a \in Nat /\ e \in Nat /\ n[i] = a * D + e
      BY <1>1
    <2> HIDE DEF a, e
    <2>2. 1 * a <= D * a /\ 1 * a \in Nat /\ D * a \in Nat
      BY <1>1, <2>1, ProductMonotonic
    <2>3. 1 * a = a /\ D * a = a * D
      BY <1>1, <2>1
    <2>4. a <= a * D + e
      BY <2>1, <2>2, <2>3
    <2>5. a <= n[i]
      BY <2>1, <2>4
    <2>6. n[i] <= M => a <= M
      BY <1>1, <2>1, <2>5
    <2> QED BY <2>6 DEF a
  <1>4. CASE digits(i - 1) /\ n[i - 1] <= M
    <2>1. ReadSoFar(n, id, i - 1) = Helpers!Got(n[i - 1])
      BY <1>4, Zenon DEF ReadSoFar
    <2>2. CASE Helpers!IsDigit(id[i])
      <3>1. id[i] \in 0..(Digits - 1)
        BY <2>2 DEF Helpers!IsDigit
      <3>2. Helpers!Read(Helpers!Got(n[i - 1]), id[i]) =
               IF n[i] <= M THEN Helpers!Got(n[i]) ELSE Helpers!Failed
        BY <1>1, <1>4, <3>1, ReadDigit
      <3>3. ReadSoFar(n, id, i) = IF n[i] <= M THEN Helpers!Got(n[i]) ELSE Helpers!Failed
        BY <1>2, <1>4, <2>2, Zenon DEF ReadSoFar
      <3> QED BY <2>1, <3>2, <3>3
    <2>3. CASE ~Helpers!IsDigit(id[i])
      <3>1. ReadSoFar(n, id, i) = Helpers!Failed
        BY <1>2, <2>3, Zenon DEF ReadSoFar
      <3>2. Helpers!Read(Helpers!Got(n[i - 1]), id[i]) = Helpers!Failed
        BY <2>3, Zenon DEF Helpers!Read
      <3> QED BY <2>1, <3>1, <3>2
    <2> QED BY <2>2, <2>3
  <1>5. CASE ~(digits(i - 1) /\ n[i - 1] <= M)
    <2>1. ReadSoFar(n, id, i - 1) = Helpers!Failed
      BY <1>5, Zenon DEF ReadSoFar
    <2>2. ReadSoFar(n, id, i) = Helpers!Failed
      BY <1>2, <1>3, <1>5, Zenon DEF ReadSoFar
    <2>3. ~Helpers!Failed.ok
      BY DEF Helpers!Failed
    <2>4. Helpers!Read(Helpers!Failed, id[i]) = Helpers!Failed
      BY <2>3, Zenon DEF Helpers!Read
    <2> QED BY <2>1, <2>2, <2>4
  <1> QED BY <1>4, <1>5

LEMMA ParseUintIs ==
    ASSUME HelpersAssumption, NEW id \in Seq(Nat), id # <<>>, NEW n, Values(n, id)
    PROVE  Helpers!ParseUint(id) = ReadSoFar(n, id, Len(id))
  <1> DEFINE N == Len(id)
             P(f) == f = [i \in 0..N |->
                             IF i = 0 THEN Helpers!Got(0) ELSE Helpers!Read(f[i - 1], id[i])]
             c == CHOOSE f : P(f)
             g == [i \in 0..N |-> ReadSoFar(n, id, i)]
  <1>1. N \in Nat
    OBVIOUS
  <1>2. ReadSoFar(n, id, 0) = Helpers!Got(0)
    <2>1. n[0] = 0 /\ 0 <= UINT64_MAX /\ 1..0 = {}
      BY DEF Values, HelpersAssumption
    <2> QED BY <2>1 DEF ReadSoFar
  <1>3. \A i \in 1..N : ReadSoFar(n, id, i) = Helpers!Read(ReadSoFar(n, id, i - 1), id[i])
    BY ReadNext
  <1> HIDE DEF N
  <1>4. P(g)
    <2> DEFINE e(i) == IF i = 0 THEN Helpers!Got(0) ELSE Helpers!Read(g[i - 1], id[i])
    <2>1. ASSUME NEW i \in 0..N PROVE ReadSoFar(n, id, i) = e(i)
      <3>1. CASE i = 0
        BY <1>2, <3>1
      <3>2. CASE i # 0
        <4>1. i \in 1..N /\ i - 1 \in 0..N
          BY <1>1, <3>2
        <4>2. g[i - 1] = ReadSoFar(n, id, i - 1)
          BY <4>1
        <4> HIDE DEF g
        <4> QED BY <1>3, <3>2, <4>1, <4>2
      <3> QED BY <3>1, <3>2
    <2> HIDE DEF e
    <2>2. g = [i \in 0..N |-> e(i)]
      BY <2>1
    <2> HIDE DEF g
    <2> QED BY <2>2 DEF e
  <1>5. P(c)
    <2> HIDE DEF P
    <2> QED BY <1>4
  <1>6. c[N] = ReadSoFar(n, id, N)
    <2> HIDE DEF c
    <2>1. c[0] = g[0]
      BY <1>1, <1>2, <1>5
    <2>2. ASSUME NEW i \in 0..(N - 1), c[i] = g[i] PROVE c[i + 1] = g[i + 1]
      <3>1. i + 1 \in 1..N /\ i + 1 \in 0..N /\ i \in 0..N /\ i + 1 # 0 /\ (i + 1) - 1 = i
        BY <1>1
      <3>2. c[i + 1] = Helpers!Read(c[i], id[i + 1])
        BY <1>5, <3>1
      <3>3. g[i + 1] = Helpers!Read(g[i], id[i + 1])
        BY <1>3, <3>1
      <3> QED BY <2>2, <3>1, <3>2, <3>3
    <2>3. \A i \in 0..N : c[i] = g[i]
      <3> HIDE DEF g
      <3>1. GoOnAlike(c, g, N)
        BY <2>1, <2>2, Zenon DEF GoOnAlike
      <3> QED BY <1>1, <3>1, AlikeByInduction DEF Alike
    <2>4. N \in 0..N
      BY <1>1
    <2> QED BY <2>3, <2>4
  <1>7. Helpers!ParseUint(id) = c[N]
    BY Zenon DEF Helpers!ParseUint, N
  <1> HIDE DEF c
  <1> QED BY <1>6, <1>7 DEF N

(* An id passes the check of the client exactly if the harness can read    *)
(* it, whatever its letters and however long it is.                        *)
LEMMA IdsAgree ==
    ASSUME HelpersAssumption, NEW id \in Seq(Nat)
    PROVE  Helpers!invalidApplicationId(id) <=> ~Helpers!ParseUint(id).ok
  <1>1. CASE id = <<>>
    <2>1. ~Helpers!ParseUint(id).ok
      BY <1>1 DEF Helpers!ParseUint, Helpers!Failed
    <2> QED BY <1>1, <2>1 DEF Helpers!invalidApplicationId, Helpers!Numeric
  <1>2. CASE id # <<>>
    <2>1. PICK n : Values(n, id) /\ Helpers!BigInt(id) = n[Len(id)]
      BY BigIntIs
    <2>2. Helpers!ParseUint(id) = ReadSoFar(n, id, Len(id))
      BY <1>2, <2>1, ParseUintIs
    <2> DEFINE N == Len(id)
               digits == \A j \in 1..N : Helpers!IsDigit(id[j])
               fits == n[N] <= UINT64_MAX
    <2>3. n[N] \in Nat /\ UINT64_MAX \in Nat /\ DOMAIN id = 1..N
      BY <2>1 DEF Values, HelpersAssumption
    <2>4. Helpers!Got(n[N]).ok /\ ~Helpers!Failed.ok
      BY DEF Helpers!Got, Helpers!Failed
    <2>5. Helpers!ParseUint(id).ok <=> digits /\ fits
      <3>1. CASE digits /\ fits
        BY <2>2, <2>4, <3>1, Zenon DEF ReadSoFar
      <3>2. CASE ~(digits /\ fits)
        BY <2>2, <2>4, <3>2, Zenon DEF ReadSoFar
      <3> QED BY <3>1, <3>2
    <2>6. Helpers!Numeric(id) <=> digits
      BY <1>2, <2>3, Zenon DEF Helpers!Numeric
    <2>7. Helpers!Overflows(id) <=> ~fits
      BY <2>1, <2>3 DEF Helpers!Overflows
    <2> QED BY <2>5, <2>6, <2>7 DEF Helpers!invalidApplicationId
  <1> QED BY <1>1, <1>2

-----------------------------------------------------------------------------
(* The key of a Secret.                                                    *)

(* Of the keys tried the first that is there is the one meant, and the     *)
(* sole one if none of them is.                                            *)
LEMMA KeysAgree ==
    ASSUME HelpersAssumption, NEW data \in Secrets
    PROVE  Helpers!resolveSecretKeyFromData(data) =
              IF \E k \in Helpers!Meant(data) : data[k] # "not base64"
              THEN Helpers!Got(data[CHOOSE k \in Helpers!Meant(data) : TRUE])
              ELSE Helpers!Failed
  <1> DEFINE D == DOMAIN data
             K == Helpers!SECRET_DATA_KEYS
             p == Helpers!Present(data)
             m == Helpers!Meant(data)
             result == Helpers!resolveSecretKeyFromData(data)
  <1> DEFINE Goal == result =
              IF \E k \in m : data[k] # "not base64"
              THEN Helpers!Got(data[CHOOSE k \in m : TRUE]) ELSE Helpers!Failed
  <1> SUFFICES Goal
    OBVIOUS
  <1>1. /\ K[1] = "secret-key" /\ K[2] = "ACP_SECRET_KEY" /\ DOMAIN K = {1, 2}
        /\ p = {i \in {1, 2} : K[i] \in D}
    BY DEF Helpers!SECRET_DATA_KEYS, Helpers!Present
  <1>2. IsFiniteSet(D) /\ Helpers!Cardinality(D) = Cardinality(D)
    <2>1. IsFiniteSet(D)
      BY DEF HelpersAssumption
    <2> HIDE DEF D
    <2> QED BY <2>1, Zenon DEF Helpers!Cardinality, Cardinality
  <1>3. ASSUME NEW k, m = {k}, result = Helpers!decodeBase64Utf8(data[k]) PROVE Goal
    <2>1. (CHOOSE x \in m : TRUE) = k
      BY <1>3
    <2> HIDE DEF m, result
    <2>2. CASE data[k] = "not base64"
      BY <1>3, <2>2 DEF Helpers!decodeBase64Utf8
    <2>3. CASE data[k] # "not base64"
      BY <1>3, <2>1, <2>3 DEF Helpers!decodeBase64Utf8
    <2> QED BY <2>2, <2>3
  <1>4. CASE "secret-key" \in D
    <2>1. 1 \in p /\ p \subseteq {1, 2}
      BY <1>1, <1>4
    <2>2. Helpers!First(p) = 1
      <3> HIDE DEF p
      <3>1. \A i \in p : (\A j \in p : i <= j) <=> i = 1
        BY <2>1
      <3>2. \E i \in p : \A j \in p : i <= j
        BY <2>1
      <3> QED BY <3>1, <3>2 DEF Helpers!First
    <2>3. result = Helpers!decodeBase64Utf8(data["secret-key"])
      BY <1>1, <2>1, <2>2 DEF Helpers!resolveSecretKeyFromData
    <2>4. m = {"secret-key"}
      BY <1>4 DEF Helpers!Meant
    <2> QED BY <1>3, <2>3, <2>4
  <1>5. CASE "secret-key" \notin D /\ "ACP_SECRET_KEY" \in D
    <2>1. p = {2}
      BY <1>1, <1>5
    <2>2. Helpers!First(p) = 2
      <3> HIDE DEF p
      <3> QED BY <2>1 DEF Helpers!First
    <2>3. result = Helpers!decodeBase64Utf8(data["ACP_SECRET_KEY"])
      BY <1>1, <2>1, <2>2 DEF Helpers!resolveSecretKeyFromData
    <2>4. m = {"ACP_SECRET_KEY"}
      BY <1>5 DEF Helpers!Meant
    <2> QED BY <1>3, <2>3, <2>4
  <1>6. CASE "secret-key" \notin D /\ "ACP_SECRET_KEY" \notin D
    <2>1. p = {}
      BY <1>1, <1>6
    <2>2. m = {k \in D : D = {k}}
      BY <1>6 DEF Helpers!Meant
    <2>3. Cardinality(D) = 1 <=> \E k : D = {k}
      BY <1>2, FS_Singleton
    <2>4. ASSUME NEW k, D = {k} PROVE Goal
      <3>1. m = {k} /\ (CHOOSE x \in D : TRUE) = k
        BY <2>2, <2>4
      <3>2. result = Helpers!decodeBase64Utf8(data[k])
        <4>1. Cardinality(D) = 1
          <5> HIDE DEF D
          <5> QED BY <2>3, <2>4, Zenon
        <4> QED BY <1>2, <2>1, <3>1, <4>1, Zenon DEF Helpers!resolveSecretKeyFromData
      <3> QED BY <1>3, <3>1, <3>2
    <2>5. CASE ~\E k : D = {k}
      <3>1. m = {}
        BY <2>2, <2>5
      <3>2. result = Helpers!Failed
        <4>1. Cardinality(D) # 1
          <5> HIDE DEF D
          <5> QED BY <2>3, <2>5, Zenon
        <4> QED BY <1>2, <2>1, <4>1, Zenon DEF Helpers!resolveSecretKeyFromData
      <3> HIDE DEF m, result
      <3> QED BY <3>1, <3>2
    <2> HIDE DEF Goal
    <2> QED BY <2>4, <2>5
  <1> HIDE DEF Goal
  <1> QED BY <1>4, <1>5, <1>6

\* What a helper is given never changes.
HelpersInv == Helpers!Init

(* The key found in a Secret is the one meant, and an application id       *)
(* passes the check exactly if the harness can read it: for every Secret   *)
(* and every id, of any length.                                            *)
THEOREM HelpersCorrect == WireSpec => []HelpersAgree
  <1>1. WireInit => HelpersInv
    BY DEF WireInit, HelpersInv
  <1>2. HelpersInv /\ [WireNext]_vars => HelpersInv'
    BY DEF HelpersInv, Helpers!Init, WireNext, vars
  <1>3. HelpersInv => HelpersAgree
    <2> SUFFICES ASSUME Helpers!Init PROVE HelpersAgree
      BY DEF HelpersInv
    <2>1. HelpersAssumption
      BY HelpersAssumption
    <2>2. ASSUME input.of = "key" PROVE input.value \in Secrets
      BY <2>2 DEF Helpers!Init
    <2>3. ASSUME input.of = "id" PROVE input.value \in Seq(Nat)
      BY <2>1, <2>3 DEF Helpers!Init, HelpersAssumption
    <2> QED BY <2>1, <2>2, <2>3, KeysAgree, IdsAgree, Zenon DEF HelpersAgree, Helpers!HelpersAgree
  <1> QED BY <1>1, <1>2, <1>3, PTL DEF WireSpec

-----------------------------------------------------------------------------
(* What the bytes of a frame are read as.                                  *)

LEMMA Constants ==
    /\ Base \in Nat /\ Base > 1 /\ Half \in Nat /\ Half > 2 /\ Wide \in Nat /\ Wide > 2
  BY FramesAssumption DEF FramesAssumption

(* A length is read as the number v[Wide] if each v[i] is the number that  *)
(* its first i bytes are.                                                  *)
LEMMA NumberIs ==
    ASSUME NEW b, NEW v, v[0] = 0,
           \A i \in 1..Wide : v[i] = v[i - 1] * Base + b[2 + i]
    PROVE  Number(b)[Wide] = v[Wide]
  <1> DEFINE P(f) == f = [i \in 0..Wide |-> IF i = 0 THEN 0 ELSE f[i - 1] * Base + b[2 + i]]
             c == CHOOSE f : P(f)
             g == [i \in 0..Wide |-> v[i]]
  <1>1. Wide \in Nat
    BY Constants
  <1>2. P(g)
    <2> DEFINE e(i) == IF i = 0 THEN 0 ELSE g[i - 1] * Base + b[2 + i]
    <2>1. ASSUME NEW i \in 0..Wide PROVE v[i] = e(i)
      <3>1. CASE i = 0
        BY <3>1
      <3>2. CASE i # 0
        <4>1. i \in 1..Wide /\ i - 1 \in 0..Wide
          BY <1>1, <3>2
        <4>2. g[i - 1] = v[i - 1]
          BY <4>1
        <4> HIDE DEF g
        <4> QED BY <3>2, <4>1, <4>2
      <3> QED BY <3>1, <3>2
    <2> HIDE DEF e
    <2>2. g = [i \in 0..Wide |-> e(i)]
      BY <2>1
    <2> HIDE DEF g
    <2> QED BY <2>2 DEF e
  <1>3. P(c)
    <2> HIDE DEF P
    <2> QED BY <1>2
  <1>4. GoOnAlike(c, v, Wide)
    <2> HIDE DEF c
    <2>1. c[0] = v[0]
      BY <1>1, <1>3
    <2>2. ASSUME NEW i \in 0..(Wide - 1), c[i] = v[i] PROVE c[i + 1] = v[i + 1]
      <3>1. i + 1 \in 1..Wide /\ i + 1 \in 0..Wide /\ i + 1 # 0 /\ (i + 1) - 1 = i
        BY <1>1
      <3>2. c[i + 1] = c[i] * Base + b[2 + (i + 1)]
        BY <1>3, <3>1
      <3>3. v[i + 1] = v[i] * Base + b[2 + (i + 1)]
        BY <3>1
      <3> QED BY <2>2, <3>2, <3>3
    <2> QED BY <2>1, <2>2, Zenon DEF GoOnAlike
  <1>5. c[Wide] = v[Wide]
    <2> HIDE DEF c
    <2> QED BY <1>1, <1>4, AlikeByInduction DEF Alike
  <1>6. Number(b)[Wide] = c[Wide]
    BY Zenon DEF Number
  <1> QED BY <1>5, <1>6

\* The number that each prefix of a length is.
Numbers(v, b) ==
    /\ v \in [0..Wide -> Nat] /\ v[0] = 0
    /\ \A i \in 1..Wide : v[i] = v[i - 1] * Base + b[2 + i]

LEMMA NumbersExist ==
    ASSUME NEW b \in Seq(Nat), Len(b) >= 2 + Wide
    PROVE  \E v : Numbers(v, b)
  <1> DEFINE G == [i \in 1..Wide |-> [x \in Nat |-> x * Base + b[2 + i]]]
  <1>1. Wide \in Nat /\ Base \in Nat
    BY Constants
  <1>2. \A i \in 1..Wide : b[2 + i] \in Nat
    BY <1>1
  <1>3. G \in [1..Wide -> [Nat -> Nat]]
    <2> SUFFICES ASSUME NEW i \in 1..Wide, NEW x \in Nat PROVE x * Base + b[2 + i] \in Nat
      OBVIOUS
    <2>1. b[2 + i] \in Nat /\ x * Base \in Nat
      BY <1>1, <1>2
    <2> QED BY <2>1
  <1>4. PICK v : Recursion(v, Wide, Nat, 0, G)
    <2> HIDE DEF G
    <2> QED BY <1>1, <1>3, RecursiveValues
  <1>5. v \in [0..Wide -> Nat] /\ v[0] = 0 /\ \A i \in 1..Wide : v[i] = G[i][v[i - 1]]
    BY <1>4 DEF Recursion
  <1>6. ASSUME NEW i \in 1..Wide PROVE v[i - 1] \in Nat
    <2>1. i - 1 \in 0..Wide
      BY <1>1
    <2> QED BY <1>5, <2>1, Zenon
  <1>7. \A i \in 1..Wide : v[i] = v[i - 1] * Base + b[2 + i]
    BY <1>5, <1>6
  <1> QED BY <1>5, <1>7 DEF Numbers

\* u[j] is n without its last j bytes.
Uppers(u, n) ==
    /\ u \in [0..Wide -> Nat] /\ u[0] = n
    /\ \A j \in 1..Wide : u[j] = u[j - 1] \div Base

LEMMA UpperIs ==
    ASSUME NEW n \in Nat
    PROVE  Uppers(Upper(n), n)
  <1> DEFINE P(f) == f = [j \in 0..Wide |-> IF j = 0 THEN n ELSE f[j - 1] \div Base]
             c == CHOOSE f : P(f)
             G == [j \in 1..Wide |-> [x \in Nat |-> x \div Base]]
  <1>1. Wide \in Nat /\ Base \in Nat /\ Base > 0
    BY Constants
  <1>2. G \in [1..Wide -> [Nat -> Nat]]
    BY <1>1, Division
  <1>3. PICK g : Recursion(g, Wide, Nat, n, G)
    <2> HIDE DEF G
    <2> QED BY <1>1, <1>2, RecursiveValues
  <1>4. /\ g \in [0..Wide -> Nat] /\ g[0] = n
        /\ \A j \in 1..Wide : g[j] = g[j - 1] \div Base
    <2>1. g \in [0..Wide -> Nat] /\ g[0] = n /\ \A j \in 1..Wide : g[j] = G[j][g[j - 1]]
      BY <1>3 DEF Recursion
    <2>2. ASSUME NEW j \in 1..Wide PROVE g[j - 1] \in Nat
      <3>1. j - 1 \in 0..Wide
        BY <1>1
      <3> HIDE DEF G
      <3> QED BY <2>1, <3>1, Zenon
    <2> QED BY <2>1, <2>2
  <1>5. P(g)
    <2> DEFINE e(j) == IF j = 0 THEN n ELSE g[j - 1] \div Base
    <2>1. \A j \in 0..Wide : g[j] = e(j)
      BY <1>1, <1>4
    <2> HIDE DEF e
    <2>2. g = [j \in 0..Wide |-> e(j)]
      BY <1>4, <2>1
    <2> QED BY <2>2 DEF e
  <1>6. P(c)
    <2> HIDE DEF P
    <2> QED BY <1>5
  <1>7. GoOnAlike(c, g, Wide)
    <2> HIDE DEF c
    <2>1. c[0] = g[0]
      BY <1>1, <1>4, <1>6
    <2>2. ASSUME NEW i \in 0..(Wide - 1), c[i] = g[i] PROVE c[i + 1] = g[i + 1]
      <3>1. i + 1 \in 1..Wide /\ i + 1 \in 0..Wide /\ i + 1 # 0 /\ (i + 1) - 1 = i
        BY <1>1
      <3>2. c[i + 1] = c[i] \div Base
        BY <1>6, <3>1
      <3>3. g[i + 1] = g[i] \div Base
        BY <1>4, <3>1
      <3> QED BY <2>2, <3>2, <3>3
    <2> QED BY <2>1, <2>2, Zenon DEF GoOnAlike
  <1>8. c = g
    <2>1. Alike(c, g, Wide)
      <3> HIDE DEF c
      <3> QED BY <1>1, <1>7, AlikeByInduction
    <2>2. c = [j \in 0..Wide |-> c[j]]
      <3> HIDE DEF c
      <3> QED BY <1>6
    <2>3. g = [j \in 0..Wide |-> g[j]]
      BY <1>4
    <2> HIDE DEF c
    <2> QED BY <2>1, <2>2, <2>3 DEF Alike
  <1>9. Upper(n) = c
    BY Zenon DEF Upper
  <1> QED BY <1>4, <1>8, <1>9 DEF Uppers

-----------------------------------------------------------------------------
(* Frames: what a reader makes of the bytes of a writer. The argument has  *)
(* three levels: Codes, a frame written alone is read back, and not before *)
(* it is all there; Framed, a row of frames comes apart at their ends; and *)
(* SessionInv, the buffer holds what came after the last end that has been *)
(* reached.                                                                *)

(* What is read of the length.                                             *)
LEMMA LengthRead ==
    ASSUME NEW b \in Seq(Nat), Len(b) >= 2, Len(b) >= 2 + LengthBytes(b)
    PROVE  /\ LengthBytes(b) \in {0, 2, Wide} /\ LengthBytes(b) \in Nat
           /\ Start(b) \in {2 + LengthBytes(b), 6 + LengthBytes(b)}
           /\ IsMasked(b) => Start(b) = 6 + LengthBytes(b)
           /\ PayloadLength(b) \in Nat
  <1>1. LengthBytes(b) \in {0, 2, Wide} /\ LengthBytes(b) \in Nat
    BY Constants DEF LengthBytes
  <1>2. /\ Start(b) \in {2 + LengthBytes(b), 6 + LengthBytes(b)}
        /\ IsMasked(b) => Start(b) = 6 + LengthBytes(b)
    BY <1>1 DEF Start
  <1>3. PayloadLength(b) \in Nat
    <2>1. CASE LengthBytes(b) = 0
      <3>1. b[2] \in Nat
        OBVIOUS
      <3>2. b[2] % Half \in Nat
        BY <3>1, Constants, Division
      <3> QED BY <2>1, <3>2 DEF PayloadLength, Marker
    <2>2. CASE LengthBytes(b) = 2
      <3>1. b[3] \in Nat /\ b[4] \in Nat
        BY <2>2
      <3>2. b[3] * Base \in Nat
        BY <3>1, Constants, ProductMonotonic
      <3> QED BY <2>2, <3>1, <3>2 DEF PayloadLength
    <2>3. CASE LengthBytes(b) = Wide
      <3>1. PICK v : Numbers(v, b)
        BY <2>3, NumbersExist
      <3>2. v[Wide] \in Nat
        BY <3>1, Constants DEF Numbers
      <3>3. Number(b)[Wide] = v[Wide]
        BY <3>1, NumberIs DEF Numbers
      <3>4. PayloadLength(b) = Number(b)[Wide]
        BY <2>3, Constants DEF PayloadLength
      <3> QED BY <3>2, <3>3, <3>4
    <2> QED BY <1>1, <2>1, <2>2, <2>3
  <1> QED BY <1>1, <1>2, <1>3

\* r starts as e does, as far as there is something of both.
AsFar(r, e) == \A i \in 1..Len(e) : i <= Len(r) => r[i] = e[i]

\* The bytes e are those of the frame f: it is there when they all are,
\* whatever follows them.
Codes(e, f) ==
    /\ e \in Seq(Nat) /\ Len(e) >= 2
    /\ \A r \in Seq(Nat) :
          AsFar(r, e) =>
             /\ Complete(r) <=> Len(e) <= Len(r)
             /\ Complete(r) =>
                   First(r) = f /\ Rest(r) = SubSeq(r, Len(e) + 1, Len(r))

LEMMA SameLength ==
    ASSUME NEW e \in Seq(Nat), Complete(e), NEW r \in Seq(Nat), AsFar(r, e),
           Len(r) >= 2, Len(r) >= 2 + LengthBytes(e)
    PROVE  /\ IsMasked(r) = IsMasked(e) /\ LengthBytes(r) = LengthBytes(e)
           /\ Start(r) = Start(e) /\ PayloadLength(r) = PayloadLength(e)
  <1>1. Len(e) \in Nat /\ Len(r) \in Nat /\ Len(e) >= 2 /\ Len(e) >= 2 + LengthBytes(e)
    BY DEF Complete
  <1>2. r[2] = e[2]
    <2>1. 2 \in 1..Len(e) /\ 2 <= Len(r)
      BY <1>1
    <2> QED BY <2>1, Zenon DEF AsFar
  <1>3. IsMasked(r) = IsMasked(e) /\ LengthBytes(r) = LengthBytes(e) /\ Marker(r) = Marker(e)
    BY <1>2 DEF IsMasked, LengthBytes, Marker
  <1>4. Start(r) = Start(e)
    BY <1>3 DEF Start
  <1>5. PayloadLength(r) = PayloadLength(e)
    <2>1. LengthBytes(e) \in {0, 2, Wide}
      BY <1>1, LengthRead
    <2>2. CASE LengthBytes(e) = 0
      BY <1>3, <2>2 DEF PayloadLength
    <2>3. CASE LengthBytes(e) = 2
      <3>1. /\ 3 \in 1..Len(e) /\ 3 <= Len(r)
            /\ 4 \in 1..Len(e) /\ 4 <= Len(r)
        BY <1>1, <2>3
      <3>2. r[3] = e[3] /\ r[4] = e[4]
        BY <3>1, Zenon DEF AsFar
      <3> QED BY <1>3, <2>3, <3>2 DEF PayloadLength
    <2>4. CASE LengthBytes(e) = Wide
      <3>1. PICK v : Numbers(v, e)
        BY <1>1, <2>4, NumbersExist
      <3>2. ASSUME NEW i \in 1..Wide PROVE r[2 + i] = e[2 + i]
        <4>1. 2 + i \in 1..Len(e) /\ 2 + i <= Len(r)
          BY <1>1, <2>4, Constants
        <4> QED BY <4>1, Zenon DEF AsFar
      <3>3. v[0] = 0 /\ \A i \in 1..Wide : v[i] = v[i - 1] * Base + e[2 + i]
        BY <3>1 DEF Numbers
      <3>4. \A i \in 1..Wide : v[i] = v[i - 1] * Base + r[2 + i]
        BY <3>2, <3>3
      <3>5. Number(e)[Wide] = v[Wide]
        BY <3>3, NumberIs
      <3>6. Number(r)[Wide] = v[Wide]
        BY <3>3, <3>4, NumberIs
      <3>7. PayloadLength(e) = Number(e)[Wide] /\ PayloadLength(r) = Number(r)[Wide]
        BY <1>3, <2>4, Constants DEF PayloadLength
      <3> QED BY <3>5, <3>6, <3>7
    <2> QED BY <2>1, <2>2, <2>3, <2>4
  <1> QED BY <1>3, <1>4, <1>5

LEMMA CodesIf ==
    ASSUME NEW e \in Seq(Nat), Complete(e), Start(e) + PayloadLength(e) = Len(e),
           NEW f, First(e) = f
    PROVE  Codes(e, f)
  <1>1. Len(e) \in Nat /\ Len(e) >= 2 /\ Len(e) >= 2 + LengthBytes(e)
    BY DEF Complete
  <1>2. /\ LengthBytes(e) \in Nat /\ PayloadLength(e) \in Nat /\ Start(e) \in Nat
        /\ Start(e) >= 2 + LengthBytes(e)
        /\ IsMasked(e) => Start(e) >= 6
    <2>1. /\ LengthBytes(e) \in Nat /\ PayloadLength(e) \in Nat
          /\ Start(e) \in {2 + LengthBytes(e), 6 + LengthBytes(e)}
          /\ IsMasked(e) => Start(e) = 6 + LengthBytes(e)
      BY <1>1, LengthRead
    <2> QED BY <2>1
  <1> SUFFICES ASSUME NEW r \in Seq(Nat), AsFar(r, e)
               PROVE  /\ Complete(r) <=> Len(e) <= Len(r)
                      /\ Complete(r) =>
                            First(r) = f /\ Rest(r) = SubSeq(r, Len(e) + 1, Len(r))
    BY <1>1 DEF Codes
  <1>3. Len(r) \in Nat
    OBVIOUS
  <1>4. CASE Len(r) < 2
    BY <1>1, <1>3, <1>4 DEF Complete
  <1>5. CASE Len(r) >= 2 /\ Len(r) < 2 + LengthBytes(e)
    <2>1. r[2] = e[2]
      BY <1>1, <1>5 DEF AsFar
    <2>2. LengthBytes(r) = LengthBytes(e)
      BY <2>1 DEF LengthBytes, Marker
    <2> QED BY <1>1, <1>2, <1>3, <1>5, <2>2 DEF Complete
  <1>6. CASE Len(r) >= 2 /\ Len(r) >= 2 + LengthBytes(e)
    <2>1. /\ IsMasked(r) = IsMasked(e) /\ LengthBytes(r) = LengthBytes(e)
          /\ Start(r) = Start(e) /\ PayloadLength(r) = PayloadLength(e)
      BY <1>6, SameLength
    <2>2. Complete(r) <=> Len(e) <= Len(r)
      BY <1>3, <1>6, <2>1 DEF Complete
    <2>3. Rest(r) = SubSeq(r, Len(e) + 1, Len(r))
      BY <2>1 DEF Rest
    <2>4. ASSUME Len(e) <= Len(r) PROVE First(r) = First(e)
      <3>1. \A i \in 1..Len(e) : r[i] = e[i]
        BY <1>3, <2>4 DEF AsFar
      <3> DEFINE s == Start(e)
                 n == PayloadLength(e)
      <3>2. ASSUME NEW i \in 1..n PROVE r[s + i] = e[s + i]
        <4>1. s \in Nat /\ n \in Nat /\ s + n = Len(e) /\ Len(e) \in Nat
          BY <1>1, <1>2
        <4> HIDE DEF s, n
        <4>2. s + i \in 1..Len(e)
          BY <4>1
        <4> QED BY <3>1, <4>2
      <3>3. ASSUME IsMasked(e), NEW i \in 1..n
            PROVE  r[s - 3 + ((i - 1) % 4)] = e[s - 3 + ((i - 1) % 4)]
        <4> DEFINE j == (i - 1) % 4
        <4>1. j \in 0..3
          OBVIOUS
        <4> HIDE DEF j
        <4>2. s \in Nat /\ s >= 6 /\ s <= Len(e)
          BY <1>1, <1>2, <3>3
        <4> HIDE DEF s
        <4>3. s - 3 + j \in 1..Len(e)
          BY <1>1, <4>1, <4>2
        <4>4. r[s - 3 + j] = e[s - 3 + j]
          BY <3>1, <4>3
        <4> QED BY <4>4 DEF j
      <3>4. r[1] = e[1]
        BY <1>1, <3>1
      <3> DEFINE a(i) == IF IsMasked(e) THEN Xor(r[s + i], r[s - 3 + ((i - 1) % 4)]) ELSE r[s + i]
                 b(i) == IF IsMasked(e) THEN Xor(e[s + i], e[s - 3 + ((i - 1) % 4)]) ELSE e[s + i]
      <3>5. \A i \in 1..n : a(i) = b(i)
        <4> SUFFICES ASSUME NEW i \in 1..n PROVE a(i) = b(i)
          OBVIOUS
        <4>1. r[s + i] = e[s + i]
          BY <3>2
        <4>2. IsMasked(e) => r[s - 3 + ((i - 1) % 4)] = e[s - 3 + ((i - 1) % 4)]
          BY <3>3
        <4> HIDE DEF s, n
        <4> QED BY <4>1, <4>2, Zenon
      <3>6. First(r) = [op |-> r[1] % 16, payload |-> [i \in 1..n |-> a(i)]]
        BY <2>1, Zenon DEF First
      <3>7. First(e) = [op |-> e[1] % 16, payload |-> [i \in 1..n |-> b(i)]]
        BY Zenon DEF First
      <3> HIDE DEF a, b, n
      <3>8. [i \in 1..n |-> a(i)] = [i \in 1..n |-> b(i)]
        BY <3>5
      <3> QED BY <3>4, <3>6, <3>7, <3>8
    <2> QED BY <2>2, <2>3, <2>4
  <1>7. \/ Len(r) < 2
        \/ Len(r) >= 2 /\ Len(r) < 2 + LengthBytes(e)
        \/ Len(r) >= 2 /\ Len(r) >= 2 + LengthBytes(e)
    <2> DEFINE n == Len(r)
               l == 2 + LengthBytes(e)
    <2>1. n \in Nat /\ l \in Nat
      BY <1>2, <1>3
    <2> HIDE DEF n, l
    <2>2. n < 2 \/ (n >= 2 /\ n < l) \/ (n >= 2 /\ n >= l)
      BY <2>1
    <2> QED BY <2>2 DEF n, l
  <1> QED BY <1>4, <1>5, <1>6, <1>7, Zenon

\* The bytes of e from the second on say n, and whether there is a mask: h
\* is 0 or Half. l bytes more than the second are needed for it.
Says(e, h, n, l) ==
    \/ l = 0 /\ n < Half - 2 /\ e[2] = h + n
    \/ /\ l = 2 /\ n < Base * Base
       /\ e[2] = h + (Half - 2) /\ e[3] = (n \div Base) % Base /\ e[4] = n % Base
    \/ /\ l = Wide /\ Upper(n)[Wide] = 0
       /\ e[2] = h + (Half - 1) /\ \A i \in 1..Wide : e[2 + i] = Upper(n)[Wide - i] % Base

LEMMA SecondByte ==
    ASSUME NEW e, NEW h \in {0, Half}, NEW s \in Nat, s < Half, e[2] = h + s
    PROVE  Marker(e) = s /\ (IsMasked(e) <=> h = Half)
  <1>1. Half \in Nat /\ Half > 2
    BY Constants
  <1>2. CASE h = 0
    <2>1. s = 0 * Half + s /\ 0 * Half \in Nat
      BY <1>1
    <2>2. s % Half = s
      BY <1>1, <2>1, DivisionIs
    <2> QED BY <1>1, <1>2, <2>2 DEF Marker, IsMasked
  <1>3. CASE h = Half
    <2>1. Half + s = 1 * Half + s /\ Half + s \in Nat
      BY <1>1
    <2>2. (Half + s) % Half = s
      BY <1>1, <2>1, DivisionIs
    <2> QED BY <1>1, <1>3, <2>2 DEF Marker, IsMasked
  <1> QED BY <1>2, <1>3

(* The length written is the length read.                                  *)
LEMMA SaidIsRead ==
    ASSUME NEW e, NEW h \in {0, Half}, NEW n \in Nat, NEW l, Says(e, h, n, l)
    PROVE  /\ LengthBytes(e) = l /\ PayloadLength(e) = n
           /\ IsMasked(e) <=> h = Half
  <1>1. Base \in Nat /\ Base > 1 /\ Half \in Nat /\ Half > 2 /\ Wide \in Nat /\ Wide > 2
    BY Constants
  <1>2. CASE l = 0 /\ n < Half - 2 /\ e[2] = h + n
    <2>1. n < Half
      BY <1>1, <1>2
    <2>2. Marker(e) = n /\ (IsMasked(e) <=> h = Half)
      BY <1>2, <2>1, SecondByte
    <2>3. LengthBytes(e) = 0
      BY <1>1, <1>2, <2>2 DEF LengthBytes
    <2> QED BY <1>2, <2>2, <2>3 DEF PayloadLength
  <1>3. CASE /\ l = 2 /\ n < Base * Base
             /\ e[2] = h + (Half - 2) /\ e[3] = (n \div Base) % Base /\ e[4] = n % Base
    <2>1. Half - 2 \in Nat /\ Half - 2 < Half
      BY <1>1
    <2>2. Marker(e) = Half - 2 /\ (IsMasked(e) <=> h = Half)
      BY <1>3, <2>1, SecondByte
    <2>3. LengthBytes(e) = 2
      BY <2>2 DEF LengthBytes
    <2> DEFINE q == n \div Base
               r == n % Base
    <2>4. q \in Nat /\ r \in Nat /\ n = q * Base + r
      BY <1>1, Division
    <2>5. q < Base
      <3>1. Base <= q <=> Base * Base <= n
        BY <1>1, QuotientBound
      <3>2. Base * Base \in Nat
        BY <1>1, ProductMonotonic
      <3> HIDE DEF q
      <3> QED BY <1>1, <1>3, <2>4, <3>1, <3>2
    <2>6. q % Base = q
      <3> HIDE DEF q
      <3>1. q = 0 * Base + q
        BY <1>1, <2>4
      <3> QED BY <1>1, <2>4, <2>5, <3>1, DivisionIs
    <2>7. e[3] = q /\ e[4] = r
      BY <1>3, <2>6
    <2> HIDE DEF q, r
    <2> QED BY <1>3, <2>2, <2>3, <2>4, <2>7 DEF PayloadLength
  <1>4. CASE /\ l = Wide /\ Upper(n)[Wide] = 0
             /\ e[2] = h + (Half - 1) /\ \A i \in 1..Wide : e[2 + i] = Upper(n)[Wide - i] % Base
    <2>1. Half - 1 \in Nat /\ Half - 1 < Half /\ Half - 1 # Half - 2
      BY <1>1
    <2>2. Marker(e) = Half - 1 /\ (IsMasked(e) <=> h = Half)
      BY <1>4, <2>1, SecondByte
    <2>3. LengthBytes(e) = Wide
      BY <2>1, <2>2 DEF LengthBytes
    <2> DEFINE u == Upper(n)
               v == [i \in 0..Wide |-> u[Wide - i]]
    <2>4. u \in [0..Wide -> Nat] /\ u[0] = n /\ \A j \in 1..Wide : u[j] = u[j - 1] \div Base
      BY UpperIs DEF Uppers
    <2>5. v[0] = 0
      <3> HIDE DEF u
      <3>1. v[0] = u[Wide - 0] /\ Wide - 0 = Wide
        BY <1>1
      <3> QED BY <1>4, <3>1 DEF u
    <2>6. ASSUME NEW i \in 1..Wide PROVE v[i] = v[i - 1] * Base + e[2 + i]
      <3> HIDE DEF u
      <3> DEFINE j == Wide - i
      <3>1. j \in 0..Wide /\ j + 1 \in 1..Wide /\ Wide - (i - 1) = j + 1 /\ (j + 1) - 1 = j
        BY <1>1
      <3>2. v[i] = u[j] /\ v[i - 1] = u[j + 1]
        BY <1>1, <3>1
      <3> HIDE DEF v
      <3>3. e[2 + i] = u[j] % Base
        BY <1>4 DEF u
      <3> HIDE DEF j
      <3>4. u[j + 1] = u[j] \div Base
        BY <2>4, <3>1
      <3> DEFINE x == u[j]
      <3>5. x \in Nat
        BY <2>4, <3>1
      <3> HIDE DEF x
      <3>6. x = (x \div Base) * Base + (x % Base)
        BY <1>1, <3>5, Division
      <3> QED BY <3>2, <3>3, <3>4, <3>6 DEF x
    <2>7. v[Wide] = n
      <3> HIDE DEF u
      <3>1. v[Wide] = u[Wide - Wide] /\ Wide - Wide = 0
        BY <1>1
      <3> QED BY <2>4, <3>1
    <2>8. Number(e)[Wide] = n
      <3> HIDE DEF v
      <3> QED BY <2>5, <2>6, <2>7, NumberIs
    <2>9. PayloadLength(e) = Number(e)[Wide]
      BY <1>1, <2>3 DEF PayloadLength
    <2> QED BY <1>4, <2>2, <2>3, <2>8, <2>9
  <1> QED BY <1>2, <1>3, <1>4 DEF Says

\* e is the byte x, then l, m and p.
InARow(e, x, l, m, p) ==
    /\ e \in Seq(Nat) /\ Len(e) = 1 + Len(l) + Len(m) + Len(p)
    /\ e[1] = x
    /\ \A i \in 1..Len(l) : e[1 + i] = l[i]
    /\ \A i \in 1..Len(m) : e[1 + Len(l) + i] = m[i]
    /\ \A i \in 1..Len(p) : e[1 + Len(l) + Len(m) + i] = p[i]

LEMMA BytesInARow ==
    ASSUME NEW x \in Nat, NEW l \in Seq(Nat), NEW m \in Seq(Nat), NEW p \in Seq(Nat)
    PROVE  InARow(((<<x>> \o l) \o m) \o p, x, l, m, p)
  <1> DEFINE a == <<x>> \o l
             b == a \o m
             e == b \o p
  <1>1. <<x>> \in Seq(Nat) /\ Len(<<x>>) = 1 /\ <<x>>[1] = x
    OBVIOUS
  <1>2. Len(l) \in Nat /\ Len(m) \in Nat /\ Len(p) \in Nat
    OBVIOUS
  <1>3. /\ a \in Seq(Nat) /\ Len(a) = 1 + Len(l) /\ a[1] = x
        /\ \A i \in 1..Len(l) : a[1 + i] = l[i]
    <2> DEFINE o == <<x>>
    <2>1. o \in Seq(Nat) /\ Len(o) = 1 /\ o[1] = x /\ a = o \o l
      BY <1>1
    <2> HIDE DEF a, o
    <2>2. Joins(a, Nat, o, l)
      BY <2>1, ConcatJoins
    <2> QED BY <2>1, <2>2 DEF Joins
  <1>4. /\ b \in Seq(Nat) /\ Len(b) = 1 + Len(l) + Len(m) /\ b[1] = x
        /\ \A i \in 1..Len(l) : b[1 + i] = l[i]
        /\ \A i \in 1..Len(m) : b[1 + Len(l) + i] = m[i]
    <2> HIDE DEF a
    <2>1. Joins(b, Nat, a, m)
      BY <1>3, ConcatJoins
    <2> HIDE DEF b
    <2>2. \A i \in 1..Len(l) : 1 + i \in 1..Len(a)
      BY <1>2, <1>3
    <2>3. 1 \in 1..Len(a)
      BY <1>2, <1>3
    <2> QED BY <1>3, <2>1, <2>2, <2>3 DEF Joins
  <1>5. Joins(e, Nat, b, p)
    <2> HIDE DEF b
    <2> QED BY <1>4, ConcatJoins
  <1> HIDE DEF a, b, e
  <1>6. 1 \in 1..Len(b)
    BY <1>2, <1>4
  <1>7. \A i \in 1..Len(l) : 1 + i \in 1..Len(b)
    BY <1>2, <1>4
  <1>8. \A i \in 1..Len(m) : 1 + Len(l) + i \in 1..Len(b)
    BY <1>2, <1>4
  <1>9. InARow(e, x, l, m, p)
    BY <1>2, <1>4, <1>5, <1>6, <1>7, <1>8 DEF Joins, InARow
  <1> QED BY <1>9 DEF a, b, e

LEMMA LengthOfIs ==
    ASSUME NEW n \in Nat
    PROVE  /\ LengthOfTwo(n) \in Seq(Nat) /\ Len(LengthOfTwo(n)) = 2
           /\ LengthOfTwo(n)[1] = (n \div Base) % Base /\ LengthOfTwo(n)[2] = n % Base
           /\ LengthOf(n) \in Seq(Nat) /\ Len(LengthOf(n)) = Wide
           /\ \A i \in 1..Wide : LengthOf(n)[i] = Upper(n)[Wide - i] % Base
  <1>1. Base \in Nat /\ Base > 0 /\ Wide \in Nat
    BY Constants
  <1>2. (n \div Base) \in Nat /\ n % Base \in Nat
    BY <1>1, Division
  <1>3. (n \div Base) % Base \in Nat
    <2> DEFINE q == n \div Base
    <2>1. q \in Nat
      BY <1>2
    <2> HIDE DEF q
    <2>2. q % Base \in Nat
      BY <1>1, <2>1, Division
    <2> QED BY <2>2 DEF q
  <1>4. /\ LengthOfTwo(n) \in Seq(Nat) /\ Len(LengthOfTwo(n)) = 2
        /\ LengthOfTwo(n)[1] = (n \div Base) % Base /\ LengthOfTwo(n)[2] = n % Base
    BY <1>2, <1>3 DEF LengthOfTwo
  <1> DEFINE u == Upper(n)
  <1>5. u \in [0..Wide -> Nat]
    BY UpperIs DEF Uppers
  <1>6. ASSUME NEW i \in 1..Wide PROVE u[Wide - i] % Base \in Nat
    <2> HIDE DEF u
    <2>1. Wide - i \in 0..Wide
      BY <1>1
    <2> DEFINE x == u[Wide - i]
    <2>2. x \in Nat
      BY <1>5, <2>1
    <2> HIDE DEF x
    <2>3. x % Base \in Nat
      BY <1>1, <2>2, Division
    <2> QED BY <2>3 DEF x
  <1> DEFINE s == [i \in 1..Wide |-> u[Wide - i] % Base]
  <1>7. LengthOf(n) = s
    BY DEF LengthOf
  <1>8. s \in Seq(Nat) /\ Len(s) = Wide /\ \A i \in 1..Wide : s[i] = u[Wide - i] % Base
    <2> HIDE DEF u
    <2> QED BY <1>1, <1>6
  <1> QED BY <1>4, <1>7, <1>8, Zenon

\* The bytes that the two writers give a length.
Written2(h, n) == <<h + (Half - 2)>> \o LengthOfTwo(n)

WrittenLong(h, n) == <<h + (Half - 1)>> \o LengthOf(n)

\* l is what they write for n, and e has it from the second byte on.
Writes(e, h, n, l) ==
    /\ l \in Seq(Nat) /\ \A i \in 1..Len(l) : e[1 + i] = l[i]
    /\ \/ n < Half - 2 /\ l = <<h + n>>
       \/ n < Base * Base /\ l = Written2(h, n)
       \/ Upper(n)[Wide] = 0 /\ l = WrittenLong(h, n)

LEMMA WrittenSays ==
    ASSUME NEW e, NEW h \in {0, Half}, NEW n \in Nat, NEW l, Writes(e, h, n, l)
    PROVE  /\ LengthBytes(e) = Len(l) - 1 /\ PayloadLength(e) = n
           /\ IsMasked(e) <=> h = Half
  <1>1. Half \in Nat /\ Half > 2 /\ h \in Nat /\ Wide \in Nat
    BY Constants
  <1>5. l \in Seq(Nat) /\ \A i \in 1..Len(l) : e[1 + i] = l[i]
    BY DEF Writes
  <1>2. CASE n < Half - 2 /\ l = <<h + n>>
    <2>1. Len(l) = 1 /\ l[1] = h + n
      BY <1>2
    <2>2. e[1 + 1] = l[1] /\ 1 + 1 = 2
      BY <1>5, <2>1
    <2>3. Says(e, h, n, 0)
      BY <1>2, <2>1, <2>2 DEF Says
    <2> QED BY <2>1, <2>3, SaidIsRead
  <1>3. CASE n < Base * Base /\ l = Written2(h, n)
    <2> DEFINE t == LengthOfTwo(n)
    <2>1. t \in Seq(Nat) /\ Len(t) = 2 /\ t[1] = (n \div Base) % Base /\ t[2] = n % Base
      BY LengthOfIs
    <2>2. l = <<h + (Half - 2)>> \o t
      BY <1>3 DEF Written2
    <2> DEFINE o == <<h + (Half - 2)>>
    <2> HIDE DEF t
    <2>6. o \in Seq(Nat) /\ Len(o) = 1 /\ o[1] = h + (Half - 2) /\ l = o \o t
      BY <1>1, <2>2
    <2> HIDE DEF o
    <2>3. Len(l) = 3 /\ l[1] = h + (Half - 2) /\ l[2] = t[1] /\ l[3] = t[2]
      <3>1. Joins(l, Nat, o, t)
        BY <2>1, <2>6, ConcatJoins
      <3>2. 1 \in 1..Len(o) /\ 1 \in 1..Len(t) /\ 2 \in 1..Len(t) /\ Len(o) + Len(t) = 3
        BY <2>1, <2>6
      <3>3. l[1] = o[1] /\ l[Len(o) + 1] = t[1] /\ l[Len(o) + 2] = t[2] /\ Len(l) = 3
        BY <3>1, <3>2, Zenon DEF Joins
      <3>4. Len(o) + 1 = 2 /\ Len(o) + 2 = 3
        BY <2>6
      <3> QED BY <2>6, <3>3, <3>4
    <2>4. e[2] = l[1] /\ e[3] = l[2] /\ e[4] = l[3]
      <3>1. e[1 + 1] = l[1] /\ e[1 + 2] = l[2] /\ e[1 + 3] = l[3]
        BY <1>5, <2>3
      <3> QED BY <3>1
    <2>5. Says(e, h, n, 2)
      BY <1>3, <2>1, <2>3, <2>4, Zenon DEF Says
    <2> QED BY <2>3, <2>5, SaidIsRead
  <1>4. CASE Upper(n)[Wide] = 0 /\ l = WrittenLong(h, n)
    <2> DEFINE t == LengthOf(n)
    <2>1. t \in Seq(Nat) /\ Len(t) = Wide /\ \A i \in 1..Wide : t[i] = Upper(n)[Wide - i] % Base
      BY LengthOfIs
    <2>2. l = <<h + (Half - 1)>> \o t
      BY <1>4 DEF WrittenLong
    <2> HIDE DEF t
    <2> DEFINE o == <<h + (Half - 1)>>
    <2> HIDE DEF t
    <2>3. o \in Seq(Nat) /\ Len(o) = 1 /\ o[1] = h + (Half - 1) /\ l = o \o t
      BY <1>1, <2>2
    <2> HIDE DEF o
    <2>8. Len(l) = 1 + Wide /\ l[1] = h + (Half - 1) /\ \A i \in 1..Wide : l[1 + i] = t[i]
      <3>1. Joins(l, Nat, o, t)
        BY <2>1, <2>3, ConcatJoins
      <3>2. Len(l) = Len(o) + Len(t) /\ l[1] = o[1]
        BY <2>3, <3>1 DEF Joins
      <3>3. \A i \in 1..Wide : l[Len(o) + i] = t[i]
        BY <2>1, <3>1, Zenon DEF Joins
      <3> QED BY <2>1, <2>3, <3>2, <3>3
    <2>4. e[2] = l[1]
      <3>1. e[1 + 1] = l[1]
        BY <1>1, <1>5, <2>8
      <3> QED BY <3>1
    <2>5. ASSUME NEW i \in 1..Wide PROVE e[2 + i] = t[i]
      <3>1. 1 + i \in 1..Len(l) /\ 1 + (1 + i) = 2 + i
        BY <1>1, <2>8
      <3>2. e[1 + (1 + i)] = l[1 + i]
        BY <1>5, <3>1
      <3> QED BY <2>8, <3>1, <3>2
    <2>6. Says(e, h, n, Wide)
      <3>1. \A i \in 1..Wide : e[2 + i] = Upper(n)[Wide - i] % Base
        BY <2>1, <2>5
      <3> QED BY <1>4, <2>4, <2>8, <3>1, Zenon DEF Says
    <2>7. Len(l) - 1 = Wide
      BY <1>1, <2>8
    <2> QED BY <2>6, <2>7, SaidIsRead
  <1> QED BY <1>2, <1>3, <1>4 DEF Writes

LEMMA OpByte == ASSUME NEW c \in 0..15 PROVE FIN + c \in Nat /\ (FIN + c) % 16 = c
  BY DEF FIN

(* A frame of the client comes out as it went in: unmasked, of any length. *)
LEMMA MaskedCodes ==
    ASSUME NEW f \in ClientFrames
    PROVE  Codes(Masked(f.op, f.payload, Mask), f)
  <1> DEFINE n == Len(f.payload)
             p == f.payload
             body == [i \in 1..n |-> Xor(p[i], Mask[1 + ((i - 1) % 4)])]
             l == IF n < Half - 2 THEN <<Half + n>>
                  ELSE IF n < Base * Base THEN <<Half + Half - 2>> \o LengthOfTwo(n)
                  ELSE <<Half + Half - 1>> \o LengthOf(n)
             e == Masked(f.op, f.payload, Mask)
  <1>1. /\ f = [op |-> f.op, payload |-> p]
        /\ f.op \in 0..15 /\ p \in Seq(Nat)
        /\ Upper(n)[Wide] = 0
        /\ \A i \in DOMAIN p, j \in DOMAIN Mask :
              /\ Xor(p[i], Mask[j]) \in Nat
              /\ Xor(Xor(p[i], Mask[j]), Mask[j]) = p[i]
    BY SessionAssumption, Zenon DEF SessionAssumption
  <1>2. Mask \in Seq(Nat) /\ Len(Mask) = 4
    BY SessionAssumption, Zenon DEF SessionAssumption
  <1>3. Half \in Nat /\ Half > 2 /\ Half \in {0, Half}
    BY Constants
  <1>4. n \in Nat
    BY <1>1
  <1>5. e = ((<<FIN + f.op>> \o l) \o Mask) \o body
    BY Zenon DEF Masked
  <1>6. ASSUME NEW i \in 1..n
        PROVE  /\ 1 + ((i - 1) % 4) \in DOMAIN Mask /\ (i - 1) % 4 \in 0..3 /\ i \in DOMAIN p
    <2>1. i - 1 \in Nat
      BY <1>4
    <2>2. (i - 1) % 4 \in 0..3
      BY <2>1
    <2> QED BY <1>1, <1>2, <2>2
  <1>7. body \in Seq(Nat) /\ Len(body) = n /\ \A i \in 1..n : body[i] = Xor(p[i], Mask[1 + ((i - 1) % 4)])
    <2>1. \A i \in 1..n : Xor(p[i], Mask[1 + ((i - 1) % 4)]) \in Nat
      BY <1>1, <1>6
    <2> HIDE DEF p, n
    <2> QED BY <1>4, <2>1
  <1>8. /\ l \in Seq(Nat) /\ Len(l) \in Nat /\ Len(l) >= 1
        /\ \/ n < Half - 2 /\ l = <<Half + n>>
           \/ n < Base * Base /\ l = Written2(Half, n)
           \/ Upper(n)[Wide] = 0 /\ l = WrittenLong(Half, n)
    <2> HIDE DEF p, n
    <2>1. Half + Half - 2 = Half + (Half - 2) /\ Half + Half - 1 = Half + (Half - 1)
      BY <1>3
    <2>2. \/ n < Half - 2 /\ l = <<Half + n>>
          \/ n < Base * Base /\ l = Written2(Half, n)
          \/ l = WrittenLong(Half, n)
      BY <2>1 DEF Written2, WrittenLong
    <2>3. LengthOfTwo(n) \in Seq(Nat) /\ LengthOf(n) \in Seq(Nat)
      BY <1>4, LengthOfIs
    <2> HIDE DEF l
    <2>4. l \in Seq(Nat) /\ Len(l) \in Nat /\ Len(l) >= 1
      <3>1. ASSUME NEW x \in Nat, NEW t \in Seq(Nat)
            PROVE  <<x>> \o t \in Seq(Nat) /\ Len(<<x>> \o t) \in Nat /\ Len(<<x>> \o t) >= 1
        OBVIOUS
      <3>2. Half + n \in Nat /\ Half + (Half - 2) \in Nat /\ Half + (Half - 1) \in Nat
        BY <1>3, <1>4
      <3>3. CASE l = <<Half + n>>
        BY <3>2, <3>3
      <3>4. CASE l = Written2(Half, n)
        BY <2>3, <3>1, <3>2, <3>4 DEF Written2
      <3>5. CASE l = WrittenLong(Half, n)
        BY <2>3, <3>1, <3>2, <3>5 DEF WrittenLong
      <3> QED BY <2>2, <3>3, <3>4, <3>5
    <2> QED BY <1>1, <2>2, <2>4 DEF n
  <1> HIDE DEF l, body, n
  <1>9. /\ e \in Seq(Nat) /\ Len(e) = 1 + Len(l) + 4 + n
        /\ e[1] = FIN + f.op
        /\ \A i \in 1..Len(l) : e[1 + i] = l[i]
        /\ \A i \in 1..4 : e[1 + Len(l) + i] = Mask[i]
        /\ \A i \in 1..n : e[1 + Len(l) + 4 + i] = body[i]
    <2>1. FIN + f.op \in Nat
      BY <1>1, OpByte
    <2> HIDE DEF e
    <2>2. InARow(e, FIN + f.op, l, Mask, body)
      BY <1>2, <1>5, <1>7, <1>8, <2>1, BytesInARow
    <2> QED BY <1>2, <1>7, <2>2 DEF InARow
  <1> HIDE DEF e
  <1>10. /\ LengthBytes(e) = Len(l) - 1 /\ PayloadLength(e) = n /\ IsMasked(e)
    <2>1. Writes(e, Half, n, l)
      BY <1>8, <1>9, Zenon DEF Writes
    <2> QED BY <1>3, <1>4, <2>1, WrittenSays
  <1>11. Start(e) = 1 + Len(l) + 4
    BY <1>8, <1>10 DEF Start
  <1>12. Complete(e) /\ Start(e) + PayloadLength(e) = Len(e)
    BY <1>4, <1>8, <1>9, <1>10, <1>11 DEF Complete
  <1>13. First(e) = f
    <2> DEFINE a(i) == IF IsMasked(e) THEN Xor(e[Start(e) + i], e[Start(e) - 3 + ((i - 1) % 4)])
                       ELSE e[Start(e) + i]
    <2>1. ASSUME NEW i \in 1..n PROVE a(i) = p[i]
      <3> DEFINE j == (i - 1) % 4
      <3>1. j \in 0..3 /\ 1 + j \in DOMAIN Mask /\ i \in DOMAIN p
        BY <1>6
      <3> HIDE DEF j, p
      <3>2. e[Start(e) + i] = body[i]
        BY <1>9, <1>11
      <3>3. body[i] = Xor(p[i], Mask[1 + j])
        BY <1>7 DEF j
      <3>4. Start(e) - 3 + j = 1 + Len(l) + (1 + j) /\ 1 + j \in 1..4
        BY <1>8, <1>11, <3>1
      <3>5. e[Start(e) - 3 + j] = Mask[1 + j]
        BY <1>9, <3>4
      <3>6. Xor(Xor(p[i], Mask[1 + j]), Mask[1 + j]) = p[i]
        BY <1>1, <3>1
      <3>7. a(i) = Xor(e[Start(e) + i], e[Start(e) - 3 + j])
        BY <1>10 DEF j
      <3> QED BY <3>2, <3>3, <3>5, <3>6, <3>7
    <2>2. First(e) = [op |-> e[1] % 16, payload |-> [i \in 1..n |-> a(i)]]
      BY <1>10, Zenon DEF First
    <2> HIDE DEF a
    <2>3. [i \in 1..n |-> a(i)] = p
      <3>1. p = [i \in 1..n |-> p[i]]
        BY <1>1 DEF n
      <3> HIDE DEF p
      <3> QED BY <2>1, <3>1
    <2>4. e[1] % 16 = f.op
      BY <1>1, <1>9, OpByte
    <2> QED BY <1>1, <2>2, <2>3, <2>4
  <1>14. Codes(e, f)
    BY <1>9, <1>12, <1>13, CodesIf
  <1> QED BY <1>14 DEF e

(* So does a frame of the mock, if its payload is below 64 KiB.            *)
LEMMA ServerCodes ==
    ASSUME NEW c \in 0..15, NEW p \in Seq(Nat), Len(p) < Base * Base
    PROVE  Codes(wsFrame(c, p), [op |-> c, payload |-> p])
  <1> DEFINE n == Len(p)
             l == IF n < Half - 2 THEN <<n>> ELSE <<Half - 2>> \o LengthOfTwo(n)
             e == wsFrame(c, p)
             f == [op |-> c, payload |-> p]
  <1>1. Half \in Nat /\ Half > 2 /\ 0 \in {0, Half}
    BY Constants
  <1>2. n \in Nat
    OBVIOUS
  <1>3. e = (<<FIN + c>> \o l) \o p
    BY Zenon DEF wsFrame
  <1>4. /\ l \in Seq(Nat) /\ Len(l) \in Nat /\ Len(l) >= 1
        /\ \/ n < Half - 2 /\ l = <<0 + n>>
           \/ n < Base * Base /\ l = Written2(0, n)
    <2>1. n < Base * Base
      OBVIOUS
    <2> HIDE DEF n
    <2>2. 0 + n = n /\ 0 + (Half - 2) = Half - 2
      BY <1>1, <1>2
    <2>3. \/ n < Half - 2 /\ l = <<n>>
          \/ n < Base * Base /\ l = Written2(0, n)
      BY <2>1, <2>2 DEF Written2
    <2>4. LengthOfTwo(n) \in Seq(Nat) /\ Half - 2 \in Nat
      BY <1>1, <1>2, LengthOfIs
    <2> HIDE DEF l
    <2>5. l \in Seq(Nat) /\ Len(l) \in Nat /\ Len(l) >= 1
      <3>1. ASSUME NEW x \in Nat, NEW t \in Seq(Nat)
            PROVE  <<x>> \o t \in Seq(Nat) /\ Len(<<x>> \o t) \in Nat /\ Len(<<x>> \o t) >= 1
        OBVIOUS
      <3>2. CASE l = <<n>>
        BY <1>2, <3>2
      <3>3. CASE l = Written2(0, n)
        BY <2>2, <2>4, <3>1, <3>3 DEF Written2
      <3> QED BY <2>3, <3>2, <3>3
    <2> QED BY <2>2, <2>3, <2>5
  <1> HIDE DEF l, n
  <1>5. /\ e \in Seq(Nat) /\ Len(e) = 1 + Len(l) + n
        /\ e[1] = FIN + c
        /\ \A i \in 1..Len(l) : e[1 + i] = l[i]
        /\ \A i \in 1..n : e[1 + Len(l) + i] = p[i]
    <2> DEFINE z == <<>>
    <2>1. FIN + c \in Nat
      BY OpByte
    <2>2. z \in Seq(Nat) /\ Len(z) = 0
      OBVIOUS
    <2>3. (<<FIN + c>> \o l) \o z = <<FIN + c>> \o l
      <3>1. <<FIN + c>> \o l \in Seq(Nat)
        BY <1>4, <2>1
      <3> QED BY <3>1, ConcatEmptySeq
    <2> HIDE DEF e, z
    <2>4. e = ((<<FIN + c>> \o l) \o z) \o p
      BY <1>3, <2>3
    <2>5. InARow(e, FIN + c, l, z, p)
      BY <1>4, <2>1, <2>2, <2>4, BytesInARow
    <2>6. 1 + Len(l) + Len(z) = 1 + Len(l)
      BY <1>4, <2>2
    <2> QED BY <2>5, <2>6 DEF InARow, n
  <1> HIDE DEF e
  <1>6. LengthBytes(e) = Len(l) - 1 /\ PayloadLength(e) = n /\ ~IsMasked(e)
    <2>1. Writes(e, 0, n, l)
      BY <1>4, <1>5, Zenon DEF Writes
    <2> QED BY <1>1, <1>2, <2>1, WrittenSays
  <1>7. Start(e) = 1 + Len(l)
    BY <1>4, <1>6 DEF Start
  <1>8. Complete(e) /\ Start(e) + PayloadLength(e) = Len(e)
    BY <1>2, <1>4, <1>5, <1>6, <1>7 DEF Complete
  <1>9. First(e) = f
    <2> DEFINE a(i) == IF IsMasked(e) THEN Xor(e[Start(e) + i], e[Start(e) - 3 + ((i - 1) % 4)])
                       ELSE e[Start(e) + i]
    <2>1. ASSUME NEW i \in 1..n PROVE a(i) = p[i]
      BY <1>5, <1>6, <1>7
    <2>2. First(e) = [op |-> e[1] % 16, payload |-> [i \in 1..n |-> a(i)]]
      BY <1>6, Zenon DEF First
    <2> HIDE DEF a
    <2>3. [i \in 1..n |-> a(i)] = p
      <3>1. p = [i \in 1..n |-> p[i]]
        BY DEF n
      <3> QED BY <2>1, <3>1
    <2>4. e[1] % 16 = c
      BY <1>5, OpByte
    <2> QED BY <2>2, <2>3, <2>4
  <1>10. Codes(e, f)
    BY <1>5, <1>8, <1>9, CodesIf
  <1> QED BY <1>10 DEF e

-----------------------------------------------------------------------------
(* What a stream of frames comes apart into.                               *)

\* r, which begins after m of the frames fs and ends with byte k of X.
Reads(r, X, o, fs, m, k) ==
    /\ Complete(r) <=> m < Len(fs) /\ o[m + 1] <= k
    /\ Complete(r) => First(r) = fs[m + 1] /\ Rest(r) = SubSeq(X, o[m + 1] + 1, k)

\* X is the bytes of the frames fs, the i-th of which ends at o[i].
Framed(X, o, fs) ==
    /\ X \in Seq(Nat)
    /\ o \in [0..Len(fs) -> Nat] /\ o[0] = 0 /\ o[Len(fs)] = Len(X)
    /\ \A i \in 1..Len(fs) : o[i - 1] + 2 <= o[i]
    /\ \A m \in 0..Len(fs), k \in 0..Len(X) :
          o[m] <= k => Reads(SubSeq(X, o[m] + 1, k), X, o, fs, m, k)

\* Byte k is the end of frame m, or within the one after it.
Reached(o, N, m, k) == m \in 0..N /\ o[m] <= k /\ (m < N => k < o[m + 1])

(* Frames have two bytes at least.                                         *)
LEMMA EndsGrow ==
    ASSUME NEW N \in Nat, NEW o \in [0..N -> Nat],
           \A i \in 1..N : o[i - 1] + 2 <= o[i],
           NEW i \in 0..N, NEW j \in i..N
    PROVE  o[i] + (j - i) * 2 <= o[j]
  <1> DEFINE S == {x \in i..N : o[i] + (x - i) * 2 <= o[x]}
  <1>1. i \in S
    <2>1. o[i] \in Nat /\ (i - i) * 2 = 0
      OBVIOUS
    <2> QED BY <2>1
  <1>2. ASSUME NEW x \in i..(N - 1), x \in S PROVE x + 1 \in S
    <2>1. x + 1 \in 1..N /\ (x + 1) - 1 = x /\ x + 1 \in i..N
      OBVIOUS
    <2>2. o[x] + 2 <= o[x + 1]
      BY <2>1
    <2>3. o[i] \in Nat /\ o[x] \in Nat /\ o[x + 1] \in Nat
      BY <2>1
    <2>4. o[i] + (x - i) * 2 <= o[x]
      BY <1>2
    <2>5. o[i] + ((x + 1) - i) * 2 <= o[x + 1]
      BY <2>2, <2>3, <2>4
    <2> QED BY <2>1, <2>5
  <1>3. i..N \subseteq S
    <2>1. i \in Nat
      OBVIOUS
    <2>2. \A x \in i..(N - 1) : x \in S => x + 1 \in S
      BY <1>2
    <2> HIDE DEF S
    <2> QED BY <1>1, <2>1, <2>2, IntervalInduction
  <1> QED BY <1>3

\* One turn of the parser's loop.
OneFrame(p) ==
    IF Complete(p.rest)
    THEN [frames |-> Append(p.frames, First(p.rest)), rest |-> Rest(p.rest)]
    ELSE p

(* A piece that begins where a frame begins comes apart into the frames    *)
(* that it holds to the end, and what there is of the next.                *)
LEMMA Parsed ==
    ASSUME NEW F, NEW fs \in Seq(F), NEW X, NEW o, Framed(X, o, fs),
           NEW a \in 0..Len(fs), NEW M \in a..Len(fs), NEW k \in 0..Len(X),
           Reached(o, Len(fs), M, k)
    PROVE  wsParse(SubSeq(X, o[a] + 1, k)) =
              [frames |-> SubSeq(fs, a + 1, M), rest |-> SubSeq(X, o[M] + 1, k)]
  <1> DEFINE N == Len(fs)
             b == SubSeq(X, o[a] + 1, k)
             H == Len(b) \div 2
             q(n) == IF a + n <= M THEN a + n ELSE M
             st(m) == [frames |-> SubSeq(fs, a + 1, m), rest |-> SubSeq(X, o[m] + 1, k)]
             g == [n \in 0..H |-> st(q(n))]
             P(f) == f = [n \in 0..H |->
                             IF n = 0 THEN [frames |-> <<>>, rest |-> b]
                             ELSE LET p == f[n - 1]
                                  IN  IF Complete(p.rest)
                                      THEN [frames |-> Append(p.frames, First(p.rest)),
                                            rest |-> Rest(p.rest)]
                                      ELSE p]
             c == CHOOSE f : P(f)
  <1>1. /\ N \in Nat /\ Len(X) \in Nat /\ X \in Seq(Nat) /\ o \in [0..N -> Nat]
        /\ \A i \in 1..N : o[i - 1] + 2 <= o[i]
    BY DEF Framed
  <1>2. \A m \in 0..N : o[m] <= k => Reads(SubSeq(X, o[m] + 1, k), X, o, fs, m, k)
    BY Zenon DEF Framed
  <1>3. \A i \in 0..N, j \in 0..N : i <= j => o[i] + (j - i) * 2 <= o[j]
    <2> HIDE DEF N
    <2> SUFFICES ASSUME NEW i \in 0..N, NEW j \in i..N PROVE o[i] + (j - i) * 2 <= o[j]
      BY <1>1
    <2> QED BY <1>1, EndsGrow
  <1>4. o[M] <= k /\ (M < N => k < o[M + 1])
    BY DEF Reached
  <1> HIDE DEF N
  <1>5. a \in Nat /\ M \in Nat /\ a <= M /\ M <= N /\ a \in 0..N /\ M \in 0..N /\ k \in Nat
    BY <1>1 DEF N
  <1>6. Len(b) = k - o[a] /\ Len(b) \in Nat /\ (M - a) * 2 <= Len(b)
    <2>1. o[a] + (M - a) * 2 <= o[M] /\ o[a] \in Nat /\ o[M] \in Nat
      BY <1>1, <1>3, <1>5
    <2>2. o[a] <= k
      BY <1>4, <1>5, <2>1
    <2>3. Len(b) = k - o[a]
      <3> DEFINE p == o[a]
      <3>1. p \in Nat /\ k \in Nat /\ p <= k /\ k <= Len(X)
        BY <1>1, <1>5, <2>1, <2>2
      <3> HIDE DEF p
      <3>2. Piece(SubSeq(X, p + 1, k), X, Nat, p, k)
        BY <1>1, <3>1, PieceIs
      <3>3. Len(SubSeq(X, p + 1, k)) = k - p
        BY <3>2 DEF Piece
      <3> QED BY <3>3 DEF p
    <2> DEFINE l == Len(b)
               d == (M - a) * 2
               p == o[a]
               r == o[M]
    <2>4. l = k - p /\ p + d <= r /\ p \in Nat /\ r \in Nat /\ r <= k /\ k \in Nat
      BY <1>4, <1>5, <2>1, <2>3
    <2>5. d \in Nat
      BY <1>5
    <2> HIDE DEF l, d, p, r
    <2>6. l \in Nat /\ d <= l
      BY <2>4, <2>5
    <2> QED BY <2>4, <2>6 DEF l, d, p
  <1> HIDE DEF b
  <1>7. H \in Nat /\ M - a <= H
    <2>1. M - a \in Nat /\ 2 \in Nat /\ 2 > 0
      BY <1>5
    <2>2. M - a <= H <=> (M - a) * 2 <= Len(b)
      BY <1>6, <2>1, QuotientBound
    <2> QED BY <1>6, <2>1, <2>2, Division
  <1> HIDE DEF H
  <1>8. /\ q(0) = a /\ q(H) = M
        /\ \A n \in 0..H : q(n) \in 0..N /\ q(n) <= M /\ q(n) >= a
        /\ \A n \in 0..(H - 1) : q(n + 1) = IF q(n) < M THEN q(n) + 1 ELSE M
    <2>1. q(0) = a /\ q(H) = M
      BY <1>5, <1>7
    <2>2. ASSUME NEW n \in 0..H PROVE q(n) \in 0..N /\ q(n) <= M /\ q(n) >= a
      BY <1>1, <1>5, <1>7
    <2>3. ASSUME NEW n \in 0..(H - 1)
          PROVE  q(n + 1) = IF q(n) < M THEN q(n) + 1 ELSE M
      BY <1>1, <1>5, <1>7
    <2> HIDE DEF q
    <2> QED BY <2>1, <2>2, <2>3
  <1> HIDE DEF q
  <1>9. st(a) = [frames |-> <<>>, rest |-> b]
    <2>1. SubSeq(fs, a + 1, a) = <<>>
      BY <1>5, SubSeqEmpty
    <2> QED BY <2>1 DEF b
  <1>10. ASSUME NEW m \in 0..N, m >= a, m < M PROVE OneFrame(st(m)) = st(m + 1)
    <2> DEFINE r == SubSeq(X, o[m] + 1, k)
    <2>1. m + 1 \in 0..N /\ m < N
      BY <1>1, <1>5, <1>10
    <2>2. o[m] <= k /\ o[m + 1] <= k
      <3>1. o[m] + (M - m) * 2 <= o[M] /\ o[m + 1] + (M - (m + 1)) * 2 <= o[M]
        BY <1>3, <1>5, <1>10, <2>1
      <3>2. o[m] \in Nat /\ o[m + 1] \in Nat /\ o[M] \in Nat
        BY <1>1, <1>5, <2>1
      <3> QED BY <1>4, <1>5, <1>10, <3>1, <3>2
    <2>3. Reads(r, X, o, fs, m, k)
      BY <1>2, <2>2
    <2> HIDE DEF r
    <2>4. Complete(r) /\ First(r) = fs[m + 1] /\ Rest(r) = SubSeq(X, o[m + 1] + 1, k)
      BY <2>1, <2>2, <2>3 DEF Reads, N
    <2>5. Append(SubSeq(fs, a + 1, m), fs[m + 1]) = SubSeq(fs, a + 1, m + 1)
      <3>1. a + 1 \in 1..Len(fs) /\ m + 1 \in (a + 1)..Len(fs) /\ (m + 1) - 1 = m
        BY <1>1, <1>5, <1>10, <2>1 DEF N
      <3>2. SubSeq(fs, a + 1, m + 1) = SubSeq(fs, a + 1, m) \o <<fs[m + 1]>>
        BY <3>1, SubSeqRecursiveSecond
      <3>3. \A i \in (a + 1)..m : fs[i] \in F
        BY <3>1
      <3>4. SubSeq(fs, a + 1, m) \in Seq(F) /\ fs[m + 1] \in F
        BY <1>5, <3>1, <3>3, SubSeqProperties
      <3> QED BY <3>2, <3>4, AppendIsConcat
    <2>6. st(m).rest = r /\ st(m).frames = SubSeq(fs, a + 1, m)
      BY DEF r
    <2>7. st(m + 1) = [frames |-> SubSeq(fs, a + 1, m + 1), rest |-> SubSeq(X, o[m + 1] + 1, k)]
      OBVIOUS
    <2> HIDE DEF st
    <2> QED BY <2>4, <2>5, <2>6, <2>7 DEF OneFrame
  <1>11. OneFrame(st(M)) = st(M)
    <2> DEFINE r == SubSeq(X, o[M] + 1, k)
    <2>1. Reads(r, X, o, fs, M, k)
      BY <1>2, <1>4, <1>5
    <2>2. ~Complete(r)
      <3>1. ASSUME M < N PROVE ~(o[M + 1] <= k)
        <4>1. o[M + 1] \in Nat /\ k < o[M + 1]
          BY <1>1, <1>4, <1>5, <3>1
        <4> QED BY <1>5, <4>1
      <3> HIDE DEF r
      <3> QED BY <2>1, <3>1 DEF Reads, N
    <2>3. st(M).rest = r
      BY DEF r
    <2> HIDE DEF st, r
    <2> QED BY <2>2, <2>3 DEF OneFrame
  <1> HIDE DEF st
  <1>12. /\ g[0] = [frames |-> <<>>, rest |-> b] /\ g[H] = st(M)
         /\ \A n \in 0..(H - 1) : g[n + 1] = OneFrame(g[n])
    <2>1. g[0] = st(q(0)) /\ g[H] = st(q(H)) /\ 0 \in 0..H
      BY <1>7
    <2>2. ASSUME NEW n \in 0..(H - 1) PROVE g[n + 1] = OneFrame(g[n])
      <3>1. n \in 0..H /\ n + 1 \in 0..H
        BY <1>7
      <3>2. g[n] = st(q(n)) /\ g[n + 1] = st(q(n + 1))
        BY <3>1
      <3>3. q(n) \in 0..N /\ q(n) <= M /\ q(n) >= a /\ q(n + 1) = IF q(n) < M THEN q(n) + 1 ELSE M
        BY <1>8, <3>1
      <3> HIDE DEF g
      <3>4. CASE q(n) < M
        BY <1>10, <3>2, <3>3, <3>4
      <3>5. CASE q(n) = M
        <4>1. ~(q(n) < M)
          BY <1>5, <3>5
        <4> QED BY <1>11, <3>2, <3>3, <3>5, <4>1
      <3> QED BY <1>5, <3>3, <3>4, <3>5
    <2> QED BY <1>8, <1>9, <2>1, <2>2
  <1>13. g = [n \in 0..H |-> g[n]]
    OBVIOUS
  <1> HIDE DEF g
  <1>14. P(g)
    <2> DEFINE e(n) == IF n = 0 THEN [frames |-> <<>>, rest |-> b] ELSE OneFrame(g[n - 1])
    <2>1. \A n \in 0..H : g[n] = e(n)
      <3> SUFFICES ASSUME NEW n \in 0..H PROVE g[n] = e(n)
        OBVIOUS
      <3>1. CASE n = 0
        BY <1>12, <3>1
      <3>2. CASE n # 0
        <4>1. n - 1 \in 0..(H - 1) /\ (n - 1) + 1 = n
          BY <1>7, <3>2
        <4>2. g[(n - 1) + 1] = OneFrame(g[n - 1])
          BY <1>12, <4>1
        <4> QED BY <3>2, <4>1, <4>2
      <3> QED BY <3>1, <3>2
    <2> HIDE DEF e
    <2>2. g = [n \in 0..H |-> e(n)]
      BY <1>13, <2>1
    <2> QED BY <2>2, Zenon DEF e, OneFrame
  <1>15. P(c)
    <2> HIDE DEF P
    <2> QED BY <1>14
  <1>16. /\ c[0] = [frames |-> <<>>, rest |-> b]
         /\ \A n \in 0..(H - 1) : c[n + 1] = OneFrame(c[n])
    <2> HIDE DEF c
    <2> DEFINE e(n) == IF n = 0 THEN [frames |-> <<>>, rest |-> b] ELSE OneFrame(c[n - 1])
    <2>1. c = [n \in 0..H |-> e(n)]
      BY <1>15, Zenon DEF OneFrame
    <2> HIDE DEF P
    <2>2. \A n \in 0..H : c[n] = e(n)
      <3> HIDE DEF e
      <3> QED BY <2>1
    <2>3. ASSUME NEW n \in 0..(H - 1) PROVE c[n + 1] = OneFrame(c[n])
      <3>1. n + 1 \in 0..H /\ n + 1 # 0 /\ (n + 1) - 1 = n
        BY <1>7
      <3>2. c[n + 1] = e(n + 1)
        BY <2>2, <3>1
      <3> QED BY <3>1, <3>2
    <2>4. 0 \in 0..H
      BY <1>7
    <2> QED BY <2>2, <2>3, <2>4
  <1> HIDE DEF c, P
  <1>17. c[H] = g[H]
    <2>1. ASSUME NEW n \in 0..(H - 1), c[n] = g[n] PROVE c[n + 1] = g[n + 1]
      BY <1>12, <1>16, <2>1
    <2>2. GoOnAlike(c, g, H)
      BY <1>12, <1>16, <2>1, Zenon DEF GoOnAlike
    <2> QED BY <1>7, <2>2, AlikeByInduction DEF Alike
  <1>18. wsParse(b) = c[H]
    BY Zenon DEF wsParse, c, P, H
  <1> QED BY <1>12, <1>17, <1>18 DEF b, st

(* The bytes of frames in a row are framed.                                *)
LEMMA FramedIf ==
    ASSUME NEW F, NEW fs \in Seq(F), NEW es \in Seq(Seq(Nat)), Len(es) = Len(fs),
           \A i \in 1..Len(fs) : Codes(es[i], fs[i]),
           NEW h, RunningConcat(h, Nat, es)
    PROVE  Framed(h[Len(fs)], [i \in 0..Len(fs) |-> Len(h[i])], fs)
  <1> DEFINE N == Len(fs)
             X == h[N]
             o == [i \in 0..N |-> Len(h[i])]
  <1>1. /\ N \in Nat /\ h \in [0..N -> Seq(Nat)] /\ h[0] = <<>>
        /\ \A i \in 1..N : h[i] = h[i - 1] \o es[i]
    <2>1. /\ h \in [0..Len(es) -> Seq(Nat)] /\ h[0] = <<>>
          /\ \A i \in 1..Len(es) : h[i] = h[i - 1] \o es[i]
      BY Zenon DEF RunningConcat
    <2>2. Len(fs) \in Nat
      OBVIOUS
    <2> QED BY <2>1, <2>2, Zenon
  <1>2. \A i \in 1..N : Codes(es[i], fs[i])
    OBVIOUS
  <1> HIDE DEF N
  <1>3. o \in [0..N -> Nat] /\ \A i \in 0..N : o[i] = Len(h[i])
    BY <1>1
  <1> HIDE DEF o
  <1>4. X \in Seq(Nat) /\ o[0] = 0 /\ o[N] = Len(X)
    BY <1>1, <1>3
  <1>5. ASSUME NEW i \in 1..N
        PROVE  /\ Joins(h[i], Nat, h[i - 1], es[i])
               /\ o[i] = o[i - 1] + Len(es[i]) /\ Len(es[i]) \in Nat /\ Len(es[i]) >= 2
               /\ i \in 0..N /\ i - 1 \in 0..N
    <2>1. es[i] \in Seq(Nat) /\ Len(es[i]) >= 2
      BY <1>2 DEF Codes
    <2>2. i \in 0..N /\ i - 1 \in 0..N
      BY <1>1
    <2>3. h[i - 1] \in Seq(Nat) /\ h[i] = h[i - 1] \o es[i]
      BY <1>1, <2>2
    <2>4. Joins(h[i], Nat, h[i - 1], es[i])
      BY <2>1, <2>3, ConcatJoins
    <2>5. Len(h[i]) = Len(h[i - 1]) + Len(es[i])
      BY <2>4 DEF Joins
    <2>6. o[i] = Len(h[i]) /\ o[i - 1] = Len(h[i - 1])
      BY <1>3, <2>2
    <2> QED BY <2>1, <2>2, <2>4, <2>5, <2>6
  <1>6. \A i \in 1..N : o[i - 1] + 2 <= o[i]
    <2> SUFFICES ASSUME NEW i \in 1..N PROVE o[i - 1] + 2 <= o[i]
      OBVIOUS
    <2>1. o[i - 1] \in Nat /\ o[i] = o[i - 1] + Len(es[i]) /\ Len(es[i]) \in Nat /\ Len(es[i]) >= 2
      BY <1>3, <1>5
    <2> QED BY <2>1
  <1> HIDE DEF X
  <1>7. ASSUME NEW i \in 0..N
        PROVE  o[i] <= Len(X) /\ \A x \in 1..o[i] : X[x] = h[i][x]
    <2> DEFINE T == {j \in i..N : o[i] <= o[j] /\ \A x \in 1..o[i] : h[j][x] = h[i][x]}
    <2>1. i \in T
      BY <1>1, <1>3
    <2>2. ASSUME NEW j \in i..(N - 1), j \in T PROVE j + 1 \in T
      <3>1. j + 1 \in 1..N /\ (j + 1) - 1 = j /\ j \in 0..N /\ j + 1 \in i..N
        BY <1>1
      <3>2. Joins(h[j + 1], Nat, h[j], es[j + 1]) /\ o[j + 1] = o[j] + Len(es[j + 1]) /\ Len(es[j + 1]) \in Nat
        BY <1>5, <3>1
      <3>3. o[j] = Len(h[j]) /\ o[j] \in Nat /\ o[i] \in Nat /\ o[i] <= o[j]
        BY <1>3, <2>2, <3>1
      <3>4. ASSUME NEW x \in 1..o[i] PROVE h[j + 1][x] = h[i][x]
        <4>1. x \in 1..Len(h[j])
          BY <3>3
        <4>2. h[j + 1][x] = h[j][x]
          BY <3>2, <4>1 DEF Joins
        <4> QED BY <2>2, <4>2
      <3>5. o[i] <= o[j + 1]
        <4> DEFINE x == Len(es[j + 1])
        <4>1. o[j + 1] = o[j] + x /\ x \in Nat
          BY <3>2
        <4> HIDE DEF x
        <4> QED BY <3>3, <4>1
      <3> QED BY <3>1, <3>4, <3>5
    <2>3. i..N \subseteq T
      <3>1. i \in Nat
        OBVIOUS
      <3>2. \A j \in i..(N - 1) : j \in T => j + 1 \in T
        BY <2>2
      <3> HIDE DEF T
      <3> QED BY <1>1, <2>1, <3>1, <3>2, IntervalInduction
    <2>4. N \in T
      BY <1>1, <2>3
    <2> QED BY <1>4, <2>4 DEF X
  <1>8. ASSUME NEW m \in 0..N, NEW k \in 0..Len(X), o[m] <= k
        PROVE  Reads(SubSeq(X, o[m] + 1, k), X, o, fs, m, k)
    <2> DEFINE p == o[m]
               r == SubSeq(X, p + 1, k)
    <2>1. p \in Nat /\ k \in Nat /\ k <= Len(X) /\ Len(X) \in Nat /\ p <= k
      BY <1>3, <1>4, <1>8
    <2> HIDE DEF p
    <2>2. Piece(r, X, Nat, p, k)
      BY <1>4, <2>1, PieceIs
    <2> HIDE DEF r
    <2>3. r \in Seq(Nat) /\ Len(r) = k - p /\ \A x \in 1..(k - p) : r[x] = X[p + x]
      BY <2>2 DEF Piece
    <2>4. CASE m = N
      <3>1. Len(r) = 0
        BY <1>4, <2>1, <2>3, <2>4 DEF p
      <3>2. ~Complete(r)
        BY <3>1 DEF Complete
      <3>3. ~(m < Len(fs))
        BY <1>1, <2>4 DEF N
      <3> QED BY <3>2, <3>3, Zenon DEF Reads, r, p
    <2>5. CASE m < N
      <3> DEFINE e == es[m + 1]
      <3>1. m + 1 \in 1..N /\ (m + 1) - 1 = m /\ m + 1 \in 0..N
        BY <1>1, <2>5
      <3>2. /\ Joins(h[m + 1], Nat, h[m], e)
            /\ o[m + 1] = p + Len(e) /\ Len(e) \in Nat /\ Len(e) >= 2
        BY <1>5, <3>1 DEF p
      <3>3. Codes(e, fs[m + 1])
        BY <1>2, <3>1
      <3> HIDE DEF e
      <3>4. ASSUME NEW x \in 1..Len(e) PROVE X[p + x] = e[x]
        <4>1. Len(h[m]) = p
          BY <1>3 DEF p
        <4>2. h[m + 1][p + x] = e[x]
          BY <3>2, <4>1 DEF Joins
        <4>3. p + x \in 1..o[m + 1]
          BY <2>1, <3>2
        <4>4. X[p + x] = h[m + 1][p + x]
          BY <1>7, <3>1, <4>3
        <4> QED BY <4>2, <4>4
      <3>5. AsFar(r, e)
        <4> SUFFICES ASSUME NEW x \in 1..Len(e), x <= Len(r) PROVE r[x] = e[x]
          BY DEF AsFar
        <4>1. x \in 1..(k - p)
          BY <2>1, <2>3, <3>2
        <4> QED BY <2>3, <3>4, <4>1
      <3>6. /\ Complete(r) <=> Len(e) <= Len(r)
            /\ Complete(r) =>
                  First(r) = fs[m + 1] /\ Rest(r) = SubSeq(r, Len(e) + 1, Len(r))
        BY <2>3, <3>3, <3>5, Zenon DEF Codes
      <3>7. Len(e) <= Len(r) <=> o[m + 1] <= k
        BY <2>1, <2>3, <3>2
      <3>8. ASSUME Len(e) <= Len(r)
            PROVE  SubSeq(r, Len(e) + 1, Len(r)) = SubSeq(X, o[m + 1] + 1, k)
        <4> DEFINE q == Len(e)
        <4>1. q \in Nat /\ p + q <= k
          BY <2>1, <2>3, <3>2, <3>8
        <4> HIDE DEF q
        <4>2. SubSeq(SubSeq(X, p + 1, k), q + 1, k - p) = SubSeq(X, p + q + 1, k)
          BY <1>4, <2>1, <4>1, PieceOfPiece
        <4> QED BY <2>3, <3>2, <4>2 DEF q, r
      <3>9. m < Len(fs)
        BY <2>5 DEF N
      <3>10. Reads(r, X, o, fs, m, k)
        BY <3>6, <3>7, <3>8, <3>9, Zenon DEF Reads
      <3> QED BY <3>10 DEF r, p
    <2> QED BY <1>1, <2>4, <2>5
  <1>9. Framed(X, o, fs)
    BY <1>3, <1>4, <1>6, <1>8, Zenon DEF Framed, N
  <1> QED BY <1>9 DEF X, o, N

-----------------------------------------------------------------------------
(* The client's bytes.                                                     *)

\* The places at which the frames end.
Ends(frames) == [i \in 0..Len(frames) |-> Len(Stream(SubSeq(frames, 1, i)))]

\* The bytes of each frame.
Codings(frames) == [i \in DOMAIN frames |-> Masked(frames[i].op, frames[i].payload, Mask)]

LEMMA CodingsAre ==
    ASSUME NEW fs \in Seq(ClientFrames)
    PROVE  /\ Codings(fs) \in Seq(Seq(Nat)) /\ Len(Codings(fs)) = Len(fs)
           /\ \A i \in 1..Len(fs) : Codes(Codings(fs)[i], fs[i])
           /\ \A i \in 0..Len(fs) : SubSeq(Codings(fs), 1, i) = Codings(SubSeq(fs, 1, i))
  <1> DEFINE e(i) == Masked(fs[i].op, fs[i].payload, Mask)
             N == Len(fs)
             es == [i \in 1..N |-> e(i)]
  <1>1. N \in Nat /\ DOMAIN fs = 1..N /\ \A i \in 1..N : fs[i] \in ClientFrames
    OBVIOUS
  <1>2. \A i \in 1..N : Codes(e(i), fs[i])
    BY <1>1, MaskedCodes
  <1>3. Codings(fs) = es
    BY <1>1 DEF Codings
  <1> HIDE DEF e
  <1>4. \A i \in 1..N : e(i) \in Seq(Nat)
    BY <1>2 DEF Codes
  <1> DEFINE V == Seq(Nat)
  <1>5. es \in Seq(V) /\ Len(es) = N /\ \A i \in 1..N : es[i] = e(i)
    <2>1. \A i \in 1..N : e(i) \in V
      BY <1>4
    <2> HIDE DEF V, N
    <2> QED BY <1>1, <2>1
  <1>6. ASSUME NEW i \in 0..N PROVE SubSeq(es, 1, i) = Codings(SubSeq(fs, 1, i))
    <2>1. i \in Nat /\ i <= N
      BY <1>1
    <2>2. SubSeq(es, 1, i) = [j \in 1..i |-> e(j)]
      <3> HIDE DEF V, N
      <3>1. Piece(SubSeq(es, 0 + 1, i), es, V, 0, i)
        <4> HIDE DEF es
        <4> QED BY <1>5, <2>1, PieceIs
      <3> DEFINE s == SubSeq(es, 1, i)
      <3>2. s \in Seq(V) /\ Len(s) = i /\ \A j \in 1..i : s[j] = es[j]
        BY <2>1, <3>1 DEF Piece
      <3>3. \A j \in 1..i : s[j] = e(j)
        BY <1>1, <1>5, <2>1, <3>2
      <3> HIDE DEF s
      <3>4. s = [j \in 1..i |-> s[j]]
        BY <3>2
      <3>5. s = [j \in 1..i |-> e(j)]
        BY <3>3, <3>4
      <3> QED BY <3>5 DEF s
    <2>3. DOMAIN SubSeq(fs, 1, i) = 1..i /\ \A j \in 1..i : SubSeq(fs, 1, i)[j] = fs[j]
      BY <2>1
    <2>4. Codings(SubSeq(fs, 1, i)) = [j \in 1..i |-> e(j)]
      BY <2>3 DEF Codings, e
    <2> QED BY <2>2, <2>4
  <1> HIDE DEF es
  <1> QED BY <1>2, <1>3, <1>5, <1>6

\* h[i] is the bytes of the first i frames.
Streams(h, fs) ==
    /\ h \in [0..Len(fs) -> Seq(Nat)] /\ h[0] = <<>>
    /\ \A i \in 1..Len(fs) : h[i] = h[i - 1] \o Codings(fs)[i]
    /\ \A i \in 0..Len(fs) : Stream(SubSeq(fs, 1, i)) = h[i]

LEMMA StreamsExist ==
    ASSUME NEW fs \in Seq(ClientFrames)
    PROVE  \E h : RunningConcat(h, Nat, Codings(fs)) /\ Streams(h, fs)
  <1> DEFINE es == Codings(fs)
             N == Len(fs)
  <1>1. /\ es \in Seq(Seq(Nat)) /\ Len(es) = N
        /\ \A i \in 0..N : SubSeq(es, 1, i) = Codings(SubSeq(fs, 1, i))
    BY CodingsAre
  <1>2. PICK h : RunningConcat(h, Nat, es)
    <2> HIDE DEF es
    <2> QED BY <1>1, FlattenPrefixes
  <1>3. \A i \in 0..N : Stream(SubSeq(fs, 1, i)) = FlattenSeq(Codings(SubSeq(fs, 1, i)))
    BY Zenon DEF Stream, Codings
  <1>4. Streams(h, fs)
    <2>1. /\ h \in [0..N -> Seq(Nat)] /\ h[0] = <<>>
          /\ \A i \in 1..N : h[i] = h[i - 1] \o es[i]
          /\ \A i \in 0..N : FlattenSeq(SubSeq(es, 1, i)) = h[i]
      <3> HIDE DEF es, N
      <3> QED BY <1>1, <1>2, Zenon DEF RunningConcat
    <2> HIDE DEF es
    <2>2. \A i \in 0..N : Stream(SubSeq(fs, 1, i)) = h[i]
      BY <1>1, <1>3, <2>1
    <2> QED BY <2>1, <2>2, Zenon DEF Streams, es
  <1> QED BY <1>2, <1>4

LEMMA StreamFramed ==
    ASSUME NEW fs \in Seq(ClientFrames)
    PROVE  Framed(Stream(fs), Ends(fs), fs)
  <1> DEFINE N == Len(fs)
  <1>1. PICK h : RunningConcat(h, Nat, Codings(fs)) /\ Streams(h, fs)
    BY StreamsExist
  <1>2. Framed(h[N], [i \in 0..N |-> Len(h[i])], fs)
    <2> DEFINE es == Codings(fs)
    <2>1. es \in Seq(Seq(Nat)) /\ Len(es) = Len(fs) /\ \A i \in 1..Len(fs) : Codes(es[i], fs[i])
      BY CodingsAre
    <2> HIDE DEF es
    <2>2. RunningConcat(h, Nat, es)
      BY <1>1 DEF es
    <2> QED BY <2>1, <2>2, FramedIf
  <1>3. h[N] = Stream(fs)
    <2>1. N \in 0..N /\ SubSeq(fs, 1, N) = fs
      BY SubSeqFull
    <2> QED BY <1>1, <2>1 DEF Streams
  <1>4. [i \in 0..N |-> Len(h[i])] = Ends(fs)
    BY <1>1 DEF Streams, Ends
  <1> QED BY <1>2, <1>3, <1>4

(* What one more frame adds.                                               *)
LEMMA StreamAppend ==
    ASSUME NEW fs \in Seq(ClientFrames), NEW f \in ClientFrames
    PROVE  /\ Stream(Append(fs, f)) = Stream(fs) \o Masked(f.op, f.payload, Mask)
           /\ \A i \in 0..Len(fs) : Ends(Append(fs, f))[i] = Ends(fs)[i]
  <1> DEFINE gs == Append(fs, f)
             N == Len(fs)
  <1>1. /\ gs \in Seq(ClientFrames) /\ Len(gs) = N + 1 /\ gs[N + 1] = f /\ N \in Nat
        /\ \A i \in 1..N : gs[i] = fs[i]
    OBVIOUS
  <1> HIDE DEF gs
  <1>2. ASSUME NEW i \in 0..N PROVE SubSeq(gs, 1, i) = SubSeq(fs, 1, i)
    <2>1. i \in Nat /\ i <= N /\ i <= Len(gs)
      BY <1>1
    <2>2. Piece(SubSeq(gs, 0 + 1, i), gs, ClientFrames, 0, i)
      BY <1>1, <2>1, PieceIs
    <2>3. Piece(SubSeq(fs, 0 + 1, i), fs, ClientFrames, 0, i)
      BY <1>1, <2>1, PieceIs
    <2> DEFINE s == SubSeq(gs, 1, i)
               t == SubSeq(fs, 1, i)
    <2>4. /\ s \in Seq(ClientFrames) /\ t \in Seq(ClientFrames) /\ Len(s) = i /\ Len(t) = i
          /\ \A x \in 1..i : s[x] = gs[x] /\ t[x] = fs[x]
      BY <2>1, <2>2, <2>3 DEF Piece
    <2> HIDE DEF s, t
    <2>5. \A x \in 1..i : s[x] = t[x]
      BY <1>1, <2>1, <2>4
    <2>6. s = t
      BY <2>4, <2>5, SeqEqual
    <2> QED BY <2>6 DEF s, t
  <1>3. PICK h : Streams(h, gs)
    BY <1>1, StreamsExist
  <1>4. h[N + 1] = h[N] \o Codings(gs)[N + 1]
    <2>1. N + 1 \in 1..Len(gs) /\ (N + 1) - 1 = N
      BY <1>1
    <2> QED BY <1>3, <2>1 DEF Streams
  <1>5. Codings(gs)[N + 1] = Masked(f.op, f.payload, Mask)
    <2>1. N + 1 \in DOMAIN gs
      BY <1>1
    <2> QED BY <1>1, <2>1 DEF Codings
  <1>6. Stream(gs) = h[N + 1]
    <2>1. SubSeq(gs, 1, N + 1) = gs /\ N + 1 \in 0..Len(gs)
      BY <1>1, SubSeqFull
    <2> QED BY <1>3, <2>1 DEF Streams
  <1>7. Stream(fs) = h[N]
    <2>1. SubSeq(gs, 1, N) = fs /\ N \in 0..Len(gs)
      BY <1>1, <1>2, SubSeqFull
    <2> QED BY <1>3, <2>1 DEF Streams
  <1>8. \A i \in 0..N : Ends(gs)[i] = Ends(fs)[i]
    <2> SUFFICES ASSUME NEW i \in 0..N PROVE Ends(gs)[i] = Ends(fs)[i]
      OBVIOUS
    <2>1. i \in 0..Len(gs) /\ SubSeq(gs, 1, i) = SubSeq(fs, 1, i)
      BY <1>1, <1>2
    <2>2. Ends(gs)[i] = Len(Stream(SubSeq(gs, 1, i)))
      BY <2>1 DEF Ends
    <2>3. Ends(fs)[i] = Len(Stream(SubSeq(fs, 1, i)))
      BY DEF Ends
    <2> QED BY <2>1, <2>2, <2>3
  <1> QED BY <1>4, <1>5, <1>6, <1>7, <1>8 DEF gs

(* Every byte is the end of a frame or within one.                         *)
LEMMA SomeReached ==
    ASSUME NEW N \in Nat, NEW o \in [0..N -> Nat], NEW m \in 0..N, NEW k \in Nat, o[m] <= k
    PROVE  \E M \in m..N : Reached(o, N, M, k)
  <1> SUFFICES ASSUME \A M \in m..N : ~Reached(o, N, M, k) PROVE FALSE
    OBVIOUS
  <1> DEFINE T == {i \in m..N : o[i] <= k}
  <1>1. m \in T /\ m \in Nat
    OBVIOUS
  <1>2. ASSUME NEW i \in m..(N - 1), i \in T PROVE i + 1 \in T
    <2>1. i \in 0..N /\ i < N /\ i + 1 \in m..N /\ i + 1 \in 0..N /\ i \in m..N
      OBVIOUS
    <2>2. ~(k < o[i + 1])
      BY <1>2, <2>1 DEF Reached
    <2>3. o[i + 1] \in Nat
      BY <2>1
    <2> QED BY <2>1, <2>2, <2>3
  <1>3. m..N \subseteq T
    <2>1. \A i \in m..(N - 1) : i \in T => i + 1 \in T
      BY <1>2
    <2> HIDE DEF T
    <2> QED BY <1>1, <2>1, IntervalInduction
  <1>4. N \in T
    BY <1>3
  <1>5. Reached(o, N, N, k)
    BY <1>4 DEF Reached
  <1> QED BY <1>5

-----------------------------------------------------------------------------
(* What the data handler does with the frames of a chunk.                  *)

Payloads == {p \in Seq(Nat) : Len(p) < Base * Base}

Shown == [op : {TEXT, CLOSE, PONG}, payload : Payloads,
             kind : {"chunk", "reply", "result", "error", "control"}, to : Nat]

Handler ==
    [taken : Seq(ClientFrames), told : Seq(Shown), chunkDue : Seq(Nat),
     replyDue : Seq(Nat), drops : Nat, open : BOOLEAN, stop : BOOLEAN]

LEMMA WrittenIs ==
    ASSUME NEW kind \in {"chunk", "reply", "result", "error", "close"}
    PROVE  Written[kind] \in Payloads
  BY SessionAssumption, Zenon DEF SessionAssumption, Payloads

LEMMA TextIs ==
    ASSUME NEW kind \in {"chunk", "reply", "result", "error"}, NEW to \in Nat
    PROVE  Text(kind, to) \in Shown
  <1>1. Written[kind] \in Payloads
    BY WrittenIs
  <1> QED BY <1>1 DEF Text, Shown

\* t is what taking frame f makes of s.
TakesFrom(t, s, f) ==
    /\ t \in Handler /\ t.taken = Append(s.taken, f)
    /\ t.stop => f.op = CLOSE

LEMMA TellIs ==
    ASSUME NEW s \in Handler, NEW r \in Shown
    PROVE  Tell(s, r) \in Handler /\ Tell(s, r).taken = s.taken /\ Tell(s, r).stop = s.stop
  <1>1. CASE s.open
    <2>1. Append(s.told, r) \in Seq(Shown)
      BY DEF Handler
    <2>2. Tell(s, r) = [s EXCEPT !.told = Append(@, r)]
      BY <1>1 DEF Tell
    <2> QED BY <2>1, <2>2 DEF Handler
  <1>2. CASE ~s.open
    <2>1. Tell(s, r) = s
      BY <1>2 DEF Tell
    <2> QED BY <2>1
  <1> QED BY <1>1, <1>2

LEMMA HandleIs ==
    ASSUME NEW s \in Handler, NEW method, NEW from \in Nat
    PROVE  /\ Handle(s, method, from) \in Handler
           /\ Handle(s, method, from).taken = s.taken
           /\ Handle(s, method, from).stop = s.stop
  <1> DEFINE h == Handle(s, method, from)
             tell(kind) == Tell(s, Text(kind, from))
             Good(x) == x \in Handler /\ x.taken = s.taken /\ x.stop = s.stop
  <1>1. ASSUME NEW kind \in {"chunk", "result", "error"}
        PROVE  Good(tell(kind))
    BY TextIs, TellIs
  <1> HIDE DEF tell
  <1>2. CASE method = "session/prompt"
    <2> DEFINE t == tell("chunk")
    <2>1. Good(t)
      BY <1>1
    <2>2. h = [t EXCEPT !.chunkDue = Append(@, from), !.replyDue = Append(@, from)]
      BY <1>2 DEF Handle, tell
    <2> HIDE DEF t
    <2>3. Append(t.chunkDue, from) \in Seq(Nat) /\ Append(t.replyDue, from) \in Seq(Nat)
      BY <2>1 DEF Handler
    <2>4. Good(h)
      BY <2>1, <2>2, <2>3 DEF Handler
    <2> QED BY <2>4
  <1>3. CASE method = "session/new"
    <2> DEFINE t == tell("result")
    <2>1. Good(t)
      BY <1>1
    <2>2. h = [t EXCEPT !.drops = IF flaky THEN @ + 1 ELSE @]
      BY <1>3 DEF Handle, tell
    <2> HIDE DEF t
    <2>3. (IF flaky THEN t.drops + 1 ELSE t.drops) \in Nat
      BY <2>1 DEF Handler
    <2>4. Good(h)
      BY <2>1, <2>2, <2>3 DEF Handler
    <2> QED BY <2>4
  <1>4. CASE method \notin {"session/prompt", "session/new"}
    <2>1. h \in {tell("result"), tell("error"), s}
      BY <1>4 DEF Handle, tell
    <2>2. Good(h)
      BY <1>1, <2>1
    <2> QED BY <2>2
  <1> QED BY <1>2, <1>3, <1>4

LEMMA TakeIs ==
    ASSUME NEW s \in Handler, ~s.stop, NEW f \in ClientFrames
    PROVE  TakesFrom(Take(s, f), s, f)
  <1> DEFINE t == [s EXCEPT !.taken = Append(@, f)]
             u == Take(s, f)
  <1>1. /\ f.op \in 0..15 /\ f.payload \in Seq(Nat)
        /\ f.op = PING => Len(f.payload) < Base * Base
    BY SessionAssumption, Zenon DEF SessionAssumption
  <1>2. Append(s.taken, f) \in Seq(ClientFrames)
    BY DEF Handler
  <1>3. t \in Handler /\ t.taken = Append(s.taken, f) /\ t.stop = FALSE
    BY <1>2 DEF Handler
  <1>4. CASE f.op = CLOSE
    <2> DEFINE r == Control(CLOSE, Written["close"])
               v == Tell(t, r)
    <2>1. r \in Shown
      BY WrittenIs DEF Control, Shown
    <2>2. u = [v EXCEPT !.stop = TRUE, !.open = FALSE]
      BY <1>4 DEF Take
    <2> HIDE DEF t, r
    <2>3. v \in Handler /\ v.taken = t.taken
      BY <1>3, <2>1, TellIs
    <2> HIDE DEF v
    <2>4. u \in Handler /\ u.taken = v.taken
      BY <2>2, <2>3 DEF Handler
    <2> QED BY <1>3, <1>4, <2>3, <2>4 DEF TakesFrom
  <1>5. CASE f.op = PING
    <2> DEFINE r == Control(PONG, f.payload)
               v == Tell(t, r)
    <2>1. f.payload \in Payloads
      BY <1>1, <1>5 DEF Payloads
    <2>2. r \in Shown
      BY <2>1 DEF Control, Shown
    <2>3. u = v
      BY <1>5 DEF Take, PING, CLOSE
    <2> HIDE DEF t, r
    <2>4. v \in Handler /\ v.taken = t.taken /\ v.stop = t.stop
      BY <1>3, <2>2, TellIs
    <2> QED BY <1>3, <2>3, <2>4 DEF TakesFrom
  <1>6. CASE f.op = TEXT
    <2> DEFINE n == Len(t.taken)
               v == Handle(t, Method[f.payload], n)
    <2>1. n \in Nat
      BY <1>2
    <2>2. u = v
      BY <1>6 DEF Take, PING, CLOSE, TEXT
    <2> HIDE DEF t, n
    <2>3. v \in Handler /\ v.taken = t.taken /\ v.stop = t.stop
      BY <1>3, <2>1, HandleIs
    <2> QED BY <1>3, <2>2, <2>3 DEF TakesFrom
  <1>7. CASE f.op \notin {CLOSE, PING, TEXT}
    <2>1. u = t
      BY <1>7 DEF Take
    <2> QED BY <1>3, <2>1 DEF TakesFrom
  <1> QED BY <1>4, <1>5, <1>6, <1>7

\* t[i] is what the first i of the frames ps make of z, one turn after another.
Loop(t, z, ps) ==
    /\ t \in [0..Len(ps) -> Handler] /\ t[0] = z
    /\ \A i \in 0..(Len(ps) - 1) : t[i + 1] = Take(t[i], ps[i + 1])
    /\ TakeAll(z, ps) = t[Len(ps)]

(* The loop over the frames of a chunk is a row of turns.                  *)
LEMMA LoopRuns ==
    ASSUME NEW ps \in Seq(ClientFrames), NEW z \in Handler
    PROVE  \E t : Loop(t, z, ps)
  <1> DEFINE n == Len(ps)
             G == [i \in 1..n |-> [s \in Handler |-> Take(s, ps[i])]]
             P(f) == f = [i \in 0..Len(ps) |-> IF i = 0 THEN z ELSE Take(f[i - 1], ps[i])]
             c == CHOOSE f : P(f)
  <1>1. n \in Nat
    OBVIOUS
  <1>2. Len(ps) = n /\ \A i \in 1..n : ps[i] \in ClientFrames
    OBVIOUS
  <1> HIDE DEF n
  <1>3. ASSUME NEW i \in 1..n, NEW s \in Handler PROVE Take(s, ps[i]) \in Handler
    <2>1. ps[i] \in ClientFrames
      BY <1>2
    <2>2. CASE s.stop
      <3>1. Take(s, ps[i]) = s
        BY <2>2 DEF Take
      <3> QED BY <3>1
    <2>3. CASE ~s.stop
      BY <2>1, <2>3, TakeIs DEF TakesFrom
    <2> QED BY <2>2, <2>3
  <1>4. G \in [1..n -> [Handler -> Handler]]
    BY <1>3
  <1>5. PICK t : Recursion(t, n, Handler, z, G)
    <2> HIDE DEF G
    <2> QED BY <1>1, <1>4, RecursiveValues
  <1>6. /\ t \in [0..n -> Handler] /\ t[0] = z
        /\ \A i \in 0..(n - 1) : t[i + 1] = Take(t[i], ps[i + 1])
    <2>1. t \in [0..n -> Handler] /\ t[0] = z /\ \A i \in 1..n : t[i] = G[i][t[i - 1]]
      BY <1>5 DEF Recursion
    <2>2. ASSUME NEW i \in 0..(n - 1) PROVE t[i + 1] = Take(t[i], ps[i + 1])
      <3>1. i \in 0..n /\ i + 1 \in 1..n /\ (i + 1) - 1 = i
        BY <1>1
      <3> DEFINE x == t[i]
                 j == i + 1
      <3>2. x \in Handler /\ t[j] = G[j][x] /\ j \in 1..n
        BY <2>1, <3>1
      <3> HIDE DEF x, j
      <3>3. t[j] = Take(x, ps[j])
        BY <3>2
      <3> QED BY <3>3 DEF x, j
    <2> QED BY <2>1, <2>2
  <1> HIDE DEF G
  <1>7. P(t)
    <2> DEFINE e(i) == IF i = 0 THEN z ELSE Take(t[i - 1], ps[i])
    <2>1. \A i \in 0..n : t[i] = e(i)
      <3> SUFFICES ASSUME NEW i \in 0..n PROVE t[i] = e(i)
        OBVIOUS
      <3>1. CASE i = 0
        BY <1>6, <3>1
      <3>2. CASE i # 0
        <4>1. i - 1 \in 0..(n - 1) /\ (i - 1) + 1 = i
          BY <1>1, <3>2
        <4>2. t[(i - 1) + 1] = Take(t[i - 1], ps[(i - 1) + 1])
          BY <1>6, <4>1
        <4> QED BY <3>2, <4>1, <4>2
      <3> QED BY <3>1, <3>2
    <2> HIDE DEF e
    <2>2. t = [i \in 0..n |-> t[i]]
      BY <1>6
    <2>3. t = [i \in 0..n |-> e(i)]
      BY <2>1, <2>2
    <2> QED BY <1>2, <2>3, Zenon DEF e
  <1>8. P(c)
    <2> HIDE DEF P
    <2> QED BY <1>7
  <1>9. c[0] = z /\ \A i \in 0..(n - 1) : c[i + 1] = Take(c[i], ps[i + 1])
    <2> HIDE DEF c
    <2> DEFINE e(i) == IF i = 0 THEN z ELSE Take(c[i - 1], ps[i])
    <2>1. c = [i \in 0..n |-> e(i)]
      BY <1>2, <1>8, Zenon
    <2> HIDE DEF P
    <2>2. \A i \in 0..n : c[i] = e(i)
      <3> HIDE DEF e
      <3> QED BY <2>1
    <2>3. ASSUME NEW i \in 0..(n - 1) PROVE c[i + 1] = Take(c[i], ps[i + 1])
      <3>1. i + 1 \in 0..n /\ i + 1 # 0 /\ (i + 1) - 1 = i
        BY <1>1
      <3>2. c[i + 1] = e(i + 1)
        BY <2>2, <3>1
      <3> QED BY <3>1, <3>2
    <2>4. 0 \in 0..n
      BY <1>1
    <2> QED BY <2>2, <2>3, <2>4
  <1>10. c[n] = t[n]
    <2> HIDE DEF c, P
    <2>1. ASSUME NEW i \in 0..(n - 1), c[i] = t[i] PROVE c[i + 1] = t[i + 1]
      BY <1>6, <1>9, <2>1
    <2>2. GoOnAlike(c, t, n)
      BY <1>6, <1>9, <2>1, Zenon DEF GoOnAlike
    <2> QED BY <1>1, <2>2, AlikeByInduction DEF Alike
  <1>11. TakeAll(z, ps) = t[n]
    <2>1. TakeAll(z, ps) = c[Len(ps)]
      BY Zenon DEF TakeAll
    <2> HIDE DEF c
    <2> QED BY <1>2, <1>10, <2>1
  <1> HIDE DEF c, G
  <1> QED BY <1>2, <1>6, <1>11, Zenon DEF Loop

NoneAfterClose(fs) == \A i \in 1..(Len(fs) - 1) : fs[i].op # CLOSE

(* The loop takes all the frames of a chunk: it stops at a close, which is *)
(* the last.                                                               *)
LEMMA TakeAllIs ==
    ASSUME NEW fs \in Seq(ClientFrames), NoneAfterClose(fs),
           NEW a \in 0..Len(fs), NEW M \in a..Len(fs),
           NEW z \in Handler, ~z.stop, z.taken = SubSeq(fs, 1, a)
    PROVE  LET s == TakeAll(z, SubSeq(fs, a + 1, M))
           IN  s \in Handler /\ s.taken = SubSeq(fs, 1, M)
  <1> DEFINE ps == SubSeq(fs, a + 1, M)
             n == M - a
  <1>1. /\ Len(fs) \in Nat /\ a \in Nat /\ M \in Nat /\ n \in Nat /\ a <= M /\ M <= Len(fs)
        /\ a + n = M
    OBVIOUS
  <1>2. ps \in Seq(ClientFrames) /\ Len(ps) = n /\ \A i \in 1..n : ps[i] = fs[a + i]
    <2>1. Piece(ps, fs, ClientFrames, a, M)
      BY <1>1, PieceIs
    <2> HIDE DEF ps
    <2> QED BY <2>1 DEF Piece
  <1>h. \A i \in 1..n : ps[i] \in ClientFrames
    <2> HIDE DEF ps
    <2> QED BY <1>2
  <1> HIDE DEF ps, n
  <1>3. PICK t : Loop(t, z, ps)
    BY <1>2, LoopRuns
  <1>4. /\ t \in [0..n -> Handler] /\ t[0] = z /\ TakeAll(z, ps) = t[n]
        /\ \A i \in 0..(n - 1) : t[i + 1] = Take(t[i], ps[i + 1])
    BY <1>2, <1>3, Zenon DEF Loop
  <1> DEFINE S == {i \in 0..n : /\ t[i].taken = SubSeq(fs, 1, a + i)
                                /\ t[i].stop => i > 0 /\ fs[a + i].op = CLOSE}
  <1>5. 0 \in S
    BY <1>1, <1>4
  <1>6. ASSUME NEW i \in 0..(n - 1), i \in S PROVE i + 1 \in S
    <2>1. /\ i \in 0..n /\ i + 1 \in 0..n /\ i + 1 \in 1..n /\ a + i \in Nat
          /\ a + i < Len(fs) /\ a + (i + 1) = (a + i) + 1
      BY <1>1
    <2>2. t[i].taken = SubSeq(fs, 1, a + i) /\ t[i] \in Handler
      BY <1>4, <1>6, <2>1
    <2>3. ~t[i].stop
      <3> SUFFICES ASSUME i > 0 PROVE fs[a + i].op # CLOSE
        BY <1>6
      <3>1. a + i \in 1..(Len(fs) - 1)
        BY <1>1, <2>1
      <3> QED BY <3>1 DEF NoneAfterClose
    <2>4. t[i + 1] = Take(t[i], ps[i + 1]) /\ ps[i + 1] = fs[a + (i + 1)]
      BY <1>2, <1>4, <2>1
    <2>5. ps[i + 1] \in ClientFrames
      BY <1>h, <2>1
    <2>6. TakesFrom(t[i + 1], t[i], ps[i + 1])
      BY <2>2, <2>3, <2>4, <2>5, TakeIs
    <2>7. t[i + 1].taken = Append(SubSeq(fs, 1, a + i), fs[(a + i) + 1])
      BY <2>1, <2>2, <2>4, <2>6 DEF TakesFrom
    <2>8. Append(SubSeq(fs, 1, a + i), fs[(a + i) + 1]) = SubSeq(fs, 1, (a + i) + 1)
      <3> DEFINE q == a + i
      <3>1. q \in Nat /\ 0 <= q /\ q < Len(fs)
        BY <2>1
      <3> HIDE DEF q
      <3>2. Append(SubSeq(fs, 0 + 1, q), fs[q + 1]) = SubSeq(fs, 0 + 1, q + 1)
        BY <3>1, PieceGrows
      <3>3. 0 + 1 = 1
        OBVIOUS
      <3> QED BY <3>2, <3>3 DEF q
    <2>9. t[i + 1].stop => fs[a + (i + 1)].op = CLOSE
      BY <2>4, <2>6 DEF TakesFrom
    <2>10. t[i + 1].taken = SubSeq(fs, 1, a + (i + 1))
      BY <2>1, <2>7, <2>8
    <2>11. i + 1 > 0
      BY <2>1
    <2> QED BY <2>1, <2>9, <2>10, <2>11
  <1>7. n \in S
    <2>1. \A i \in 0..(n - 1) : i \in S => i + 1 \in S
      BY <1>6
    <2> HIDE DEF S
    <2>2. 0..n \subseteq S
      BY <1>1, <1>5, <2>1, IntervalInduction
    <2> QED BY <1>1, <2>2
  <1>8. t[n].taken = SubSeq(fs, 1, M)
    BY <1>1, <1>7
  <1>9. t[n] \in Handler
    <2>1. n \in 0..n
      BY <1>1
    <2> QED BY <1>4, <2>1
  <1> QED BY <1>4, <1>8, <1>9 DEF ps

-----------------------------------------------------------------------------
(* The session.                                                            *)

\* k bytes have arrived, and with them m frames to the end.
ArrivedTo(m, k) ==
    LET X == Stream(sent)
        o == Ends(sent)
    IN  /\ k \in 0..Len(X) /\ Reached(o, Len(sent), m, k)
        /\ taken = SubSeq(sent, 1, m)
        /\ buf = SubSeq(X, o[m] + 1, k)
        /\ pipe = SubSeq(X, k + 1, Len(X))

SessionTypes ==
    /\ sent \in Seq(ClientFrames) /\ NoneAfterClose(sent)
    /\ told \in Seq(Shown) /\ chunkDue \in Seq(Nat) /\ replyDue \in Seq(Nat)
    /\ dropsDue \in Nat

SessionInv == SessionTypes /\ \E m, k : ArrivedTo(m, k)

LEMMA SessionInit == Init => SessionInv
  <1> SUFFICES ASSUME Init PROVE SessionInv
    OBVIOUS
  <1>1. /\ sent = <<>> /\ pipe = <<>> /\ buf = <<>> /\ taken = <<>>
        /\ chunkDue = <<>> /\ replyDue = <<>> /\ dropsDue = 0 /\ told = <<>>
    BY DEF Init
  <1>2. sent \in Seq(ClientFrames) /\ Len(sent) = 0
    BY <1>1
  <1>3. SessionTypes
    BY <1>1, <1>2 DEF SessionTypes, NoneAfterClose
  <1> DEFINE X == Stream(sent)
             o == Ends(sent)
  <1>4. Framed(X, o, sent)
    BY <1>2, StreamFramed
  <1> HIDE DEF X, o
  <1>5. X \in Seq(Nat) /\ o[0] = 0 /\ Len(X) = 0
    BY <1>2, <1>4 DEF Framed
  <1>6. 0 \in 0..Len(X) /\ Reached(o, Len(sent), 0, 0)
    BY <1>2, <1>5 DEF Reached
  <1>7. SubSeq(sent, 1, 0) = <<>> /\ SubSeq(X, 1, 0) = <<>> /\ 0 + 1 = 1
    BY SubSeqEmpty
  <1>8. ArrivedTo(0, 0)
    BY <1>1, <1>5, <1>6, <1>7 DEF ArrivedTo, X, o
  <1> QED BY <1>3, <1>8 DEF SessionInv

LEMMA StreamFacts ==
    ASSUME NEW fs \in Seq(ClientFrames)
    PROVE  /\ Stream(fs) \in Seq(Nat) /\ Ends(fs) \in [0..Len(fs) -> Nat]
           /\ Ends(fs)[0] = 0 /\ Ends(fs)[Len(fs)] = Len(Stream(fs))
           /\ \A i \in 1..Len(fs) : Ends(fs)[i - 1] + 2 <= Ends(fs)[i]
           /\ \A i \in 0..Len(fs) : Ends(fs)[i] <= Len(Stream(fs))
  <1> DEFINE X == Stream(fs)
             o == Ends(fs)
             N == Len(fs)
  <1>1. Framed(X, o, fs)
    BY StreamFramed
  <1> HIDE DEF X, o
  <1>2. /\ X \in Seq(Nat) /\ o \in [0..N -> Nat] /\ o[0] = 0 /\ o[N] = Len(X)
        /\ \A i \in 1..N : o[i - 1] + 2 <= o[i]
    BY <1>1 DEF Framed
  <1>3. ASSUME NEW i \in 0..N PROVE o[i] <= Len(X)
    <2>1. N \in Nat /\ N \in i..N
      OBVIOUS
    <2> HIDE DEF N
    <2>2. o[i] + (N - i) * 2 <= o[N]
      BY <1>2, <2>1, EndsGrow
    <2>3. o[i] \in Nat /\ o[N] \in Nat /\ N - i \in Nat
      BY <1>2, <2>1
    <2> QED BY <1>2, <2>2, <2>3
  <1> QED BY <1>2, <1>3 DEF X, o

(* A frame is sent: its bytes are under way behind the others.             *)
LEMMA SendKeeps ==
    ASSUME SessionInv, NEW f \in ClientFrames, ClientSends(f)
    PROVE  SessionInv'
  <1> DEFINE X == Stream(sent)
             o == Ends(sent)
             N == Len(sent)
             e == Masked(f.op, f.payload, Mask)
             Y == X \o e
             r == Ends(sent')
  <1>1. PICK m, k : ArrivedTo(m, k)
    BY DEF SessionInv
  <1>2. SessionTypes
    BY DEF SessionInv
  <1>3. sent \in Seq(ClientFrames) /\ N \in Nat
    BY <1>2 DEF SessionTypes
  <1>4. /\ sent' = Append(sent, f) /\ pipe' = pipe \o e
        /\ taken' = taken /\ buf' = buf
        /\ told' = told /\ chunkDue' = chunkDue /\ replyDue' = replyDue /\ dropsDue' = dropsDue
        /\ \A i \in DOMAIN sent : sent[i].op # CLOSE
    BY DEF ClientSends
  <1>5. sent' \in Seq(ClientFrames) /\ Len(sent') = N + 1 /\ \A i \in 1..N : sent'[i] = sent[i]
    BY <1>3, <1>4
  <1>6. SessionTypes'
    <2>1. NoneAfterClose(sent')
      BY <1>3, <1>4, <1>5 DEF NoneAfterClose
    <2>2. /\ told \in Seq(Shown) /\ chunkDue \in Seq(Nat) /\ replyDue \in Seq(Nat)
          /\ dropsDue \in Nat
      BY <1>2 DEF SessionTypes
    <2> QED BY <1>4, <1>5, <2>1, <2>2 DEF SessionTypes
  <1>7. Codes(e, f)
    BY MaskedCodes
  <1> HIDE DEF e, N
  <1>8. e \in Seq(Nat) /\ Len(e) \in Nat /\ Len(e) >= 2
    BY <1>7 DEF Codes
  <1>9. Stream(sent') = Y /\ \A i \in 0..N : r[i] = o[i]
    BY <1>3, <1>4, StreamAppend DEF e, N
  <1>10. /\ X \in Seq(Nat) /\ o \in [0..N -> Nat] /\ o[N] = Len(X) /\ Len(X) \in Nat
         /\ \A i \in 0..N : o[i] <= Len(X)
    BY <1>3, StreamFacts DEF N
  <1>11. r[N + 1] = Len(Y)
    <2>1. Ends(sent')[Len(sent')] = Len(Stream(sent'))
      BY <1>5, StreamFacts
    <2> QED BY <1>5, <1>9, <2>1
  <1> HIDE DEF r
  <1>12. /\ k \in 0..Len(X) /\ m \in 0..N /\ o[m] <= k /\ (m < N => k < o[m + 1])
         /\ taken = SubSeq(sent, 1, m) /\ buf = SubSeq(X, o[m] + 1, k)
         /\ pipe = SubSeq(X, k + 1, Len(X))
    BY <1>1, Zenon DEF ArrivedTo, Reached, N
  <1> HIDE DEF o
  <1>13. Y \in Seq(Nat) /\ Len(Y) = Len(X) + Len(e)
    <2>1. Joins(Y, Nat, X, e)
      <3> HIDE DEF X
      <3> QED BY <1>8, <1>10, ConcatJoins
    <2> QED BY <2>1 DEF Joins
  <1>14. /\ k \in Nat /\ k <= Len(X) /\ m \in Nat /\ m <= N /\ o[m] \in Nat /\ k <= Len(Y)
         /\ k \in 0..Len(Y) /\ m \in 0..(N + 1) /\ Len(Y) \in Nat
    <2> DEFINE x == Len(X)
               y == Len(Y)
    <2>1. x \in Nat /\ k \in 0..x /\ m \in 0..N /\ y = x + Len(e)
      BY <1>10, <1>12, <1>13
    <2>2. o[m] \in Nat
      BY <1>10, <1>12
    <2> HIDE DEF x, y
    <2>3. k \in Nat /\ k <= x /\ k <= y /\ k \in 0..y /\ y \in Nat
      BY <1>8, <2>1
    <2>4. m \in Nat /\ m <= N /\ m \in 0..(N + 1)
      BY <1>3, <2>1
    <2> QED BY <2>2, <2>3, <2>4 DEF x, y
  <1>15. SubSeq(Y, r[m] + 1, k) = buf
    <2> DEFINE p == o[m]
    <2>1. p \in Nat /\ p <= k
      BY <1>12, <1>14
    <2> HIDE DEF p, X
    <2>2. SubSeq(X \o e, p + 1, k) = SubSeq(X, p + 1, k)
      BY <1>8, <1>10, <1>14, <2>1, PieceOfConcat
    <2> QED BY <1>9, <1>12, <2>2 DEF p
  <1>16. SubSeq(Y, k + 1, Len(Y)) = pipe \o e
    <2> HIDE DEF X
    <2>1. SubSeq(X \o e, k + 1, Len(X \o e)) = SubSeq(X, k + 1, Len(X)) \o e
      BY <1>8, <1>10, <1>14, RestOfConcat
    <2> QED BY <1>12, <2>1
  <1>17. SubSeq(sent', 1, m) = taken
    <2>1. sent' = sent \o <<f>>
      BY <1>3, <1>4, AppendIsConcat
    <2>2. <<f>> \in Seq(ClientFrames)
      OBVIOUS
    <2> DEFINE y == <<f>>
    <2>3. y \in Seq(ClientFrames) /\ m <= Len(sent) /\ 0 <= m
      BY <1>14, <2>2 DEF N
    <2> HIDE DEF y
    <2>4. SubSeq(sent \o y, 0 + 1, m) = SubSeq(sent, 0 + 1, m)
      BY <1>3, <1>14, <2>3, PieceOfConcat
    <2>5. 0 + 1 = 1
      OBVIOUS
    <2>6. SubSeq(sent', 1, m) = SubSeq(sent, 1, m)
      BY <2>1, <2>4, <2>5 DEF y
    <2> QED BY <1>12, <2>6
  <1>18. Reached(r, N + 1, m, k)
    <2>1. r[m] <= k
      BY <1>9, <1>12
    <2>2. CASE m < N
      <3>1. m + 1 \in 0..N
        BY <1>3, <1>14, <2>2
      <3>2. k < r[m + 1]
        BY <1>9, <1>12, <2>2, <3>1
      <3> QED BY <1>14, <2>1, <3>2 DEF Reached
    <2>3. CASE m = N
      <3> DEFINE x == Len(X)
                 y == Len(Y)
      <3>1. x \in Nat /\ y = x + Len(e) /\ k <= x
        BY <1>10, <1>13, <1>14
      <3>2. r[m + 1] = y
        BY <1>11, <2>3
      <3> HIDE DEF x, y
      <3>3. k < y
        BY <1>8, <1>14, <3>1
      <3>4. k < r[m + 1]
        BY <3>2, <3>3
      <3> QED BY <1>14, <2>1, <3>4 DEF Reached
    <2>4. m < N \/ m = N
      BY <1>3, <1>14
    <2> QED BY <2>2, <2>3, <2>4, Zenon
  <1>19. ArrivedTo(m, k)'
    <2>1. /\ taken' = SubSeq(sent', 1, m) /\ buf' = SubSeq(Stream(sent'), Ends(sent')[m] + 1, k)
          /\ pipe' = SubSeq(Stream(sent'), k + 1, Len(Stream(sent')))
      BY <1>4, <1>9, <1>15, <1>16, <1>17 DEF r
    <2>2. k \in 0..Len(Stream(sent')) /\ Reached(Ends(sent'), Len(sent'), m, k)
      BY <1>5, <1>9, <1>14, <1>18 DEF r
    <2> QED BY <2>1, <2>2 DEF ArrivedTo
  <1> QED BY <1>6, <1>19 DEF SessionInv

(* A chunk arrives: the frames that end in it are taken.                   *)
\* What the data handler starts from.
Now == [taken |-> taken, told |-> told, chunkDue |-> chunkDue, replyDue |-> replyDue,
        drops |-> dropsDue, open |-> state = "open", stop |-> FALSE]

\* A data event took the frames fs.
Handled(fs) ==
    LET s == TakeAll(Now, fs)
    IN  /\ Now \in Handler /\ s \in Handler
        /\ taken' = s.taken /\ told' = s.told
        /\ chunkDue' = s.chunkDue /\ replyDue' = s.replyDue
        /\ state' = IF s.open THEN "open" ELSE "ended"

LEMMA DataKeeps ==
    ASSUME SessionInv, NEW j \in 1..Len(pipe), Data(j)
    PROVE  SessionInv' /\ \E fs \in Seq(ClientFrames) : Handled(fs)
  <1> DEFINE X == Stream(sent)
             o == Ends(sent)
             N == Len(sent)
             z == Now
  <1>1. PICK m, k : ArrivedTo(m, k)
    BY DEF SessionInv
  <1>2. SessionTypes
    BY DEF SessionInv
  <1>3. sent \in Seq(ClientFrames) /\ N \in Nat /\ NoneAfterClose(sent)
    BY <1>2 DEF SessionTypes
  <1>4. /\ X \in Seq(Nat) /\ o \in [0..N -> Nat] /\ Len(X) \in Nat
    BY <1>3, StreamFacts
  <1>5. Framed(X, o, sent)
    BY <1>3, StreamFramed
  <1> HIDE DEF N
  <1>6. /\ k \in 0..Len(X) /\ m \in 0..N /\ o[m] <= k
        /\ taken = SubSeq(sent, 1, m) /\ buf = SubSeq(X, o[m] + 1, k)
        /\ pipe = SubSeq(X, k + 1, Len(X))
    BY <1>1, Zenon DEF ArrivedTo, Reached, N
  <1> HIDE DEF X, o
  <1>7. k \in Nat /\ k <= Len(X) /\ o[m] \in Nat /\ j \in Nat
    <2>1. o[m] \in Nat
      BY <1>4, <1>6
    <2>2. k \in Nat /\ k <= Len(X)
      BY <1>4, <1>6
    <2>3. j \in Nat
      OBVIOUS
    <2> QED BY <2>1, <2>2, <2>3
  <1>8. Len(pipe) = Len(X) - k /\ j >= 1 /\ k + j <= Len(X)
    <2>1. Piece(SubSeq(X, k + 1, Len(X)), X, Nat, k, Len(X))
      BY <1>4, <1>7, PieceIs
    <2>2. Len(pipe) = Len(X) - k
      BY <1>6, <2>1 DEF Piece
    <2> QED BY <1>4, <1>7, <2>2
  <1> DEFINE l == k + j
             b == SubSeq(X, o[m] + 1, l)
  <1>9. l \in Nat /\ l \in 0..Len(X) /\ k <= l /\ o[m] <= l
    BY <1>4, <1>6, <1>7, <1>8
  <1>10. buf \o SubSeq(pipe, 1, j) = b
    <2>1. SubSeq(SubSeq(X, k + 1, Len(X)), 1, j) = SubSeq(X, k + 1, k + j)
      BY <1>4, <1>7, <1>8, PrefixOfPiece
    <2> DEFINE p == o[m]
    <2>2. p \in Nat /\ p <= k
      BY <1>6, <1>7
    <2>3. l <= Len(X)
      BY <1>8
    <2> HIDE DEF p, l
    <2>4. SubSeq(X, p + 1, k) \o SubSeq(X, k + 1, l) = SubSeq(X, p + 1, l)
      BY <1>4, <1>7, <1>9, <2>2, <2>3, PiecesJoin
    <2> QED BY <1>6, <2>1, <2>4 DEF p, l
  <1>11. SubSeq(pipe, j + 1, Len(pipe)) = SubSeq(X, l + 1, Len(X))
    <2> DEFINE y == Len(X)
    <2>1. y \in Nat /\ y <= Len(X) /\ k <= y /\ k + j <= y
      BY <1>4, <1>7, <1>8
    <2> HIDE DEF y
    <2>2. SubSeq(SubSeq(X, k + 1, y), j + 1, y - k) = SubSeq(X, k + j + 1, y)
      BY <1>4, <1>7, <2>1, PieceOfPiece
    <2> QED BY <1>6, <1>8, <2>2 DEF y
  <1> HIDE DEF l
  <1>12. PICK M \in m..N : Reached(o, N, M, l)
    BY <1>3, <1>4, <1>6, <1>9, SomeReached
  <1> DEFINE p == wsParse(b)
             s == TakeAll(z, p.frames)
  <1>13. p = [frames |-> SubSeq(sent, m + 1, M), rest |-> SubSeq(X, o[M] + 1, l)]
    <2>1. m \in 0..Len(sent) /\ M \in m..Len(sent) /\ Reached(o, Len(sent), M, l)
      BY <1>6, <1>12 DEF N
    <2> QED BY <1>3, <1>5, <1>9, <2>1, Parsed
  <1>14. z \in Handler /\ ~z.stop /\ z.taken = SubSeq(sent, 1, m)
    <2>1. taken \in Seq(ClientFrames)
      <3>1. m \in Nat /\ m <= Len(sent) /\ 0 <= m
        BY <1>3, <1>6 DEF N
      <3>2. Piece(SubSeq(sent, 0 + 1, m), sent, ClientFrames, 0, m)
        BY <1>3, <3>1, PieceIs
      <3>3. SubSeq(sent, 1, m) \in Seq(ClientFrames)
        BY <3>2 DEF Piece
      <3> QED BY <1>6, <3>3
    <2>2. /\ told \in Seq(Shown) /\ chunkDue \in Seq(Nat) /\ replyDue \in Seq(Nat)
          /\ dropsDue \in Nat
      BY <1>2 DEF SessionTypes
    <2>3. (state = "open") \in BOOLEAN
      OBVIOUS
    <2> QED BY <1>6, <2>1, <2>2, <2>3 DEF Handler, Now
  <1> HIDE DEF z
  <1>15. s \in Handler /\ s.taken = SubSeq(sent, 1, M)
    <2>1. m \in 0..Len(sent) /\ M \in m..Len(sent)
      BY <1>6, <1>12 DEF N
    <2> DEFINE fs == SubSeq(sent, m + 1, M)
    <2>2. TakeAll(z, fs) \in Handler /\ TakeAll(z, fs).taken = SubSeq(sent, 1, M)
      BY <1>3, <1>14, <2>1, TakeAllIs
    <2>3. s = TakeAll(z, fs)
      <3> HIDE DEF fs, b
      <3> QED BY <1>13 DEF fs
    <2> QED BY <2>2, <2>3
  <1>16. /\ pipe' = SubSeq(pipe, j + 1, Len(pipe)) /\ buf' = p.rest
         /\ taken' = s.taken /\ told' = s.told
         /\ chunkDue' = s.chunkDue /\ replyDue' = s.replyDue /\ dropsDue' = s.drops
         /\ sent' = sent /\ state' = IF s.open THEN "open" ELSE "ended"
    <2>1. p = wsParse(buf \o SubSeq(pipe, 1, j))
      BY <1>10
    <2> HIDE DEF p
    <2> QED BY <2>1, Zenon DEF Data, RestOf, z, Now
  <1> HIDE DEF s, p
  <1>17. SessionTypes'
    <2>1. /\ s.told \in Seq(Shown) /\ s.chunkDue \in Seq(Nat) /\ s.replyDue \in Seq(Nat)
          /\ s.drops \in Nat
      BY <1>15 DEF Handler
    <2> QED BY <1>3, <1>16, <2>1 DEF SessionTypes
  <1>18. ArrivedTo(M, l)'
    <2>1. p.rest = SubSeq(X, o[M] + 1, l)
      BY <1>13
    <2>2. /\ taken' = SubSeq(sent, 1, M) /\ buf' = SubSeq(X, o[M] + 1, l)
          /\ pipe' = SubSeq(X, l + 1, Len(X))
      BY <1>11, <1>15, <1>16, <2>1
    <2>3. Stream(sent') = X /\ Ends(sent') = o /\ Len(sent') = N /\ sent' = sent
      BY <1>16 DEF X, o, N
    <2> QED BY <1>9, <1>12, <2>2, <2>3 DEF ArrivedTo
  <1>19. \E fs \in Seq(ClientFrames) : Handled(fs)
    <2> DEFINE fs == SubSeq(sent, m + 1, M)
    <2>1. p.frames = fs
      <3> HIDE DEF fs
      <3> QED BY <1>13 DEF fs
    <2>2. fs \in Seq(ClientFrames)
      <3>1. m \in Nat /\ M \in Nat /\ m <= M /\ M <= Len(sent)
        BY <1>3, <1>6, <1>12 DEF N
      <3>2. Piece(fs, sent, ClientFrames, m, M)
        BY <1>3, <3>1, PieceIs
      <3> HIDE DEF fs
      <3> QED BY <3>2 DEF Piece
    <2> HIDE DEF fs
    <2>3. s = TakeAll(Now, fs)
      BY <2>1 DEF s, z
    <2>4. Now \in Handler
      BY <1>14 DEF z
    <2>5. Handled(fs)
      BY <1>15, <1>16, <2>3, <2>4, Zenon DEF Handled
    <2> QED BY <2>2, <2>5
  <1> QED BY <1>17, <1>18, <1>19 DEF SessionInv

-----------------------------------------------------------------------------
(* The other steps of the session.                                         *)

\* Nothing that the frames depend on moves.
Still == UNCHANGED <<sent, pipe, buf, taken>>

LEMMA StillKeeps ==
    ASSUME Still, \E m, k : ArrivedTo(m, k)
    PROVE  \E m, k : ArrivedTo(m, k)'
  <1>1. PICK m, k : ArrivedTo(m, k)
    OBVIOUS
  <1>2. sent' = sent /\ pipe' = pipe /\ buf' = buf /\ taken' = taken
    BY DEF Still
  <1>3. ArrivedTo(m, k)'
    BY <1>1, <1>2 DEF ArrivedTo
  <1> QED BY <1>3

LEMMA LateIs ==
    ASSUME NEW kind \in {"chunk", "reply"}, NEW to \in Nat, told \in Seq(Shown), Late(kind, to)
    PROVE  told' \in Seq(Shown)
  <1>1. Text(kind, to) \in Shown
    BY TextIs
  <1>2. Append(told, Text(kind, to)) \in Seq(Shown)
    BY <1>1, AppendFacts
  <1> QED BY <1>2 DEF Late

LEMMA TimersKeep ==
    ASSUME SessionInv, ChunkTimer \/ ReplyTimer \/ DropTimer \/ SocketCloses
    PROVE  SessionInv'
  <1>1. /\ SessionTypes /\ \E m, k : ArrivedTo(m, k)
    BY DEF SessionInv
  <1>2. /\ sent \in Seq(ClientFrames) /\ NoneAfterClose(sent)
        /\ told \in Seq(Shown) /\ chunkDue \in Seq(Nat) /\ replyDue \in Seq(Nat)
        /\ dropsDue \in Nat
    BY <1>1 DEF SessionTypes
  <1>3. Still
    <2>1. CASE ChunkTimer
      BY <2>1, Zenon DEF ChunkTimer, Still
    <2>2. CASE ReplyTimer
      BY <2>2, Zenon DEF ReplyTimer, Still
    <2>3. CASE DropTimer
      BY <2>3, Zenon DEF DropTimer, Still
    <2>4. CASE SocketCloses
      BY <2>4, Zenon DEF SocketCloses, Still
    <2> QED BY <2>1, <2>2, <2>3, <2>4
  <1>4. /\ told' \in Seq(Shown) /\ chunkDue' \in Seq(Nat) /\ replyDue' \in Seq(Nat)
        /\ dropsDue' \in Nat
    <2>1. CASE ChunkTimer
      <3>1. /\ chunkDue # <<>> /\ Late("chunk", Head(chunkDue)) /\ chunkDue' = Tail(chunkDue)
            /\ replyDue' = replyDue /\ dropsDue' = dropsDue
        BY <2>1 DEF ChunkTimer
      <3>2. Head(chunkDue) \in Nat /\ Tail(chunkDue) \in Seq(Nat)
        BY <1>2, <3>1, TailFacts
      <3>3. told' \in Seq(Shown)
        BY <1>2, <3>1, <3>2, LateIs
      <3> QED BY <1>2, <3>1, <3>2, <3>3
    <2>2. CASE ReplyTimer
      <3>1. /\ replyDue # <<>> /\ Late("reply", Head(replyDue)) /\ replyDue' = Tail(replyDue)
            /\ chunkDue' = chunkDue /\ dropsDue' = dropsDue
        BY <2>2 DEF ReplyTimer
      <3>2. Head(replyDue) \in Nat /\ Tail(replyDue) \in Seq(Nat)
        BY <1>2, <3>1, TailFacts
      <3>3. told' \in Seq(Shown)
        BY <1>2, <3>1, <3>2, LateIs
      <3> QED BY <1>2, <3>1, <3>2, <3>3
    <2>3. CASE DropTimer
      <3>1. /\ dropsDue > 0 /\ dropsDue' = dropsDue - 1
            /\ told' = told /\ chunkDue' = chunkDue /\ replyDue' = replyDue
        BY <2>3 DEF DropTimer
      <3>2. dropsDue' \in Nat
        BY <1>2, <3>1
      <3> QED BY <1>2, <3>1, <3>2
    <2>4. CASE SocketCloses
      <3>1. /\ dropsDue' = dropsDue
            /\ told' = told /\ chunkDue' = chunkDue /\ replyDue' = replyDue
        BY <2>4 DEF SocketCloses
      <3> QED BY <1>2, <3>1
    <2> QED BY <2>1, <2>2, <2>3, <2>4
  <1>5. \E m, k : ArrivedTo(m, k)'
    BY <1>1, <1>3, StillKeeps
  <1>6. SessionTypes'
    BY <1>2, <1>3, <1>4 DEF SessionTypes, Still
  <1> QED BY <1>5, <1>6 DEF SessionInv

(* No step of the session undoes it.                                       *)
LEMMA SessionStep ==
    ASSUME SessionInv, Next \/ UNCHANGED sessionVars
    PROVE  SessionInv'
  <1>1. ASSUME NEW f \in ClientFrames, ClientSends(f) PROVE SessionInv'
    BY <1>1, SendKeeps
  <1>2. ASSUME NEW j \in 1..Len(pipe), Data(j) PROVE SessionInv'
    BY <1>2, DataKeeps
  <1>3. CASE ChunkTimer \/ ReplyTimer \/ DropTimer \/ SocketCloses
    BY <1>3, TimersKeep
  <1>4. CASE UNCHANGED sessionVars
    <2>1. /\ sent' = sent /\ told' = told /\ chunkDue' = chunkDue /\ replyDue' = replyDue
          /\ dropsDue' = dropsDue /\ Still
      BY <1>4, Zenon DEF sessionVars, Still
    <2>2. SessionTypes /\ \E m, k : ArrivedTo(m, k)
      BY DEF SessionInv
    <2>3. \E m, k : ArrivedTo(m, k)'
      BY <2>1, <2>2, StillKeeps
    <2>4. SessionTypes'
      BY <2>1, <2>2 DEF SessionTypes
    <2> QED BY <2>3, <2>4 DEF SessionInv
  <1> QED BY <1>1, <1>2, <1>3, <1>4, Zenon DEF Next

-----------------------------------------------------------------------------
(* What the invariant says of the frames.                                  *)

LEMMA ArrivedIs ==
    ASSUME SessionTypes, NEW m, NEW k, ArrivedTo(m, k)
    PROVE  Arrived = m
  <1> DEFINE X == Stream(sent)
             o == Ends(sent)
             N == Len(sent)
  <1>1. sent \in Seq(ClientFrames) /\ N \in Nat
    BY DEF SessionTypes
  <1>2. /\ X \in Seq(Nat) /\ o \in [0..N -> Nat] /\ Len(X) \in Nat
        /\ \A i \in 1..N : o[i - 1] + 2 <= o[i]
    BY <1>1, StreamFacts
  <1>3. /\ k \in 0..Len(X) /\ m \in 0..N /\ o[m] <= k /\ (m < N => k < o[m + 1])
        /\ pipe = SubSeq(X, k + 1, Len(X))
    BY Zenon DEF ArrivedTo, Reached
  <1>4. \A i \in 1..N : Len(Stream(SubSeq(sent, 1, i))) = o[i]
    BY <1>1 DEF Ends
  <1>5. DOMAIN sent = 1..N
    BY <1>1
  <1> DEFINE x == Len(X)
  <1>6. Len(pipe) = x - k /\ x \in Nat /\ k \in Nat
    <2>1. k \in Nat /\ k <= Len(X) /\ Len(X) <= Len(X)
      BY <1>2, <1>3
    <2> HIDE DEF X
    <2>2. Piece(SubSeq(X, k + 1, Len(X)), X, Nat, k, Len(X))
      BY <1>2, <2>1, PieceIs
    <2>3. Len(pipe) = Len(X) - k
      BY <1>3, <2>2 DEF Piece
    <2> QED BY <1>2, <2>1, <2>3
  <1> DEFINE p == Len(pipe)
  <1>7. Arrived = Cardinality({i \in 1..N : o[i] + p <= x})
    <2>1. {i \in DOMAIN sent : Len(Stream(SubSeq(sent, 1, i))) + Len(pipe) <= Len(Stream(sent))}
            = {i \in 1..N : o[i] + p <= x}
      <3> HIDE DEF o
      <3> QED BY <1>4, <1>5, Zenon
    <2> QED BY <2>1, Zenon DEF Arrived
  <1> HIDE DEF N, x, p, o
  <1>8. m \in Nat /\ m <= N
    BY <1>1, <1>3 DEF N
  <1>9. ASSUME NEW i \in 1..N PROVE o[i] + p <= x <=> i <= m
    <2>1. o[i] \in Nat /\ o[m] \in Nat
      BY <1>2, <1>3
    <2>2. o[i] + p <= x <=> o[i] <= k
      BY <1>6, <2>1 DEF p
    <2>3. ASSUME i <= m PROVE o[i] <= k
      <3>1. i \in 0..N /\ m \in i..N
        BY <1>1, <1>8, <2>3
      <3>2. o[i] + (m - i) * 2 <= o[m]
        BY <1>1, <1>2, <3>1, EndsGrow
      <3> QED BY <1>3, <1>6, <1>8, <2>1, <2>3, <3>2
    <2>4. ASSUME ~(i <= m) PROVE ~(o[i] <= k)
      <3>1. m < N /\ m + 1 \in 0..N /\ i \in (m + 1)..N
        BY <1>1, <1>8, <2>4
      <3>2. o[m + 1] + (i - (m + 1)) * 2 <= o[i]
        BY <1>1, <1>2, <3>1, EndsGrow
      <3>3. k < o[m + 1] /\ o[m + 1] \in Nat
        BY <1>2, <1>3, <3>1
      <3> QED BY <1>6, <1>8, <2>1, <3>1, <3>2, <3>3
    <2> QED BY <2>2, <2>3, <2>4
  <1>10. {i \in 1..N : o[i] + p <= x} = 1..m
    <2>1. \A i : i \in 1..N /\ i <= m <=> i \in 1..m
      BY <1>1, <1>8
    <2> QED BY <1>9, <2>1
  <1>11. Cardinality(1..m) = m
    BY <1>8, FS_Interval
  <1> QED BY <1>7, <1>10, <1>11

(* What is written comes apart into what was meant.                        *)
LEMMA OutputParsed ==
    ASSUME told \in Seq(Shown)
    PROVE  wsParse(Output) =
              [frames |-> [i \in DOMAIN told |-> [op |-> told[i].op, payload |-> told[i].payload]],
               rest |-> <<>>]
  <1> DEFINE N == Len(told)
             F == [op : 0..15, payload : Payloads]
             fs == [i \in DOMAIN told |-> [op |-> told[i].op, payload |-> told[i].payload]]
             es == [i \in DOMAIN told |-> wsFrame(told[i].op, told[i].payload)]
  <1>1. N \in Nat /\ DOMAIN told = 1..N
    OBVIOUS
  <1>2. ASSUME NEW i \in 1..N
        PROVE  /\ told[i].op \in 0..15 /\ told[i].payload \in Payloads
    <2>1. told[i] \in Shown
      OBVIOUS
    <2>2. told[i].op \in {TEXT, CLOSE, PONG} /\ told[i].payload \in Payloads
      BY <2>1 DEF Shown
    <2> QED BY <2>2 DEF TEXT, CLOSE, PONG
  <1>3. fs \in Seq(F) /\ Len(fs) = N /\ \A i \in 1..N : fs[i] = [op |-> told[i].op, payload |-> told[i].payload]
    <2>1. \A i \in 1..N : [op |-> told[i].op, payload |-> told[i].payload] \in F
      BY <1>2
    <2> HIDE DEF N, F
    <2> QED BY <1>1, <2>1
  <1>4. \A i \in 1..N : Codes(wsFrame(told[i].op, told[i].payload), fs[i])
    <2> SUFFICES ASSUME NEW i \in 1..N PROVE Codes(wsFrame(told[i].op, told[i].payload), fs[i])
      OBVIOUS
    <2> DEFINE c == told[i].op
               p == told[i].payload
    <2>1. c \in 0..15 /\ p \in Seq(Nat) /\ Len(p) < Base * Base
      BY <1>2, Zenon DEF Payloads
    <2>2. fs[i] = [op |-> c, payload |-> p]
      BY <1>3
    <2> HIDE DEF c, p, fs
    <2>3. Codes(wsFrame(c, p), [op |-> c, payload |-> p])
      BY <2>1, ServerCodes
    <2> QED BY <2>2, <2>3 DEF c, p
  <1>5. es \in Seq(Seq(Nat)) /\ Len(es) = N /\ \A i \in 1..N : Codes(es[i], fs[i])
    <2> DEFINE w(i) == wsFrame(told[i].op, told[i].payload)
               V == Seq(Nat)
    <2>1. es = [i \in 1..N |-> w(i)]
      BY <1>1
    <2>2. \A i \in 1..N : Codes(w(i), fs[i])
      BY <1>4
    <2> HIDE DEF w, fs, es
    <2>3. \A i \in 1..N : w(i) \in V
      BY <2>2 DEF Codes
    <2> HIDE DEF V, N
    <2>4. es \in Seq(V) /\ Len(es) = N /\ \A i \in 1..N : es[i] = w(i)
      BY <1>1, <2>1, <2>3
    <2> QED BY <2>2, <2>4 DEF V
  <1>6. Output = FlattenSeq(es)
    BY Zenon DEF Output
  <1> HIDE DEF fs, es, N, F
  <1>7. PICK h : RunningConcat(h, Nat, es)
    BY <1>5, FlattenPrefixes
  <1> DEFINE X == h[N]
             o == [i \in 0..N |-> Len(h[i])]
  <1>8. Framed(X, o, fs)
    <2>1. Framed(h[Len(fs)], [i \in 0..Len(fs) |-> Len(h[i])], fs)
      BY <1>3, <1>5, <1>7, FramedIf
    <2> QED BY <1>3, <2>1
  <1>9. X = Output
    <2>1. FlattenSeq(SubSeq(es, 1, N)) = h[N]
      <3>1. N \in 0..Len(es)
        BY <1>1, <1>5
      <3> QED BY <1>5, <1>7, <3>1, Zenon DEF RunningConcat
    <2>2. SubSeq(es, 1, N) = es
      BY <1>5, SubSeqFull
    <2> QED BY <1>6, <2>1, <2>2
  <1> HIDE DEF X, o
  <1>10. X \in Seq(Nat) /\ o[0] = 0 /\ o[N] = Len(X) /\ Len(X) \in Nat
    BY <1>3, <1>8 DEF Framed
  <1>11. wsParse(SubSeq(X, o[0] + 1, Len(X))) =
            [frames |-> SubSeq(fs, 0 + 1, N), rest |-> SubSeq(X, o[N] + 1, Len(X))]
    <2>1. 0 \in 0..N /\ N \in 0..N /\ Len(X) \in 0..Len(X) /\ o[N] <= Len(X)
      BY <1>1, <1>10
    <2>2. Reached(o, N, N, Len(X))
      BY <1>1, <2>1 DEF Reached
    <2>3. /\ Len(fs) = N /\ fs \in Seq(F) /\ 0 \in 0..Len(fs) /\ N \in 0..Len(fs)
          /\ Reached(o, Len(fs), N, Len(X))
      BY <1>3, <2>1, <2>2
    <2> DEFINE k == Len(X)
    <2>4. k \in 0..Len(X) /\ Reached(o, Len(fs), N, k)
      BY <2>1, <2>3
    <2> HIDE DEF k
    <2>5. wsParse(SubSeq(X, o[0] + 1, k)) =
              [frames |-> SubSeq(fs, 0 + 1, N), rest |-> SubSeq(X, o[N] + 1, k)]
      BY <1>8, <2>3, <2>4, Parsed
    <2> QED BY <2>5 DEF k
  <1>12. SubSeq(X, o[0] + 1, Len(X)) = X
    <2>1. o[0] + 1 = 1
      BY <1>10
    <2> QED BY <1>10, <2>1, SubSeqFull
  <1>13. SubSeq(fs, 0 + 1, N) = fs
    <2>1. 0 + 1 = 1
      OBVIOUS
    <2> QED BY <1>3, <2>1, SubSeqFull
  <1>14. SubSeq(X, o[N] + 1, Len(X)) = <<>>
    BY <1>10, SubSeqEmpty
  <1> QED BY <1>9, <1>11, <1>12, <1>13, <1>14 DEF fs

LEMMA SessionInvImplies == SessionInv => FramesArrive
  <1> SUFFICES ASSUME SessionInv PROVE FramesArrive
    OBVIOUS
  <1>1. PICK m, k : ArrivedTo(m, k)
    BY DEF SessionInv
  <1>2. SessionTypes
    BY DEF SessionInv
  <1>3. taken = SubSeq(sent, 1, Arrived)
    <2>1. taken = SubSeq(sent, 1, m)
      BY <1>1 DEF ArrivedTo
    <2>2. Arrived = m
      BY <1>1, <1>2, ArrivedIs
    <2> QED BY <2>1, <2>2
  <1> DEFINE fs == [i \in DOMAIN told |-> [op |-> told[i].op, payload |-> told[i].payload]]
  <1>4. wsParse(Output) = [frames |-> fs, rest |-> <<>>]
    BY <1>2, OutputParsed DEF SessionTypes
  <1> HIDE DEF fs
  <1>5. wsParse(Output).rest = <<>> /\ wsParse(Output).frames = fs
    BY <1>4
  <1> QED BY <1>3, <1>5, Zenon DEF FramesArrive, fs

(* However its bytes are cut into chunks, a session takes the frames its   *)
(* client sent, each when it has arrived, and what it writes can be read   *)
(* back: the data handler and wsParse against wsFrame, for any base, any   *)
(* widths of a length and any involutive mask.                             *)
THEOREM FramesCorrect == WireSpec => []FramesArrive
  <1>1. WireInit => SessionInv
    BY SessionInit DEF WireInit
  <1>2. SessionInv /\ [WireNext]_vars => SessionInv'
    <2> SUFFICES ASSUME SessionInv, [WireNext]_vars PROVE SessionInv'
      OBVIOUS
    <2>1. Next \/ UNCHANGED sessionVars
      BY Zenon DEF WireNext, vars
    <2> QED BY <2>1, SessionStep
  <1>3. SessionInv => FramesArrive
    BY SessionInvImplies
  <1> QED BY <1>1, <1>2, <1>3, PTL DEF WireSpec

-----------------------------------------------------------------------------
(* No prompt is forgotten, and its answer comes in order.                  *)

Prompts(fs) ==
    {i \in DOMAIN fs : fs[i].op = TEXT /\ Method[fs[i].payload] = "session/prompt"}

\* Row a of what was written is of that kind, and answers frame i.
IsRow(rows, a, kind, i) == a \in DOMAIN rows /\ rows[a].kind = kind /\ rows[a].to = i

Begun(rows, i) == \E a : IsRow(rows, a, "chunk", i)

\* Both pieces are out before row c.
StreamedBefore(rows, c, i) ==
    \E a, b \in Nat : a < b /\ b < c /\ IsRow(rows, a, "chunk", i) /\ IsRow(rows, b, "chunk", i)

Streamed(rows, i) == StreamedBefore(rows, Len(rows) + 1, i)

Replied(rows, i) == \E c \in Nat : IsRow(rows, c, "reply", i)

\* The only reply to frame i is row c, after both pieces.
RepliedLast(rows, c, i) ==
    /\ StreamedBefore(rows, c, i)
    /\ \A d \in Nat : IsRow(rows, d, "reply", i) => d = c

\* The timers left are those of prompts, of none twice.
TimersApart(s, I) ==
    /\ Range(s.replyDue) \subseteq I
    /\ \A p, q \in DOMAIN s.replyDue : s.replyDue[p] = s.replyDue[q] => p = q

\* Whatever has a reply was a prompt and has no timer left.
RepliesRight(s, I) ==
    \A i, c \in Nat : IsRow(s.told, c, "reply", i) =>
       i \in I \ Range(s.replyDue) /\ RepliedLast(s.told, c, i)

\* Both pieces will be out before the reply.
Ready(s, i) ==
    Streamed(s.told, i) \/ (i \in Range(s.chunkDue) /\ Begun(s.told, i))

\* Every prompt has its reply, or a timer that sees to it.
Owes(s, I) ==
    /\ \A i \in Range(s.replyDue) : Ready(s, i)
    /\ \A i \in I : i \in Range(s.replyDue) \/ Replied(s.told, i)

\* The prompts I are served; what an ended socket owes is void.
Serves(s, I) ==
    TimersApart(s, I) /\ RepliesRight(s, I) /\ (s.open => Owes(s, I))

PromptInv == Serves(Now, Prompts(taken))

(* u has one row more than rows.                                           *)
Grows(u, rows, r) ==
    /\ Len(rows) \in Nat /\ Len(u) = Len(rows) + 1
    /\ IsRow(u, Len(rows) + 1, r.kind, r.to)
    /\ \A a, kind, i : IsRow(rows, a, kind, i) =>
          a \in Nat /\ a <= Len(rows) /\ IsRow(u, a, kind, i)
    /\ \A a, kind, i : IsRow(u, a, kind, i) =>
          IsRow(rows, a, kind, i) \/ (a = Len(rows) + 1 /\ r.kind = kind /\ r.to = i)

LEMMA RowAdded ==
    ASSUME NEW rows \in Seq(Shown), NEW r \in Shown
    PROVE  Grows(Append(rows, r), rows, r)
  <1> DEFINE u == Append(rows, r)
             n == Len(rows)
  <1>1. /\ Len(u) = n + 1 /\ DOMAIN u = DOMAIN rows \cup {n + 1}
        /\ \A i \in DOMAIN rows : u[i] = rows[i]
        /\ u[n + 1] = r
    BY AppendFacts
  <1>2. n \in Nat /\ DOMAIN rows = 1..n
    OBVIOUS
  <1> HIDE DEF u, n
  <1>3. IsRow(u, n + 1, r.kind, r.to)
    BY <1>1 DEF IsRow
  <1>4. ASSUME NEW a, NEW kind, NEW i, IsRow(rows, a, kind, i)
        PROVE  a \in Nat /\ a <= n /\ IsRow(u, a, kind, i)
    <2>1. a \in 1..n
      BY <1>2, <1>4 DEF IsRow
    <2>2. IsRow(u, a, kind, i)
      BY <1>1, <1>4 DEF IsRow
    <2> QED BY <1>2, <2>1, <2>2
  <1>5. ASSUME NEW a, NEW kind, NEW i, IsRow(u, a, kind, i)
        PROVE  IsRow(rows, a, kind, i) \/ (a = n + 1 /\ r.kind = kind /\ r.to = i)
    BY <1>1, <1>5 DEF IsRow
  <1> QED BY <1>1, <1>2, <1>3, <1>4, <1>5, Zenon DEF Grows, u, n

(* What was out stays out.                                                 *)
LEMMA RowsStay ==
    ASSUME NEW u, NEW rows, NEW r, Grows(u, rows, r), NEW i
    PROVE  /\ Begun(rows, i) => Begun(u, i)
           /\ Streamed(rows, i) => Streamed(u, i)
           /\ Replied(rows, i) => Replied(u, i)
           /\ \A c \in Nat : StreamedBefore(rows, c, i) => StreamedBefore(u, c, i)
  <1>1. /\ Len(rows) \in Nat /\ Len(u) = Len(rows) + 1
        /\ \A a, kind : IsRow(rows, a, kind, i) =>
              a \in Nat /\ a <= Len(rows) /\ IsRow(u, a, kind, i)
    BY DEF Grows
  <1>2. Begun(rows, i) => Begun(u, i)
    BY <1>1, Zenon DEF Begun
  <1>3. Replied(rows, i) => Replied(u, i)
    BY <1>1, Zenon DEF Replied
  <1>4. ASSUME NEW c \in Nat, StreamedBefore(rows, c, i) PROVE StreamedBefore(u, c, i)
    BY <1>1, <1>4, Zenon DEF StreamedBefore
  <1>5. ASSUME Streamed(rows, i) PROVE Streamed(u, i)
    <2>1. PICK a \in Nat, b \in Nat :
             a < b /\ b < Len(rows) + 1 /\ IsRow(rows, a, "chunk", i) /\ IsRow(rows, b, "chunk", i)
      BY <1>5 DEF Streamed, StreamedBefore
    <2>2. IsRow(u, a, "chunk", i) /\ IsRow(u, b, "chunk", i)
      BY <1>1, <2>1
    <2>3. b < Len(u) + 1
      BY <1>1, <2>1
    <2> QED BY <2>1, <2>2, <2>3, Zenon DEF Streamed, StreamedBefore
  <1> QED BY <1>2, <1>3, <1>4, <1>5

(* Rows that are no replies take nothing from the prompts.                 *)
LEMMA OtherRowServes ==
    ASSUME NEW s \in Handler, NEW I, Serves(s, I), NEW r \in Shown, r.kind # "reply"
    PROVE  Serves(Tell(s, r), I)
  <1> DEFINE u == Append(s.told, r)
             t == Tell(s, r)
  <1>1. CASE ~s.open
    BY <1>1 DEF Tell
  <1>2. CASE s.open
    <2>1. /\ t.told = u /\ t.replyDue = s.replyDue /\ t.chunkDue = s.chunkDue
          /\ t.open = s.open
      BY <1>2 DEF Tell, Handler
    <2>2. Grows(u, s.told, r)
      BY RowAdded DEF Handler
    <2> HIDE DEF t, u
    <2>3. TimersApart(s, I) /\ RepliesRight(s, I) /\ Owes(s, I)
      BY <1>2 DEF Serves
    <2>4. TimersApart(t, I)
      BY <2>1, <2>3 DEF TimersApart
    <2>5. \A d, i : IsRow(u, d, "reply", i) => IsRow(s.told, d, "reply", i)
      BY <2>2, Zenon DEF Grows
    <2>6. RepliesRight(t, I)
      <3> SUFFICES ASSUME NEW i \in Nat, NEW c \in Nat, IsRow(u, c, "reply", i)
                   PROVE  i \in I \ Range(s.replyDue) /\ RepliedLast(u, c, i)
        BY <2>1 DEF RepliesRight
      <3>1. IsRow(s.told, c, "reply", i)
        BY <2>5
      <3>2. i \in I \ Range(s.replyDue) /\ RepliedLast(s.told, c, i)
        BY <2>3, <3>1 DEF RepliesRight
      <3>3. StreamedBefore(u, c, i)
        BY <2>2, <3>2, RowsStay DEF RepliedLast
      <3>4. RepliedLast(u, c, i)
        BY <2>5, <3>2, <3>3, Zenon DEF RepliedLast
      <3> QED BY <3>2, <3>4
    <2>7. Owes(t, I)
      <3>1. ASSUME NEW i \in Range(s.replyDue) PROVE Ready(t, i)
        <4>1. Ready(s, i)
          BY <2>3 DEF Owes
        <4>2. (Begun(s.told, i) => Begun(u, i)) /\ (Streamed(s.told, i) => Streamed(u, i))
          BY <2>2, RowsStay
        <4> QED BY <2>1, <4>1, <4>2 DEF Ready
      <3>2. ASSUME NEW i \in I PROVE i \in Range(s.replyDue) \/ Replied(u, i)
        BY <2>2, <2>3, RowsStay DEF Owes
      <3> QED BY <2>1, <3>1, <3>2 DEF Owes
    <2>8. Serves(t, I)
      BY <2>4, <2>6, <2>7 DEF Serves
    <2> QED BY <2>8 DEF t
  <1> QED BY <1>1, <1>2

(* Only these four parts of a handler's state matter.                      *)
LEMMA SameServes ==
    ASSUME NEW s, NEW t, NEW I, Serves(s, I),
           t.told = s.told, t.chunkDue = s.chunkDue, t.replyDue = s.replyDue,
           t.open => s.open
    PROVE  Serves(t, I)
  BY DEF Serves, TimersApart, RepliesRight, Owes, Ready

LEMMA RangeAppended ==
    ASSUME NEW q \in Seq(Nat), NEW n \in Nat
    PROVE  /\ Append(q, n) \in Seq(Nat)
           /\ Range(Append(q, n)) = Range(q) \cup {n}
           /\ n \notin Range(q) /\ (\A i, j \in DOMAIN q : q[i] = q[j] => i = j) =>
                 \A i, j \in DOMAIN Append(q, n) : Append(q, n)[i] = Append(q, n)[j] => i = j
  <1> DEFINE u == Append(q, n)
             k == Len(q) + 1
  <1>1. /\ u \in Seq(Nat) /\ DOMAIN u = DOMAIN q \cup {k} /\ u[k] = n
        /\ \A i \in DOMAIN q : u[i] = q[i]
    BY AppendFacts
  <1> HIDE DEF u, k
  <1>2. Range(u) = Range(q) \cup {n}
    BY <1>1 DEF Range
  <1>3. ASSUME n \notin Range(q), \A i, j \in DOMAIN q : q[i] = q[j] => i = j,
               NEW i \in DOMAIN u, NEW j \in DOMAIN u, u[i] = u[j]
        PROVE  i = j
    <2>1. \A l \in DOMAIN q : q[l] # n
      BY <1>3 DEF Range
    <2> QED BY <1>1, <1>3, <2>1
  <1> QED BY <1>1, <1>2, <1>3 DEF u

(* A prompt is told its first piece, and both its timers are set.          *)
LEMMA PromptServes ==
    ASSUME NEW s \in Handler, NEW I, Serves(s, I), NEW n \in Nat, n \notin I
    PROVE  Serves(Handle(s, "session/prompt", n), I \cup {n})
  <1> DEFINE r == Text("chunk", n)
             t == Tell(s, r)
             h == Handle(s, "session/prompt", n)
             J == I \cup {n}
  <1>1. r \in Shown /\ r.kind = "chunk" /\ r.to = n
    <2>1. r \in Shown
      BY TextIs
    <2> QED BY <2>1 DEF Text
  <1>2. t \in Handler
    <2> HIDE DEF r
    <2> QED BY <1>1, TellIs
  <1>3. Serves(t, I)
    <2> HIDE DEF r
    <2> QED BY <1>1, OtherRowServes
  <1>4. t.open => Begun(t.told, n)
    <2>1. CASE s.open
      <3>1. Grows(Append(s.told, r), s.told, r)
        <4> HIDE DEF r
        <4> QED BY <1>1, RowAdded DEF Handler
      <3>2. t.told = Append(s.told, r)
        BY <2>1 DEF Tell, Handler
      <3> HIDE DEF t
      <3>3. IsRow(t.told, Len(s.told) + 1, "chunk", n)
        BY <1>1, <3>1, <3>2 DEF Grows
      <3> QED BY <3>3, Zenon DEF Begun
    <2>2. CASE ~s.open
      <3>1. t = s
        BY <2>2 DEF Tell
      <3> QED BY <2>2, <3>1
    <2> QED BY <2>1, <2>2
  <1>5. h = [t EXCEPT !.chunkDue = Append(@, n), !.replyDue = Append(@, n)]
    BY DEF Handle
  <1> HIDE DEF t, r
  <1>6. /\ h.told = t.told /\ h.open = t.open
        /\ h.chunkDue = Append(t.chunkDue, n) /\ h.replyDue = Append(t.replyDue, n)
        /\ t.chunkDue \in Seq(Nat) /\ t.replyDue \in Seq(Nat)
    BY <1>2, <1>5 DEF Handler
  <1> HIDE DEF h
  <1>7. TimersApart(t, I) /\ RepliesRight(t, I) /\ (t.open => Owes(t, I))
    BY <1>3 DEF Serves
  <1>8. n \notin Range(t.replyDue)
    BY <1>7 DEF TimersApart
  <1>9. Range(h.replyDue) = Range(t.replyDue) \cup {n}
        /\ Range(h.chunkDue) = Range(t.chunkDue) \cup {n}
    BY <1>6, RangeAppended
  <1>10. TimersApart(h, J)
    <2>1. \A i, j \in DOMAIN h.replyDue : h.replyDue[i] = h.replyDue[j] => i = j
      <3> DEFINE q == t.replyDue
      <3>1. q \in Seq(Nat) /\ n \notin Range(q) /\ h.replyDue = Append(q, n)
        BY <1>6, <1>8
      <3>2. \A i, j \in DOMAIN q : q[i] = q[j] => i = j
        BY <1>7 DEF TimersApart
      <3> HIDE DEF q
      <3>3. \A i, j \in DOMAIN Append(q, n) : Append(q, n)[i] = Append(q, n)[j] => i = j
        BY <3>1, <3>2, RangeAppended
      <3> QED BY <3>1, <3>3
    <2>2. Range(h.replyDue) \subseteq J
      BY <1>7, <1>9 DEF TimersApart
    <2> QED BY <2>1, <2>2 DEF TimersApart
  <1>11. RepliesRight(h, J)
    <2> SUFFICES ASSUME NEW i \in Nat, NEW c \in Nat, IsRow(t.told, c, "reply", i)
                 PROVE  i \in J \ Range(h.replyDue) /\ RepliedLast(t.told, c, i)
      BY <1>6 DEF RepliesRight
    <2>1. i \in I \ Range(t.replyDue) /\ RepliedLast(t.told, c, i)
      BY <1>7 DEF RepliesRight
    <2>2. i # n
      BY <2>1
    <2> QED BY <1>9, <2>1, <2>2
  <1>12. ASSUME h.open PROVE Owes(h, J)
    <2>1. Owes(t, I) /\ Begun(t.told, n)
      BY <1>4, <1>6, <1>7, <1>12
    <2>2. ASSUME NEW i \in Range(h.replyDue) PROVE Ready(h, i)
      <3>1. CASE i = n
        BY <1>6, <1>9, <2>1, <3>1 DEF Ready
      <3>2. CASE i # n
        <4>1. Ready(t, i)
          BY <1>9, <2>1, <2>2, <3>2 DEF Owes
        <4> QED BY <1>6, <1>9, <4>1 DEF Ready
      <3> QED BY <3>1, <3>2
    <2>3. ASSUME NEW i \in J PROVE i \in Range(h.replyDue) \/ Replied(h.told, i)
      BY <1>6, <1>9, <2>1, <2>3 DEF Owes
    <2> QED BY <2>2, <2>3 DEF Owes
  <1>13. Serves(h, J)
    BY <1>10, <1>11, <1>12 DEF Serves
  <1> QED BY <1>13 DEF h

-----------------------------------------------------------------------------
(* The data handler.                                                       *)

\* The prompts among the frames it has taken are served.
AllServed(s) == Serves(s, Prompts(s.taken))

LEMMA PromptsAppended ==
    ASSUME NEW fs \in Seq(ClientFrames), NEW f \in ClientFrames
    PROVE  LET n == Len(Append(fs, f))
               new == f.op = TEXT /\ Method[f.payload] = "session/prompt"
           IN  /\ n \in Nat /\ n \notin Prompts(fs)
               /\ Prompts(Append(fs, f)) = Prompts(fs) \cup (IF new THEN {n} ELSE {})
  <1> DEFINE g == Append(fs, f)
             n == Len(fs) + 1
             new == f.op = TEXT /\ Method[f.payload] = "session/prompt"
             Is(i) == g[i].op = TEXT /\ Method[g[i].payload] = "session/prompt"
             Was(i) == fs[i].op = TEXT /\ Method[fs[i].payload] = "session/prompt"
  <1>1. /\ Len(g) = n /\ DOMAIN g = DOMAIN fs \cup {n} /\ g[n] = f
        /\ \A i \in DOMAIN fs : g[i] = fs[i]
    BY AppendFacts
  <1>2. n \in Nat /\ n \notin DOMAIN fs
    OBVIOUS
  <1> HIDE DEF n, g
  <1>3. Is(n) <=> new
    BY <1>1
  <1>4. \A i \in DOMAIN fs : Is(i) <=> Was(i)
    BY <1>1
  <1>5. Prompts(g) = {i \in DOMAIN fs \cup {n} : Is(i)} /\ Prompts(fs) = {i \in DOMAIN fs : Was(i)}
    BY <1>1, Zenon DEF Prompts
  <1> HIDE DEF Is, Was, new
  <1>6. n \notin Prompts(fs)
    BY <1>2, <1>5
  <1>7. Prompts(g) = Prompts(fs) \cup (IF new THEN {n} ELSE {})
    BY <1>3, <1>4, <1>5
  <1> QED BY <1>1, <1>2, <1>6, <1>7 DEF g, new

LEMMA TakeServes ==
    ASSUME NEW s \in Handler, NEW f \in ClientFrames, AllServed(s)
    PROVE  AllServed(Take(s, f))
  <1> DEFINE t == [s EXCEPT !.taken = Append(@, f)]
             u == Take(s, f)
             I == Prompts(s.taken)
             n == Len(t.taken)
             new == f.op = TEXT /\ Method[f.payload] = "session/prompt"
  <1>1. /\ f.op \in 0..15 /\ f.payload \in Seq(Nat)
        /\ f.op = PING => Len(f.payload) < Base * Base
    BY SessionAssumption, Zenon DEF SessionAssumption
  <1>2. s.taken \in Seq(ClientFrames)
    BY DEF Handler
  <1>3. Append(s.taken, f) \in Seq(ClientFrames)
    BY <1>2
  <1>4. t \in Handler /\ t.taken = Append(s.taken, f)
    BY <1>3 DEF Handler
  <1>5. /\ n \in Nat /\ n \notin I
        /\ Prompts(t.taken) = I \cup (IF new THEN {n} ELSE {})
    <2> HIDE DEF t, I
    <2> QED BY <1>2, <1>4, PromptsAppended DEF I
  <1>6. Serves(t, I)
    <2>1. t.told = s.told /\ t.chunkDue = s.chunkDue /\ t.replyDue = s.replyDue /\ t.open = s.open
      BY DEF Handler
    <2> HIDE DEF t, I
    <2> QED BY <2>1, SameServes DEF AllServed, I
  <1>7. CASE s.stop
    <2>1. u = s
      BY <1>7 DEF Take
    <2> QED BY <2>1
  <1>8. CASE ~s.stop
    <2>a. u.taken = t.taken
      <3> HIDE DEF u, t
      <3> QED BY <1>4, <1>8, TakeIs DEF TakesFrom, u
    <2>1. CASE f.op = CLOSE
      <3> DEFINE r == Control(CLOSE, Written["close"])
                 v == Tell(t, r)
      <3>1. r \in Shown /\ r.kind # "reply"
        BY WrittenIs DEF Control, Shown
      <3>2. u = [v EXCEPT !.stop = TRUE, !.open = FALSE]
        BY <1>8, <2>1 DEF Take
      <3> HIDE DEF t, r, I
      <3>3. v \in Handler /\ Serves(v, I)
        BY <1>4, <1>6, <3>1, TellIs, OtherRowServes
      <3> HIDE DEF v
      <3>4. u.told = v.told /\ u.chunkDue = v.chunkDue /\ u.replyDue = v.replyDue /\ ~u.open
        BY <3>2, <3>3 DEF Handler
      <3> HIDE DEF u
      <3>5. Serves(u, I)
        BY <3>3, <3>4, SameServes
      <3>6. ~new
        BY <2>1 DEF TEXT, CLOSE
      <3>7. Prompts(u.taken) = I
        BY <1>5, <2>a, <3>6
      <3>9. AllServed(u)
        BY <3>5, <3>7 DEF AllServed
      <3> QED BY <3>9 DEF u
    <2>2. CASE f.op = PING
      <3> DEFINE r == Control(PONG, f.payload)
                 v == Tell(t, r)
      <3>1. f.payload \in Payloads
        BY <1>1, <2>2 DEF Payloads
      <3>2. r \in Shown /\ r.kind # "reply"
        BY <3>1 DEF Control, Shown
      <3>3. u = v
        BY <1>8, <2>2 DEF Take, PING, CLOSE
      <3> HIDE DEF t, r, I
      <3>4. Serves(v, I)
        BY <1>4, <1>6, <3>2, OtherRowServes
      <3>5. ~new
        BY <2>2 DEF TEXT, PING
      <3> HIDE DEF u, v
      <3>6. Prompts(u.taken) = I
        BY <1>5, <2>a, <3>5
      <3>9. AllServed(u)
        BY <3>3, <3>4, <3>6 DEF AllServed
      <3> QED BY <3>9 DEF u
    <2>3. CASE new
      <3>1. u = Handle(t, "session/prompt", n)
        BY <1>8, <2>3 DEF Take, PING, CLOSE, TEXT
      <3> HIDE DEF t, n, I
      <3>2. Serves(Handle(t, "session/prompt", n), I \cup {n})
        BY <1>4, <1>5, <1>6, PromptServes
      <3> HIDE DEF u
      <3>3. Prompts(u.taken) = I \cup {n}
        BY <1>5, <2>3, <2>a
      <3>9. AllServed(u)
        BY <3>1, <3>2, <3>3 DEF AllServed
      <3> QED BY <3>9 DEF u
    <2>4. CASE f.op = TEXT /\ ~new
      <3> DEFINE method == Method[f.payload]
                 tell(kind) == Tell(t, Text(kind, n))
                 v == tell("result")
      <3>1. u = Handle(t, method, n)
        BY <1>8, <2>4 DEF Take, PING, CLOSE, TEXT
      <3>2. method # "session/prompt"
        BY <2>4
      <3> HIDE DEF t, n, I, method
      <3>3. ASSUME NEW kind \in {"result", "error"}
            PROVE  tell(kind) \in Handler /\ Serves(tell(kind), I)
        <4>1. Text(kind, n) \in Shown
          BY <1>5, TextIs
        <4>2. Text(kind, n).kind # "reply"
          BY DEF Text
        <4> QED BY <1>4, <1>6, <4>1, <4>2, TellIs, OtherRowServes
      <3>4. u \in {v, tell("error"), t, [v EXCEPT !.drops = IF flaky THEN @ + 1 ELSE @]}
        BY <3>1, <3>2 DEF Handle
      <3> HIDE DEF u, tell
      <3>5. v \in Handler /\ Serves(v, I) /\ Serves(tell("error"), I)
        BY <3>3
      <3>6. Serves([v EXCEPT !.drops = IF flaky THEN @ + 1 ELSE @], I)
        <4> DEFINE w == [v EXCEPT !.drops = IF flaky THEN @ + 1 ELSE @]
        <4> HIDE DEF v
        <4>1. w.told = v.told /\ w.chunkDue = v.chunkDue /\ w.replyDue = v.replyDue /\ w.open = v.open
          BY <3>5 DEF Handler
        <4> HIDE DEF w
        <4>2. Serves(w, I)
          BY <3>5, <4>1, SameServes
        <4> QED BY <4>2 DEF w
      <3>7. Serves(u, I)
        BY <1>6, <3>4, <3>5, <3>6
      <3>8. Prompts(u.taken) = I
        BY <1>5, <2>4, <2>a
      <3>9. AllServed(u)
        BY <3>7, <3>8 DEF AllServed
      <3> QED BY <3>9 DEF u
    <2>5. CASE f.op \notin {CLOSE, PING, TEXT}
      <3>1. u = t
        BY <1>8, <2>5 DEF Take
      <3> HIDE DEF u, t, I
      <3>2. Prompts(u.taken) = I
        BY <1>5, <2>5, <2>a
      <3>9. AllServed(u)
        BY <1>6, <3>1, <3>2 DEF AllServed
      <3> QED BY <3>9 DEF u
    <2> QED BY <2>1, <2>2, <2>3, <2>4, <2>5
  <1> QED BY <1>7, <1>8

LEMMA TakeAllServes ==
    ASSUME NEW ps \in Seq(ClientFrames), NEW z \in Handler, AllServed(z)
    PROVE  AllServed(TakeAll(z, ps))
  <1> DEFINE n == Len(ps)
  <1>1. PICK t : Loop(t, z, ps)
    BY LoopRuns
  <1>2. n \in Nat /\ \A i \in 1..n : ps[i] \in ClientFrames
    OBVIOUS
  <1>3. /\ t \in [0..n -> Handler] /\ t[0] = z /\ TakeAll(z, ps) = t[n]
        /\ \A i \in 0..(n - 1) : t[i + 1] = Take(t[i], ps[i + 1])
    BY <1>1, Zenon DEF Loop
  <1> HIDE DEF n
  <1> DEFINE S == {i \in 0..n : AllServed(t[i])}
  <1>4. 0 \in S
    BY <1>2, <1>3
  <1>5. ASSUME NEW i \in 0..(n - 1), i \in S PROVE i + 1 \in S
    <2>1. i \in 0..n /\ i + 1 \in 0..n /\ i + 1 \in 1..n
      BY <1>2
    <2>2. t[i] \in Handler /\ AllServed(t[i]) /\ ps[i + 1] \in ClientFrames
      BY <1>2, <1>3, <1>5, <2>1
    <2>3. AllServed(Take(t[i], ps[i + 1]))
      BY <2>2, TakeServes
    <2> QED BY <1>3, <2>1, <2>3
  <1>6. n \in S
    <2>1. \A i \in 0..(n - 1) : i \in S => i + 1 \in S
      BY <1>5
    <2> HIDE DEF S
    <2>2. 0..n \subseteq S
      BY <1>2, <1>4, <2>1, IntervalInduction
    <2> QED BY <1>2, <2>2
  <1> QED BY <1>3, <1>6

-----------------------------------------------------------------------------
(* The timers, and the theorem.                                            *)

LEMMA NowIs ==
    ASSUME SessionInv
    PROVE  /\ Now.told = told /\ Now.chunkDue = chunkDue /\ Now.replyDue = replyDue
           /\ Now.taken = taken /\ (Now.open <=> state = "open")
           /\ told \in Seq(Shown) /\ chunkDue \in Seq(Nat) /\ replyDue \in Seq(Nat)
  BY DEF SessionInv, SessionTypes, Now

LEMMA DataServes ==
    ASSUME SessionInv, PromptInv, NEW j \in 1..Len(pipe), Data(j)
    PROVE  PromptInv'
  <1>1. PICK fs \in Seq(ClientFrames) : Handled(fs)
    BY DataKeeps
  <1> DEFINE s == TakeAll(Now, fs)
             I == Prompts(s.taken)
  <1>2. Now \in Handler /\ s \in Handler
    BY <1>1 DEF Handled
  <1>3. AllServed(Now)
    BY NowIs DEF AllServed, PromptInv
  <1>4. AllServed(s)
    <2>1. fs \in Seq(ClientFrames)
      OBVIOUS
    <2> QED BY <1>2, <1>3, <2>1, TakeAllServes
  <1>5. /\ taken' = s.taken /\ told' = s.told
        /\ chunkDue' = s.chunkDue /\ replyDue' = s.replyDue
        /\ state' = IF s.open THEN "open" ELSE "ended"
    BY <1>1, Zenon DEF Handled
  <1> HIDE DEF s
  <1>6. (Now.told)' = s.told /\ (Now.chunkDue)' = s.chunkDue
        /\ (Now.replyDue)' = s.replyDue /\ ((Now.open)' => s.open)
    BY <1>5 DEF Now
  <1> DEFINE t == Now'
  <1>7. t.told = s.told /\ t.chunkDue = s.chunkDue /\ t.replyDue = s.replyDue
        /\ (t.open => s.open)
    BY <1>6
  <1> HIDE DEF t
  <1>8. Serves(t, I)
    BY <1>4, <1>7, SameServes DEF AllServed
  <1> QED BY <1>5, <1>8 DEF PromptInv, t

LEMMA ChunkServes ==
    ASSUME SessionInv, PromptInv, ChunkTimer
    PROVE  PromptInv'
  <1> DEFINE I == Prompts(taken)
             x == Head(chunkDue)
             r == Text("chunk", x)
             u == told'
             s == Now
             t == Now'
  <1>1. /\ s.told = told /\ s.chunkDue = chunkDue /\ s.replyDue = replyDue
        /\ (s.open <=> state = "open")
        /\ told \in Seq(Shown) /\ chunkDue \in Seq(Nat) /\ replyDue \in Seq(Nat)
    BY NowIs
  <1>2. /\ chunkDue # <<>> /\ chunkDue' = Tail(chunkDue) /\ replyDue' = replyDue
        /\ taken' = taken /\ state' = state
        /\ u = IF state = "open" THEN Append(told, r) ELSE told
    BY DEF ChunkTimer, Late
  <1>3. t.told = u /\ t.chunkDue = chunkDue' /\ t.replyDue = replyDue /\ (t.open <=> s.open)
    BY <1>1, <1>2 DEF Now
  <1>4. Serves(s, I)
    BY DEF PromptInv
  <1>5. TimersApart(s, I) /\ RepliesRight(s, I) /\ (s.open => Owes(s, I))
    BY <1>4 DEF Serves
  <1>6. x \in Nat /\ \A i \in Range(chunkDue) : i = x \/ i \in Range(Tail(chunkDue))
    <2> DEFINE q == chunkDue
    <2>1. /\ Len(q) \in Nat \ {0} /\ DOMAIN q = 1..Len(q) /\ x \in Nat /\ x = q[1]
          /\ DOMAIN Tail(q) = 1..(Len(q) - 1)
          /\ \A k \in 1..(Len(q) - 1) : Tail(q)[k] = q[k + 1]
      BY <1>1, <1>2, TailFacts
    <2>2. ASSUME NEW k \in DOMAIN q PROVE q[k] = x \/ q[k] \in Range(Tail(q))
      <3>1. CASE k = 1
        BY <2>1, <3>1
      <3>2. CASE k # 1
        <4>1. k - 1 \in 1..(Len(q) - 1) /\ (k - 1) + 1 = k
          BY <2>1, <2>2, <3>2
        <4>2. Tail(q)[k - 1] = q[k]
          BY <2>1, <4>1
        <4> QED BY <2>1, <4>1, <4>2 DEF Range
      <3> QED BY <3>1, <3>2
    <2> QED BY <2>1, <2>2 DEF Range
  <1>7. r \in Shown /\ r.kind = "chunk" /\ r.to = x
    <2>1. r \in Shown
      BY <1>6, TextIs
    <2> QED BY <2>1 DEF Text
  <1> HIDE DEF r, x, s, t, I
  <1>8. TimersApart(t, I)
    BY <1>1, <1>3, <1>5 DEF TimersApart
  <1>9. CASE state # "open"
    <2>1. RepliesRight(t, I)
      BY <1>1, <1>2, <1>3, <1>5, <1>9 DEF RepliesRight
    <2>2. Serves(t, I)
      BY <1>1, <1>3, <1>8, <1>9, <2>1 DEF Serves
    <2> QED BY <1>2, <2>2 DEF PromptInv, t, I
  <1>10. CASE state = "open"
    <2>1. Grows(u, told, r)
      BY <1>1, <1>2, <1>7, <1>10, RowAdded
    <2> HIDE DEF u
    <2>2. \A d, i : IsRow(u, d, "reply", i) => IsRow(told, d, "reply", i)
      <3>1. r.kind # "reply"
        BY <1>7
      <3> QED BY <2>1, <3>1, Zenon DEF Grows
    <2>3. RepliesRight(t, I)
      <3> SUFFICES ASSUME NEW i \in Nat, NEW c \in Nat, IsRow(u, c, "reply", i)
                   PROVE  i \in I \ Range(replyDue) /\ RepliedLast(u, c, i)
        BY <1>3 DEF RepliesRight
      <3>1. IsRow(told, c, "reply", i)
        BY <2>2
      <3>2. i \in I \ Range(replyDue) /\ RepliedLast(told, c, i)
        BY <1>1, <1>5, <3>1 DEF RepliesRight
      <3>3. StreamedBefore(u, c, i)
        BY <2>1, <3>2, RowsStay DEF RepliedLast
      <3>4. RepliedLast(u, c, i)
        BY <2>2, <3>2, <3>3, Zenon DEF RepliedLast
      <3> QED BY <3>2, <3>4
    <2>4. Owes(s, I)
      BY <1>1, <1>5, <1>10
    <2>5. ASSUME NEW i \in Range(replyDue) PROVE Ready(t, i)
      <3>1. Streamed(told, i) \/ (i \in Range(chunkDue) /\ Begun(told, i))
        BY <1>1, <2>4 DEF Owes, Ready
      <3>2. (Begun(told, i) => Begun(u, i)) /\ (Streamed(told, i) => Streamed(u, i))
        BY <2>1, RowsStay
      <3>3. CASE Streamed(told, i)
        BY <1>3, <3>2, <3>3 DEF Ready
      <3>4. CASE Begun(told, i) /\ i \in Range(Tail(chunkDue))
        BY <1>2, <1>3, <3>2, <3>4 DEF Ready
      <3>5. CASE Begun(told, i) /\ i = x
        <4>1. PICK a : IsRow(told, a, "chunk", i)
          BY <3>5 DEF Begun
        <4> DEFINE b == Len(told) + 1
        <4>2. /\ Len(told) \in Nat /\ Len(u) = Len(told) + 1
              /\ a \in Nat /\ a <= Len(told) /\ IsRow(u, a, "chunk", i)
              /\ IsRow(u, b, r.kind, r.to)
          BY <2>1, <4>1 DEF Grows
        <4>3. b \in Nat /\ a < b /\ b < Len(u) + 1
          BY <4>2
        <4>4. IsRow(u, b, "chunk", i)
          BY <1>7, <3>5, <4>2
        <4> HIDE DEF b
        <4>5. Streamed(u, i)
          BY <4>2, <4>3, <4>4 DEF Streamed, StreamedBefore
        <4> QED BY <1>3, <4>5 DEF Ready
      <3> QED BY <1>6, <3>1, <3>3, <3>4, <3>5
    <2>6. ASSUME NEW i \in I PROVE i \in Range(replyDue) \/ Replied(u, i)
      BY <1>1, <2>1, <2>4, RowsStay DEF Owes
    <2>7. Owes(t, I)
      BY <1>3, <2>5, <2>6 DEF Owes
    <2>8. Serves(t, I)
      BY <1>8, <2>3, <2>7 DEF Serves
    <2> QED BY <1>2, <2>8 DEF PromptInv, t, I
  <1> QED BY <1>9, <1>10

LEMMA ReplyServes ==
    ASSUME SessionInv, PromptInv, ReplyTimer
    PROVE  PromptInv'
  <1> DEFINE I == Prompts(taken)
             x == Head(replyDue)
             r == Text("reply", x)
             u == told'
             s == Now
             t == Now'
             rest == Range(Tail(replyDue))
  <1>1. /\ s.told = told /\ s.chunkDue = chunkDue /\ s.replyDue = replyDue
        /\ (s.open <=> state = "open")
        /\ told \in Seq(Shown) /\ chunkDue \in Seq(Nat) /\ replyDue \in Seq(Nat)
    BY NowIs
  <1>2. /\ replyDue # <<>> /\ replyDue' = Tail(replyDue) /\ chunkDue' = chunkDue
        /\ taken' = taken /\ state' = state
        /\ u = IF state = "open" THEN Append(told, r) ELSE told
        /\ x \notin Range(chunkDue)
    BY DEF ReplyTimer, Late, ChunkFired, Range
  <1>3. t.told = u /\ t.chunkDue = chunkDue /\ t.replyDue = replyDue' /\ (t.open <=> s.open)
    BY <1>1, <1>2 DEF Now
  <1>4. Serves(s, I)
    BY DEF PromptInv
  <1>5. TimersApart(s, I) /\ RepliesRight(s, I) /\ (s.open => Owes(s, I))
    BY <1>4 DEF Serves
  <1>6. /\ x \in Nat /\ x \in Range(replyDue)
        /\ \A i : i \in rest <=> i \in Range(replyDue) /\ i # x
        /\ \A p, q \in DOMAIN Tail(replyDue) :
              Tail(replyDue)[p] = Tail(replyDue)[q] => p = q
    <2> DEFINE q == replyDue
               n == Len(q)
    <2>1. /\ n \in Nat \ {0} /\ DOMAIN q = 1..n /\ x \in Nat /\ x = q[1] /\ x \in Range(q)
          /\ DOMAIN Tail(q) = 1..(n - 1)
          /\ \A k \in 1..(n - 1) : Tail(q)[k] = q[k + 1]
          /\ rest \subseteq Range(q)
      BY <1>1, <1>2, TailFacts
    <2>2. \A k, l \in DOMAIN q : q[k] = q[l] => k = l
      BY <1>1, <1>5 DEF TimersApart
    <2> HIDE DEF q, n, x
    <2>3. ASSUME NEW k \in DOMAIN q PROVE q[k] = x \/ q[k] \in Range(Tail(q))
      <3>1. CASE k = 1
        BY <2>1, <3>1
      <3>2. CASE k # 1
        <4>1. k - 1 \in 1..(n - 1) /\ (k - 1) + 1 = k
          BY <2>1, <2>3, <3>2
        <4>2. Tail(q)[k - 1] = q[k]
          BY <2>1, <4>1
        <4> QED BY <2>1, <4>1, <4>2 DEF Range
      <3> QED BY <3>1, <3>2
    <2>4. ASSUME NEW k \in DOMAIN Tail(q), Tail(q)[k] = x PROVE FALSE
      <3>1. k + 1 \in 1..n /\ 1 \in 1..n /\ q[k + 1] = q[1] /\ k + 1 # 1
        BY <2>1, <2>4
      <3> QED BY <2>1, <2>2, <3>1
    <2>5. ASSUME NEW k \in DOMAIN Tail(q), NEW l \in DOMAIN Tail(q), Tail(q)[k] = Tail(q)[l]
          PROVE  k = l
      <3>1. k + 1 \in 1..n /\ l + 1 \in 1..n /\ q[k + 1] = q[l + 1] /\ k \in Int /\ l \in Int
        BY <2>1, <2>5
      <3>2. k + 1 = l + 1
        BY <2>1, <2>2, <3>1
      <3> QED BY <3>1, <3>2
    <2>6. \A i : i \in Range(Tail(q)) <=> i \in Range(q) /\ i # x
      <3>1. ASSUME NEW i \in Range(q), i # x PROVE i \in Range(Tail(q))
        BY <2>3, <3>1 DEF Range
      <3>2. x \notin Range(Tail(q))
        BY <2>4 DEF Range
      <3> QED BY <2>1, <3>1, <3>2 DEF q
    <2> QED BY <2>1, <2>5, <2>6 DEF q
  <1>7. r \in Shown /\ r.kind = "reply" /\ r.to = x
    <2>1. r \in Shown
      BY <1>6, TextIs
    <2> QED BY <2>1 DEF Text
  <1>8. x \in I
    BY <1>1, <1>5, <1>6 DEF TimersApart
  <1>a. Range(t.replyDue) = rest
    BY <1>2, <1>3
  <1> HIDE DEF r, x, s, t, I, rest
  <1>9. TimersApart(t, I)
    <2>1. rest \subseteq I
      BY <1>1, <1>5, <1>6 DEF TimersApart
    <2>2. t.replyDue = Tail(replyDue)
      BY <1>2, <1>3
    <2> QED BY <1>6, <1>a, <2>1, <2>2 DEF TimersApart
  <1>10. \A i, c \in Nat : IsRow(told, c, "reply", i) =>
            i \in I \ Range(replyDue) /\ RepliedLast(told, c, i)
    BY <1>1, <1>5 DEF RepliesRight
  <1>11. CASE state # "open"
    <2>1. RepliesRight(t, I)
      BY <1>2, <1>3, <1>6, <1>10, <1>11, <1>a DEF RepliesRight
    <2>2. Serves(t, I)
      BY <1>1, <1>3, <1>9, <1>11, <2>1 DEF Serves
    <2> QED BY <1>2, <2>2 DEF PromptInv, t, I
  <1>12. CASE state = "open"
    <2>1. Grows(u, told, r)
      BY <1>1, <1>2, <1>7, <1>12, RowAdded
    <2> HIDE DEF u
    <2> DEFINE n == Len(told) + 1
    <2>2. /\ n \in Nat /\ IsRow(u, n, "reply", x)
          /\ \A d, i : IsRow(u, d, "reply", i) =>
                IsRow(told, d, "reply", i) \/ (d = n /\ i = x)
      BY <1>7, <2>1 DEF Grows
    <2>3. Owes(s, I)
      BY <1>1, <1>5, <1>12
    <2>4. StreamedBefore(u, n, x)
      <3>1. Streamed(told, x)
        BY <1>1, <1>2, <1>6, <2>3 DEF Owes, Ready
      <3>2. StreamedBefore(told, n, x)
        BY <3>1 DEF Streamed
      <3> HIDE DEF n
      <3> QED BY <2>1, <2>2, <3>2, RowsStay
    <2> HIDE DEF n
    <2>5. \A c \in Nat : ~IsRow(told, c, "reply", x)
      BY <1>6, <1>10
    <2>6. RepliesRight(t, I)
      <3> SUFFICES ASSUME NEW i \in Nat, NEW c \in Nat, IsRow(u, c, "reply", i)
                   PROVE  i \in I \ rest /\ RepliedLast(u, c, i)
        BY <1>3, <1>a DEF RepliesRight
      <3>1. CASE IsRow(told, c, "reply", i)
        <4>1. i \in I \ Range(replyDue) /\ RepliedLast(told, c, i)
          BY <1>10, <3>1
        <4>2. i # x /\ i \notin rest
          BY <1>6, <4>1
        <4>3. StreamedBefore(u, c, i)
          BY <2>1, <4>1, RowsStay DEF RepliedLast
        <4>4. \A d \in Nat : IsRow(u, d, "reply", i) => d = c
          BY <2>2, <4>1, <4>2 DEF RepliedLast
        <4> QED BY <4>1, <4>2, <4>3, <4>4 DEF RepliedLast
      <3>2. CASE c = n /\ i = x
        <4>1. \A d \in Nat : IsRow(u, d, "reply", i) => d = c
          BY <2>2, <2>5, <3>2
        <4>2. i \notin rest
          BY <1>6, <3>2
        <4> QED BY <1>8, <2>4, <3>2, <4>1, <4>2 DEF RepliedLast
      <3> QED BY <2>2, <3>1, <3>2
    <2>7. ASSUME NEW i \in rest PROVE Ready(t, i)
      <3>1. Streamed(told, i) \/ (i \in Range(chunkDue) /\ Begun(told, i))
        BY <1>1, <1>6, <2>3, <2>7 DEF Owes, Ready
      <3>2. (Begun(told, i) => Begun(u, i)) /\ (Streamed(told, i) => Streamed(u, i))
        BY <2>1, RowsStay
      <3> QED BY <1>3, <3>1, <3>2 DEF Ready
    <2>8. ASSUME NEW i \in I PROVE i \in rest \/ Replied(u, i)
      <3>1. CASE i = x
        BY <2>2, <3>1 DEF Replied
      <3>2. CASE i # x
        <4>1. i \in Range(replyDue) \/ Replied(told, i)
          BY <1>1, <2>3, <2>8 DEF Owes
        <4>2. Replied(told, i) => Replied(u, i)
          BY <2>1, RowsStay
        <4> QED BY <1>6, <3>2, <4>1, <4>2
      <3> QED BY <3>1, <3>2
    <2>9. Owes(t, I)
      BY <1>3, <1>a, <2>7, <2>8 DEF Owes
    <2>10. Serves(t, I)
      BY <1>9, <2>6, <2>9 DEF Serves
    <2> QED BY <1>2, <2>10 DEF PromptInv, t, I
  <1> QED BY <1>11, <1>12

LEMMA PromptStep ==
    ASSUME SessionInv, PromptInv, Next \/ UNCHANGED sessionVars
    PROVE  PromptInv'
  <1>1. ASSUME NEW j \in 1..Len(pipe), Data(j) PROVE PromptInv'
    BY <1>1, DataServes
  <1>2. CASE ChunkTimer
    BY <1>2, ChunkServes
  <1>3. CASE ReplyTimer
    BY <1>3, ReplyServes
  <1>4. ASSUME UNCHANGED <<taken, told, chunkDue, replyDue>>, state' = "open" => state = "open"
        PROVE  PromptInv'
    <2> DEFINE s == Now
               t == Now'
               I == Prompts(taken)
    <2>1. t.told = s.told /\ t.chunkDue = s.chunkDue /\ t.replyDue = s.replyDue
          /\ (t.open => s.open)
      BY <1>4 DEF Now
    <2>2. Serves(s, I)
      BY DEF PromptInv
    <2> HIDE DEF s, t, I
    <2>3. Serves(t, I)
      BY <2>1, <2>2, SameServes
    <2> QED BY <1>4, <2>3 DEF PromptInv, t, I
  <1>5. ASSUME NEW f \in ClientFrames, ClientSends(f) PROVE PromptInv'
    BY <1>4, <1>5 DEF ClientSends
  <1>6. CASE DropTimer \/ SocketCloses
    BY <1>4, <1>6 DEF DropTimer, SocketCloses
  <1>7. CASE UNCHANGED sessionVars
    BY <1>4, <1>7 DEF sessionVars
  <1> QED BY <1>1, <1>2, <1>3, <1>5, <1>6, <1>7, Zenon DEF Next

(* What PromptsEnd rests on. A reply goes to a prompt that was taken, once,*)
(* and after both pieces, whatever was taken, told and timed in between;   *)
(* and as long as the socket is open a prompt has ended, or the timer of   *)
(* its reply is set, its first piece is out, and so is the second, or the  *)
(* timer for that is set too.                                              *)
PromptsServed ==
    /\ \A c \in DOMAIN told : told[c].kind = "reply" =>
          /\ IsPrompt(told[c].to)
          /\ RepliedLast(told, c, told[c].to)
    /\ state = "open" =>
          \A i \in DOMAIN taken : IsPrompt(i) =>
             \/ Ended(i)
             \/ /\ i \in Range(replyDue)
                /\ Streamed(told, i) \/ (i \in Range(chunkDue) /\ Begun(told, i))

(* A prompt is never left without its reply, nor answered out of order:    *)
(* handle() and its two timers, against every other frame and timer, the   *)
(* drop of a flaky run and the close of the socket.                        *)
THEOREM PromptsKept == WireSpec => []PromptsServed
  <1>1. WireInit => SessionInv /\ PromptInv
    <2>1. ASSUME Init PROVE PromptInv
      <3> DEFINE s == Now
                 I == Prompts(taken)
      <3>1. s.told = <<>> /\ s.chunkDue = <<>> /\ s.replyDue = <<>> /\ I = {}
        BY <2>1 DEF Init, Now, Prompts
      <3> HIDE DEF s, I
      <3>2. Range(s.replyDue) = {} /\ \A a, kind, i : ~IsRow(s.told, a, kind, i)
        BY <3>1 DEF Range, IsRow
      <3>3. Serves(s, I)
        BY <3>1, <3>2 DEF Serves, TimersApart, RepliesRight, Owes
      <3> QED BY <3>3 DEF PromptInv, s, I
    <2> QED BY <2>1, SessionInit DEF WireInit
  <1>2. SessionInv /\ PromptInv /\ [WireNext]_vars => SessionInv' /\ PromptInv'
    <2> SUFFICES ASSUME SessionInv, PromptInv, [WireNext]_vars
                 PROVE  SessionInv' /\ PromptInv'
      OBVIOUS
    <2>1. Next \/ UNCHANGED sessionVars
      BY Zenon DEF WireNext, vars
    <2> QED BY <2>1, SessionStep, PromptStep
  <1>3. SessionInv /\ PromptInv => PromptsServed
    <2> SUFFICES ASSUME SessionInv, PromptInv PROVE PromptsServed
      OBVIOUS
    <2> DEFINE I == Prompts(taken)
    <2>1. /\ TimersApart(Now, I) /\ RepliesRight(Now, I)
          /\ state = "open" => Owes(Now, I)
      BY NowIs DEF PromptInv, Serves
    <2>2. /\ Now.told = told /\ Now.chunkDue = chunkDue /\ Now.replyDue = replyDue
          /\ told \in Seq(Shown)
      BY NowIs
    <2>3. \A i : i \in I <=> IsPrompt(i)
      BY DEF Prompts, IsPrompt
    <2> HIDE DEF I
    <2>4. ASSUME NEW c \in DOMAIN told, told[c].kind = "reply"
          PROVE  IsPrompt(told[c].to) /\ RepliedLast(told, c, told[c].to)
      <3>1. told[c] \in Shown /\ c \in Nat
        BY <2>2
      <3>2. told[c].to \in Nat
        BY <3>1 DEF Shown
      <3>3. IsRow(told, c, "reply", told[c].to)
        BY <2>4 DEF IsRow
      <3> QED BY <2>1, <2>2, <2>3, <3>1, <3>2, <3>3 DEF RepliesRight
    <2>5. ASSUME state = "open", NEW i \in DOMAIN taken, IsPrompt(i)
          PROVE  \/ Ended(i)
                 \/ /\ i \in Range(replyDue)
                    /\ Streamed(told, i) \/ (i \in Range(chunkDue) /\ Begun(told, i))
      <3>1. Owes(Now, I) /\ i \in I
        BY <2>1, <2>3, <2>5
      <3>2. CASE i \in Range(replyDue)
        BY <2>2, <3>1, <3>2 DEF Owes, Ready
      <3>3. CASE Replied(told, i)
        <4>1. PICK c \in Nat : IsRow(told, c, "reply", i)
          BY <3>3 DEF Replied
        <4>2. i = told[c].to /\ c \in DOMAIN told /\ told[c].kind = "reply"
          BY <4>1 DEF IsRow
        <4>3. StreamedBefore(told, c, i)
          BY <2>4, <4>2 DEF RepliedLast
        <4>4. PICK a \in Nat, b \in Nat :
                 a < b /\ b < c /\ IsRow(told, a, "chunk", i) /\ IsRow(told, b, "chunk", i)
          BY <4>3 DEF StreamedBefore
        <4>5. Ended(i)
          BY <4>1, <4>4 DEF Ended, IsRow
        <4> QED BY <4>5
      <3> QED BY <2>2, <3>1, <3>2, <3>3 DEF Owes
    <2> QED BY <2>4, <2>5 DEF PromptsServed
  <1> QED BY <1>1, <1>2, <1>3, PTL DEF WireSpec
=============================================================================
