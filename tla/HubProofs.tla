----------------------------- MODULE HubProofs -----------------------------
(***************************************************************************)
(* That the mock's resource API keeps the promise of ResourceStore, for    *)
(* any resources to begin with, any names and any requests.                *)
(*                                                                         *)
(* What makes it inductive: no two entries of the list have one name, so   *)
(* that the first entry with a name is the only one; and a request that    *)
(* still reads its body has no answer yet.                                 *)
(***************************************************************************)
EXTENDS HubStore, DataLemmas, FiniteSetTheorems

\* A request has no answer before it is answered.
NoAnswerYet ==
    \A r \in Requests : phase[r] \in {"idle", "reading"} => answer[r] = Unanswered

\* A kind the hub does not know has no resources.
UnknownIsEmpty == ~Known => list = <<>>

IInv ==
    /\ TypeOK
    /\ Distinct(list)
    /\ NoAnswerYet
    /\ UnknownIsEmpty
    /\ ValidSpecs

USE StoreAssumption

-----------------------------------------------------------------------------
(* The list and its names.                                                 *)

LEMMA Requested ==
    ASSUME TypeOK, NEW r \in Requests
    PROVE  /\ want[r] \in AllMessages
           /\ want[r].path \in Names \cup {NoName}
           /\ want[r].as \in Names \cup {NoName}
           /\ want[r].spec \in Specs
           /\ want[r].generate \in BOOLEAN
<1>1. want[r] \in AllMessages
  BY DEF TypeOK
<1>2. QED  BY <1>1, Zenon DEF AllMessages

(* The first entry with a name is the only one.                            *)
LEMMA FirstIsOnly ==
    ASSUME TypeOK, Distinct(list), NEW n, At(n) # {}
    PROVE  /\ First(n) \in DOMAIN list /\ list[First(n)].name = n
           /\ list[First(n)] \in Resources
           /\ \A i \in DOMAIN list : list[i].name = n => i = First(n)
<1>1. PICK i \in DOMAIN list : list[i].name = n
  BY DEF At
<1>2. At(n) = {i}
  BY <1>1 DEF At, Distinct
<1>3. list \in Seq(Resources) /\ i \in Nat
  BY <1>1 DEF TypeOK
<1>4. First(n) = i
  <2>1. i <= i
    BY <1>3
  <2>2. First(n) = CHOOSE j \in {i} : \A k \in {i} : j <= k
    BY <1>2 DEF First
  <2>3. \E j \in {i} : \A k \in {i} : j <= k
    BY <2>1
  <2>4. First(n) \in {i}
    BY <2>2, <2>3, Zenon
  <2>5. QED  BY <2>4
<1>5. list[i] \in Resources
  BY <1>1, <1>3
<1>6. QED  BY <1>1, <1>4, <1>5 DEF Distinct

LEMMA NotTaken ==
    ASSUME TypeOK, NEW n
    PROVE  At(n) = {} <=> ~Store!Taken(n)
BY DEF At, Store!Taken, Range

LEMMA InRange ==
    ASSUME TypeOK, NEW i \in DOMAIN list
    PROVE  list[i] \in Resources /\ list[i] \in Range(list)
<1>1. list \in Seq(Resources)
  BY DEF TypeOK
<1>2. list[i] \in Resources
  BY <1>1
<1>3. QED  BY <1>2 DEF Range

(* Without an entry whose name is its own, the list has the others.        *)
LEMMA Deleted ==
    ASSUME TypeOK, Distinct(list), NEW k \in DOMAIN list
    PROVE  /\ RemoveAt(list, k) \in Seq(Resources)
           /\ Distinct(RemoveAt(list, k))
           /\ Range(RemoveAt(list, k)) = Range(list) \ {list[k]}
<1> DEFINE l == RemoveAt(list, k)
<1>1. list \in Seq(Resources)
  BY DEF TypeOK
<1>2. /\ Len(list) \in Nat /\ DOMAIN list = 1..Len(list) /\ k \in 1..Len(list)
  BY <1>1
<1>3. /\ l \in Seq(Resources) /\ Len(l) = Len(list) - 1
      /\ Range(l) \subseteq Range(list)
      /\ \A i \in 1..(Len(list) - 1) : l[i] = IF i < k THEN list[i] ELSE list[i + 1]
  BY <1>1, RemoveAtFacts
<1> HIDE DEF l
<1>4. DOMAIN l = 1..(Len(list) - 1)
  BY <1>3
<1>5. ASSUME NEW i \in DOMAIN l
      PROVE  \E j \in DOMAIN list : j # k /\ l[i] = list[j] /\ j = IF i < k THEN i ELSE i + 1
  <2>1. CASE i < k
    BY <2>1, <1>2, <1>3, <1>4
  <2>2. CASE ~(i < k)
    <3>1. i + 1 \in DOMAIN list /\ i + 1 # k
      BY <2>2, <1>2, <1>4
    <3>2. QED  BY <2>2, <3>1, <1>3, <1>4
  <2>3. QED  BY <2>1, <2>2
<1>6. ASSUME NEW i \in DOMAIN l, NEW j \in DOMAIN l, l[i].name = l[j].name
      PROVE  i = j
  <2>1. PICK a \in DOMAIN list : l[i] = list[a] /\ a = IF i < k THEN i ELSE i + 1
    BY <1>5
  <2>2. PICK b \in DOMAIN list : l[j] = list[b] /\ b = IF j < k THEN j ELSE j + 1
    BY <1>5
  <2>3. a = b
    BY <1>6, <2>1, <2>2 DEF Distinct
  <2>4. i \in Nat /\ j \in Nat /\ k \in Nat
    BY <1>2, <1>4
  <2>5. QED  BY <2>1, <2>2, <2>3, <2>4
<1>7. list[k] \notin Range(l)
  <2> SUFFICES ASSUME NEW i \in DOMAIN l, l[i] = list[k] PROVE FALSE
    BY DEF Range
  <2>1. PICK j \in DOMAIN list : j # k /\ l[i] = list[j]
    BY <1>5
  <2>2. QED  BY <2>1 DEF Distinct
<1>8. ASSUME NEW x \in Range(list), x # list[k] PROVE x \in Range(l)
  <2>1. PICK j \in DOMAIN list : x = list[j]
    BY DEF Range
  <2>2. j # k /\ j \in 1..Len(list)
    BY <1>2, <1>8, <2>1
  <2>3. CASE j < k
    <3>1. j \in DOMAIN l /\ l[j] = list[j]
      BY <2>2, <2>3, <1>2, <1>3, <1>4
    <3>2. QED  BY <3>1, <2>1 DEF Range
  <2>4. CASE ~(j < k)
    <3>1. j - 1 \in DOMAIN l /\ ~(j - 1 < k) /\ (j - 1) + 1 = j
      BY <2>2, <2>4, <1>2, <1>4
    <3>2. l[j - 1] = list[j]
      BY <3>1, <1>3, <1>4
    <3>3. QED  BY <3>1, <3>2, <2>1 DEF Range
  <2>5. QED  BY <2>3, <2>4
<1>9. Range(l) = Range(list) \ {list[k]}
  BY <1>3, <1>7, <1>8, Zenon
<1>10. QED  BY <1>3, <1>6, <1>9 DEF l, Distinct

(* An entry with a new name is added to the others.                        *)
LEMMA Added ==
    ASSUME TypeOK, Distinct(list), NEW x \in Resources, At(x.name) = {}
    PROVE  /\ Append(list, x) \in Seq(Resources)
           /\ Distinct(Append(list, x))
           /\ Range(Append(list, x)) = Range(list) \cup {x}
<1> DEFINE l == Append(list, x)
<1>1. list \in Seq(Resources)
  BY DEF TypeOK
<1>2. /\ l \in Seq(Resources) /\ DOMAIN l = DOMAIN list \cup {Len(list) + 1}
      /\ \A i \in DOMAIN list : l[i] = list[i]
      /\ l[Len(list) + 1] = x /\ Range(l) = Range(list) \cup {x}
  BY <1>1, AppendFacts
<1> HIDE DEF l
<1>3. \A i \in DOMAIN list : list[i].name # x.name
  BY DEF At
<1>4. Distinct(l)
  BY <1>2, <1>3, Zenon DEF Distinct
<1>5. QED  BY <1>2, <1>4 DEF l

(* The entry with a new spec takes the place of the old one.               *)
LEMMA Changed ==
    ASSUME TypeOK, Distinct(list), NEW k \in DOMAIN list, NEW s \in Specs
    PROVE  LET l == [list EXCEPT ![k].spec = s]
               y == [list[k] EXCEPT !.spec = s]
           IN  /\ l \in Seq(Resources) /\ Distinct(l)
               /\ y \in Resources /\ y.name = list[k].name /\ y.spec = s
               /\ Range(l) = (Range(list) \ {list[k]}) \cup {y}
<1> DEFINE y == [list[k] EXCEPT !.spec = s]
           l == [list EXCEPT ![k] = y]
<1>1. list \in Seq(Resources) /\ list[k] \in Resources
  BY DEF TypeOK
<1>2. y \in Resources /\ y.name = list[k].name /\ y.spec = s
  BY <1>1 DEF Resources
<1> HIDE DEF y
<1>3. /\ l \in Seq(Resources) /\ DOMAIN l = DOMAIN list /\ l[k] = y
      /\ \A i \in DOMAIN list : i # k => l[i] = list[i]
  BY <1>1, <1>2, ExceptSeq
<1> HIDE DEF l
<1>4. \A i \in DOMAIN list : l[i].name = list[i].name
  BY <1>2, <1>3
<1>5. Distinct(l)
  BY <1>3, <1>4 DEF Distinct
<1>6. \A i \in DOMAIN list : list[i] = list[k] => i = k
  BY DEF Distinct
<1>7. Range(l) \subseteq (Range(list) \ {list[k]}) \cup {y}
  <2> SUFFICES ASSUME NEW i \in DOMAIN list
               PROVE  l[i] \in (Range(list) \ {list[k]}) \cup {y}
    BY <1>3, Zenon DEF Range
  <2>1. CASE i = k
    BY <2>1, <1>3
  <2>2. CASE i # k
    <3>1. l[i] = list[i] /\ list[i] # list[k]
      BY <2>2, <1>3, <1>6
    <3>2. QED  BY <3>1, InRange
  <2>3. QED  BY <2>1, <2>2
<1>8. (Range(list) \ {list[k]}) \cup {y} \subseteq Range(l)
  <2>1. y \in Range(l)
    BY <1>3, Zenon DEF Range
  <2>2. ASSUME NEW i \in DOMAIN list, list[i] # list[k] PROVE list[i] \in Range(l)
    <3>1. i # k
      BY <2>2
    <3>2. l[i] = list[i]
      BY <3>1, <1>3
    <3>3. QED  BY <3>2, <1>3, Zenon DEF Range
  <2>3. Range(list) \ {list[k]} \subseteq Range(l)
    BY <2>2, Zenon DEF Range
  <2>4. QED  BY <2>1, <2>3
<1>9. l = [list EXCEPT ![k].spec = s]
  BY DEF l, y
<1>10. Range(l) = (Range(list) \ {list[k]}) \cup {y}
  BY <1>7, <1>8, Zenon
<1>11. QED
  BY <1>2, <1>3, <1>5, <1>9, <1>10, Zenon DEF y

-----------------------------------------------------------------------------
(* The rules refuse every spec the CRDs do not allow.                      *)
LEMMA RulesSuffice ==
    ASSUME NEW k, NEW s, ~specError(k, s)
    PROVE  Valid(k, s)
<1> DEFINE Sources == s \cap {"image", "source", "inline"}
<1>1. ASSUME Cardinality(Sources) = 1
      PROVE  \E f \in {"image", "source", "inline"} : Sources = {f}
  <2>1. IsFiniteSet(Sources)
    <3>1. IsFiniteSet({"image", "source", "inline"})
      <4>1. /\ IsFiniteSet({"image"})
            /\ IsFiniteSet({"image"} \cup {"source"})
            /\ IsFiniteSet(({"image"} \cup {"source"}) \cup {"inline"})
        BY FS_EmptySet, FS_Singleton, FS_AddElement
      <4>2. ({"image"} \cup {"source"}) \cup {"inline"} = {"image", "source", "inline"}
        OBVIOUS
      <4>3. QED  BY <4>1, <4>2, Zenon
    <3>2. Sources \subseteq {"image", "source", "inline"}
      OBVIOUS
    <3>3. QED  BY <3>1, <3>2, FS_Subset, Zenon
  <2>2. \E f : Sources = {f}
    BY <2>1, <1>1, FS_Singleton
  <2>3. QED  BY <2>2
<1>2. k = "skills" => Cardinality(Sources) = 1 /\ "repeated tag" \notin s
  BY DEF specError
<1>3. k = "skillcollections" =>
         /\ ~("image" \in s <=> "skills" \in s)
         /\ "skills" \in s => "members" \in s
  BY DEF specError
<1>4. QED  BY <1>1, <1>2, <1>3 DEF Valid

-----------------------------------------------------------------------------
(* What a step of a handler leaves behind.                                 *)

GoodList ==
    /\ list \in Seq(Resources)
    /\ Distinct(list)
    /\ UnknownIsEmpty
    /\ ValidSpecs

GoodAnswers ==
    /\ phase \in [Requests -> {"idle", "reading", "answered", "aborted", "lost"}]
    /\ answer \in [Requests -> [status : Nat, shown : SUBSET Resources]]
    /\ NoAnswerYet

\* A step that answers r is one of the abstract hub.
Answers(r) == GoodList' /\ GoodAnswers' /\ Store!Answered(r)

(* Known does not change, nor does what a resource had to begin with.      *)
LEMMA SendTells ==
    ASSUME IInv, NEW r \in Requests, phase[r] \in {"idle", "reading"},
           NEW status \in Nat, NEW shown \in SUBSET Resources,
           Send(r, status, shown)
    PROVE  GoodAnswers' /\ Store!Told(r, status, shown)
<1>1. /\ phase \in [Requests -> {"idle", "reading", "answered", "aborted", "lost"}]
      /\ answer \in [Requests -> [status : Nat, shown : SUBSET Resources]]
  BY DEF IInv, TypeOK
<1>2. answer[r] = Unanswered
  BY DEF IInv, NoAnswerYet
<1>3. /\ phase' = [phase EXCEPT ![r] = "answered"]
      /\ answer' = [answer EXCEPT ![r] = [status |-> status, shown |-> shown]]
  BY DEF Send
<1>4. phase' \in [Requests -> {"idle", "reading", "answered", "aborted", "lost"}]
  BY <1>1, <1>3
<1>5. answer' \in [Requests -> [status : Nat, shown : SUBSET Resources]]
  <2>1. [status |-> status, shown |-> shown] \in [status : Nat, shown : SUBSET Resources]
    OBVIOUS
  <2>2. QED  BY <1>1, <1>3, <2>1, Zenon
<1>6. NoAnswerYet'
  <2> SUFFICES ASSUME NEW q \in Requests, phase'[q] \in {"idle", "reading"}
               PROVE  answer'[q] = Unanswered
    BY DEF NoAnswerYet, Unanswered
  <2>1. q # r
    BY <1>1, <1>3
  <2>2. phase'[q] = phase[q] /\ answer'[q] = answer[q]
    BY <2>1, <1>1, <1>3, Zenon
  <2>3. QED  BY <2>2 DEF IInv, NoAnswerYet
<1>7. Store!Told(r, status, shown)
  BY <1>2, <1>3 DEF Store!Told, Unanswered, Store!Unanswered
<1>8. QED  BY <1>4, <1>5, <1>6, <1>7 DEF GoodAnswers

LEMMA SameList == ASSUME IInv, UNCHANGED <<kind, list>> PROVE GoodList'
BY DEF IInv, TypeOK, GoodList, UnknownIsEmpty, Known, ValidSpecs, Distinct

LEMMA RefuseAnswers ==
    ASSUME IInv, NEW r \in Requests, phase[r] \in {"idle", "reading"},
           UNCHANGED <<kind, want>>,
           NEW status \in {400, 404, 405, 409, 422}, Refuse(r, status),
           status = 404 => ~Store!Taken(want[r].path),
           status = 409 => \E x \in Range(list) : Store!Asked(r, x.name)
    PROVE  Answers(r)
<1>1. status \in Nat /\ status >= 400 /\ {} \in SUBSET Resources
  OBVIOUS
<1>2. Send(r, status, {}) /\ list' = list
  BY DEF Refuse
<1>3. GoodAnswers' /\ Store!Told(r, status, {})
  BY <1>1, <1>2, SendTells
<1>4. GoodList'
  BY <1>2, SameList
<1>5. Range(list)' = Range(list)
  BY <1>2
<1>6. Store!Refuse(r, status)
  BY <1>1, <1>3, <1>5 DEF Store!Refuse
<1>7. QED  BY <1>3, <1>4, <1>6 DEF Answers, Store!Answered

LEMMA ShowAllAnswers ==
    ASSUME IInv, NEW r \in Requests, phase[r] \in {"idle", "reading"},
           UNCHANGED <<kind, want>>,
           want[r].method = "GET", want[r].path = NoName, ShowAll(r)
    PROVE  Answers(r)
<1>1. list \in Seq(Resources) /\ list' = list /\ Send(r, 200, Range(list))
  BY DEF IInv, TypeOK, ShowAll
<1>2. Range(list) \in SUBSET Resources
  BY <1>1 DEF Range
<1>3. GoodAnswers' /\ Store!Told(r, 200, Range(list))
  BY <1>1, <1>2, SendTells
<1>4. {x \in Range(list) : want[r].path \in {NoName, x.name}} = Range(list)
  OBVIOUS
<1>5. Range(list)' = Range(list)
  BY <1>1
<1>6. Store!Show(r)
  BY <1>3, <1>4, <1>5 DEF Store!Show
<1>7. QED  BY <1>1, <1>3, <1>6, SameList DEF Answers, Store!Answered

LEMMA ShowAnswers ==
    ASSUME IInv, NEW r \in Requests, phase[r] \in {"idle", "reading"},
           UNCHANGED <<kind, want>>,
           want[r].method = "GET", want[r].path # NoName, Show(r, want[r].path)
    PROVE  Answers(r)
<1> DEFINE n == want[r].path
           i == First(n)
<1>0. TypeOK /\ Distinct(list)
  BY DEF IInv
<1>1. CASE At(n) = {}
  <2>1. Refuse(r, 404) /\ ~Store!Taken(n)
    BY <1>0, <1>1, NotTaken DEF Show
  <2>2. QED  BY <2>1, RefuseAnswers
<1>2. CASE At(n) # {}
  <2>1. /\ i \in DOMAIN list /\ list[i].name = n /\ list[i] \in Resources
        /\ \A j \in DOMAIN list : list[j].name = n => j = i
    BY <1>0, <1>2, FirstIsOnly
  <2>2. list' = list /\ Send(r, 200, {list[i]})
    BY <1>2 DEF Show
  <2> HIDE DEF i
  <2>3. GoodAnswers' /\ Store!Told(r, 200, {list[i]})
    BY <2>1, <2>2, SendTells
  <2>4. {x \in Range(list) : n \in {NoName, x.name}} = {list[i]}
    BY <2>1 DEF Range
  <2>5. Store!Taken(n)
    BY <2>1, <1>0, InRange DEF Store!Taken
  <2>6. Range(list)' = Range(list)
    BY <2>2
  <2>7. Store!Show(r)
    BY <2>3, <2>4, <2>5, <2>6 DEF Store!Show
  <2>8. QED  BY <2>2, <2>3, <2>7, SameList DEF Answers, Store!Answered
<1>3. QED  BY <1>1, <1>2

LEMMA DeleteAnswers ==
    ASSUME IInv, NEW r \in Requests, phase[r] \in {"idle", "reading"},
           UNCHANGED <<kind, want>>, Known,
           want[r].method = "DELETE", DeleteOf(r, want[r].path)
    PROVE  Answers(r)
<1> DEFINE n == want[r].path
           i == First(n)
<1>0. TypeOK /\ Distinct(list)
  BY DEF IInv
<1>1. CASE At(n) = {}
  <2>1. Refuse(r, 404) /\ ~Store!Taken(n)
    BY <1>0, <1>1, NotTaken DEF DeleteOf
  <2>2. QED  BY <2>1, RefuseAnswers
<1>2. CASE At(n) # {}
  <2>1. i \in DOMAIN list /\ list[i].name = n
    BY <1>0, <1>2, FirstIsOnly
  <2>2. list' = RemoveAt(list, i) /\ Send(r, 204, {})
    BY <1>2 DEF DeleteOf
  <2> HIDE DEF i
  <2>3. GoodAnswers' /\ Store!Told(r, 204, {})
    BY <2>2, SendTells
  <2>4. list' \in Seq(Resources) /\ Distinct(list') /\ Range(list') = Range(list) \ {list[i]}
    BY <2>1, <2>2, <1>0, Deleted
  <2>5. list[i] \in Range(list)
    BY <2>1, <1>0, InRange
  <2>6. GoodList'
    BY <2>4 DEF GoodList, IInv, UnknownIsEmpty, Known, ValidSpecs, Distinct
  <2>7. Store!Delete(r, list[i])
    BY <2>1, <2>3, <2>4 DEF Store!Delete
  <2>8. QED  BY <2>3, <2>5, <2>6, <2>7 DEF Answers, Store!Answered
<1>3. QED  BY <1>1, <1>2

LEMMA CreateAnswers ==
    ASSUME IInv, NEW r \in Requests, phase[r] \in {"idle", "reading"},
           UNCHANGED <<kind, want>>, Known, want[r].method = "POST",
           NEW n \in Names, Store!Asked(r, n), CreateAs(r, n)
    PROVE  Answers(r)
<1> DEFINE x == Made(r, n)
<1>0. TypeOK /\ Distinct(list)
  BY DEF IInv
<1>1. CASE specError(kind, want[r].spec)
  <2>1. Refuse(r, 422)
    BY <1>1 DEF CreateAs
  <2>2. QED  BY <2>1, RefuseAnswers
<1>2. CASE At(n) # {}
  <2>1. CASE ~specError(kind, want[r].spec)
    <3>1. Refuse(r, 409)
      BY <1>2, <2>1 DEF CreateAs, Found
    <3>2. \E y \in Range(list) : Store!Asked(r, y.name)
      BY <1>0, <1>2, FirstIsOnly, InRange
    <3>3. QED  BY <3>1, <3>2, RefuseAnswers
  <2>2. QED  BY <1>1, <2>1
<1>3. CASE ~specError(kind, want[r].spec) /\ At(n) = {}
  <2>1. x \in Resources /\ x.name = n /\ x.spec = want[r].spec
    BY <1>0, Requested DEF Made, Resources
  <2>2. list' = Append(list, x) /\ Send(r, 201, {x})
    BY <1>3 DEF CreateAs, Found
  <2> HIDE DEF x
  <2>3. GoodAnswers' /\ Store!Told(r, 201, {x})
    BY <2>1, <2>2, SendTells
  <2>4. list' \in Seq(Resources) /\ Distinct(list') /\ Range(list') = Range(list) \cup {x}
    BY <2>1, <2>2, <1>0, <1>3, Added
  <2>5. Valid(kind, x.spec)
    BY <2>1, <1>3, RulesSuffice
  <2>6. GoodList'
    BY <2>4, <2>5 DEF GoodList, IInv, UnknownIsEmpty, Known, ValidSpecs, Distinct
  <2>7. ~Store!Taken(n)
    BY <1>0, <1>3, NotTaken
  <2>8. Store!Create(r, x)
    BY <2>1, <2>3, <2>4, <2>7 DEF Store!Create
  <2>9. QED  BY <2>3, <2>4, <2>6, <2>8 DEF Answers, Store!Answered
<1>4. QED  BY <1>1, <1>2, <1>3

LEMMA UpdateAnswers ==
    ASSUME IInv, NEW r \in Requests, phase[r] \in {"idle", "reading"},
           UNCHANGED <<kind, want>>, Known, want[r].method = "PUT", Update(r)
    PROVE  Answers(r)
<1> DEFINE n == want[r].path
           i == First(n)
           s == Kept(r, i)
           y == [list[i] EXCEPT !.spec = s]
<1>0. TypeOK /\ Distinct(list)
  BY DEF IInv
<1>1. CASE At(n) = {}
  <2>1. Refuse(r, 404) /\ ~Store!Taken(n)
    BY <1>0, <1>1, NotTaken DEF Update, Found
  <2>2. QED  BY <2>1, RefuseAnswers
<1>2. CASE At(n) # {}
  <2>1. i \in DOMAIN list /\ list[i].name = n /\ list[i] \in Resources
    BY <1>0, <1>2, FirstIsOnly
  <2>2. UpdateAt(r, i)
    BY <1>2 DEF Update, Found
  <2> HIDE DEF i
  <2>3. s \in Specs /\ s \in {list[i].spec, want[r].spec}
    BY <2>1, <1>0, Requested DEF Kept, Resources
  <2>4. CASE want[r].json = "broken"
    <3>1. Refuse(r, 400)
      BY <2>2, <2>4 DEF UpdateAt
    <3>2. QED  BY <3>1, RefuseAnswers
  <2>5. CASE want[r].json # "broken" /\ specError(kind, s)
    <3>1. Refuse(r, 422)
      BY <2>2, <2>5 DEF UpdateAt
    <3>2. QED  BY <3>1, RefuseAnswers
  <2>6. CASE want[r].json # "broken" /\ ~specError(kind, s)
    <3>1. list' = [list EXCEPT ![i].spec = s] /\ Send(r, 204, {})
      BY <2>2, <2>6 DEF UpdateAt
    <3> HIDE DEF s
    <3>2. GoodAnswers' /\ Store!Told(r, 204, {})
      BY <3>1, SendTells
    <3>3. /\ list' \in Seq(Resources) /\ Distinct(list')
          /\ y.name = list[i].name /\ y.spec = s
          /\ Range(list') = (Range(list) \ {list[i]}) \cup {y}
      BY <3>1, <2>1, <2>3, <1>0, Changed
    <3> HIDE DEF y
    <3>4. Valid(kind, s) /\ list[i] \in Range(list)
      BY <2>1, <2>6, <1>0, RulesSuffice, InRange
    <3>5. DOMAIN list' = DOMAIN list
      BY <3>1
    <3>6. GoodList'
      <4>1. UnknownIsEmpty' /\ Distinct(list)'
        BY <3>3, Zenon DEF UnknownIsEmpty, Known, Distinct
      <4>2. ValidSpecs'
        BY <3>3, <3>4 DEF IInv, ValidSpecs
      <4>3. QED  BY <3>3, <4>1, <4>2 DEF GoodList
    <3>7. Store!Update(r, list[i], y)
      BY <2>1, <2>3, <3>2, <3>3 DEF Store!Update
    <3>8. y \in Range(list')
      BY <3>3
    <3>9. QED  BY <3>2, <3>4, <3>6, <3>7, <3>8 DEF Answers, Store!Answered
  <2>7. QED  BY <2>4, <2>5, <2>6
<1>3. QED  BY <1>1, <1>2

-----------------------------------------------------------------------------
(* The actions.                                                            *)

LEMMA Routes ==
    ASSUME NEW m
    PROVE  /\ Shows(m) => Known /\ m.method = "GET"
           /\ Creates(m) => Known /\ m.method = "POST"
           /\ Updates(m) => Known /\ m.method = "PUT"
           /\ Deletes(m) => Known /\ m.method = "DELETE"
BY Zenon DEF Shows, Creates, Updates, Deletes, Known

\* What is left of the invariant when list and answers are good.
Rest ==
    /\ up \in BOOLEAN /\ kind \in DOMAIN Fixture
    /\ want \in [Requests -> Messages]
    /\ generated \subseteq Generated

LEMMA Parts == Rest /\ GoodList /\ GoodAnswers => IInv
BY DEF IInv, TypeOK, Rest, GoodList, GoodAnswers

LEMMA PartsNext == Rest' /\ GoodList' /\ GoodAnswers' => IInv'
BY DEF IInv, TypeOK, Rest, GoodList, GoodAnswers

LEMMA ArriveKeeps ==
    ASSUME IInv, NEW r \in Requests, Arrive(r)
    PROVE  IInv' /\ [Store!Next]_(Store!vars)
<1>1. /\ up /\ phase[r] = "idle" /\ UNCHANGED <<up, kind, want, generated>>
      /\ Rest'
  BY DEF Arrive, IInv, TypeOK, Rest
<1>2. TypeOK
  BY DEF IInv
<1>3. CASE (Creates(want[r]) \/ Updates(want[r])) /\ phase' = [phase EXCEPT ![r] = "reading"]
           /\ UNCHANGED <<list, answer>>
  <2>1. GoodAnswers'
    BY <1>1, <1>2, <1>3 DEF IInv, TypeOK, GoodAnswers, NoAnswerYet, Unanswered
  <2>2. GoodList' /\ Range(list)' = Range(list)
    BY <1>1, <1>3, SameList
  <2>3. UNCHANGED Store!vars
    BY <1>1, <1>3, <2>2 DEF Store!vars
  <2>4. QED  BY <1>1, <2>1, <2>2, <2>3, PartsNext
<1>4. CASE ~((Creates(want[r]) \/ Updates(want[r])) /\ phase' = [phase EXCEPT ![r] = "reading"]
             /\ UNCHANGED <<list, answer>>)
  <2>1. Answers(r)
    <3>1. CASE Shows(want[r]) /\ want[r].path = NoName /\ ShowAll(r)
      BY <3>1, <1>1, <1>2, Routes, ShowAllAnswers
    <3>2. CASE Shows(want[r]) /\ want[r].path # NoName /\ Show(r, want[r].path)
      BY <3>2, <1>1, <1>2, Routes, ShowAnswers
    <3>3. CASE Deletes(want[r]) /\ DeleteOf(r, want[r].path)
      BY <3>3, <1>1, <1>2, Routes, DeleteAnswers
    <3>4. CASE ~Routed(want[r]) /\ Refuse(r, IF Known THEN 405 ELSE 404)
      <4>1. CASE Known
        <5>1. Refuse(r, 405)
          BY <3>4, <4>1
        <5>2. QED  BY <5>1, <1>1, RefuseAnswers
      <4>2. CASE ~Known
        <5>1. Refuse(r, 404) /\ list = <<>>
          BY <3>4, <4>2 DEF IInv, UnknownIsEmpty
        <5>2. ~Store!Taken(want[r].path)
          BY <5>1 DEF Store!Taken, Range
        <5>3. QED  BY <5>1, <5>2, <1>1, RefuseAnswers
      <4>3. QED  BY <4>1, <4>2
    <3>5. QED  BY <1>4, <3>1, <3>2, <3>3, <3>4 DEF Arrive
  <2>2. DOMAIN want = Requests
    BY <1>2 DEF TypeOK
  <2>3. Store!Next
    BY <1>1, <2>1, <2>2 DEF Answers, Store!Next
  <2>4. QED  BY <1>1, <2>1, <2>3, PartsNext DEF Answers
<1>5. QED  BY <1>3, <1>4

LEMMA BodyEndsKeeps ==
    ASSUME IInv, NEW r \in Requests, BodyEnds(r)
    PROVE  IInv' /\ [Store!Next]_(Store!vars)
<1>1. /\ up /\ phase[r] = "reading" /\ UNCHANGED <<up, kind, want>>
      /\ up' \in BOOLEAN /\ kind' \in DOMAIN Fixture /\ want' \in [Requests -> Messages]
  BY DEF BodyEnds, IInv, TypeOK
<1>2. TypeOK
  BY DEF IInv
<1>3. Answers(r) /\ generated' \subseteq Generated
  <2>1. CASE Creates(want[r]) /\ Create(r)
    <3>1. Known /\ want[r].method = "POST"
      BY <2>1, <1>2, Routes
    <3>2. CASE Refuse(r, 400) /\ UNCHANGED generated
      BY <3>2, <1>1, <1>2, RefuseAnswers DEF TypeOK
    <3>3. CASE want[r].as # NoName /\ CreateAs(r, want[r].as) /\ UNCHANGED generated
      <4>1. want[r].as \in Names /\ Store!Asked(r, want[r].as)
        BY <3>3, <1>2, Requested DEF Store!Asked
      <4>2. QED  BY <3>1, <3>3, <4>1, <1>1, <1>2, CreateAnswers DEF TypeOK
    <3>4. ASSUME NEW n \in Generated \ generated, want[r].as = NoName, want[r].generate,
                 CreateAs(r, n), generated' = generated \cup {n}
          PROVE  Answers(r) /\ generated' \subseteq Generated
      <4>1. n \in Names /\ Store!Asked(r, n)
        BY <3>4 DEF Store!Asked
      <4>2. Answers(r)
        BY <3>1, <3>4, <4>1, <1>1, CreateAnswers
      <4>3. QED  BY <3>4, <4>2, <1>2 DEF TypeOK
    <3>5. QED  BY <2>1, <3>2, <3>3, <3>4 DEF Create
  <2>2. CASE Updates(want[r]) /\ Update(r) /\ UNCHANGED generated
    <3>1. Known /\ want[r].method = "PUT"
      BY <2>2, <1>2, Routes
    <3>2. QED  BY <2>2, <3>1, <1>1, <1>2, UpdateAnswers DEF TypeOK
  <2>3. QED  BY <2>1, <2>2 DEF BodyEnds
<1>4. DOMAIN want = Requests
  BY <1>2 DEF TypeOK
<1>5. Store!Next
  BY <1>1, <1>3, <1>4 DEF Answers, Store!Next
<1>6. Rest'
  BY <1>1, <1>3 DEF Rest
<1>7. QED  BY <1>3, <1>5, <1>6, PartsNext DEF Answers

(* What ends a request without an answer leaves the resources alone.       *)
LEMMA LossKeeps ==
    ASSUME IInv, NEW r \in Requests, Crash(r) \/ Aborted(r)
    PROVE  IInv' /\ [Store!Next]_(Store!vars)
<1>1. /\ UNCHANGED <<kind, want, list, generated, answer>> /\ up' \in BOOLEAN
      /\ UNCHANGED up \/ (up /\ up' = FALSE)
  BY Zenon DEF Crash, Aborted, IInv, TypeOK
<1>2. phase' \in [Requests -> {"idle", "reading", "answered", "aborted", "lost"}]
  BY DEF Crash, Aborted, IInv, TypeOK
<1>3. \A q \in Requests : phase'[q] \in {"idle", "reading"} => phase[q] = phase'[q]
  BY DEF Crash, Aborted, IInv, TypeOK
<1>4. GoodAnswers'
  BY <1>1, <1>2, <1>3 DEF GoodAnswers, IInv, TypeOK, NoAnswerYet, Unanswered
<1>5. GoodList' /\ Range(list)' = Range(list)
  BY <1>1, SameList
<1>6. Rest'
  BY <1>1 DEF Rest, IInv, TypeOK
<1>7. UNCHANGED Store!vars \/ Store!Stop
  BY <1>1, <1>5 DEF Store!vars, Store!Stop
<1>8. Store!Next \/ UNCHANGED Store!vars
  BY <1>1, <1>7 DEF Store!Next
<1>9. QED  BY <1>4, <1>5, <1>6, <1>8, PartsNext

LEMMA FixtureIsGood ==
    ASSUME NEW k \in DOMAIN Fixture
    PROVE  /\ Fixture[k] \in Seq(Resources) /\ Distinct(Fixture[k])
           /\ k \notin CONFIG_KINDS \cup RUN_KINDS => Fixture[k] = <<>>
OBVIOUS

LEMMA RestartKeeps ==
    ASSUME IInv, Restart
    PROVE  IInv' /\ [Store!Next]_(Store!vars)
<1>1. /\ ~up /\ up' = TRUE /\ list' = Fixture[kind] /\ generated' = {}
      /\ UNCHANGED <<kind, want, phase, answer>> /\ kind \in DOMAIN Fixture
  BY DEF Restart, IInv, TypeOK
<1>2. Rest' /\ GoodAnswers'
  BY <1>1 DEF IInv, TypeOK, Rest, GoodAnswers, NoAnswerYet, Unanswered
<1>3. GoodList'
  BY <1>1, FixtureIsGood DEF GoodList, UnknownIsEmpty, Known, ValidSpecs, Distinct
<1>4. Store!Next
  BY <1>1 DEF Store!Next, Store!Restart
<1>5. QED  BY <1>2, <1>3, <1>4, PartsNext

LEMMA Starts == ASSUME Init PROVE IInv /\ Store!Init
<1>1. kind \in DOMAIN Fixture /\ list = Fixture[kind] /\ want \in [Requests -> Messages]
  BY DEF Init
<1>2. Rest
  BY <1>1 DEF Init, Rest
<1>3. GoodList
  BY <1>1, FixtureIsGood DEF GoodList, UnknownIsEmpty, Known, ValidSpecs
<1>4. [status |-> 0, shown |-> {}] \in [status : Nat, shown : SUBSET Resources]
  OBVIOUS
<1>5. GoodAnswers
  BY <1>4 DEF Init, GoodAnswers, NoAnswerYet, Unanswered
<1>6. Store!Init
  BY <1>1 DEF Init, Store!Init, Unanswered, Store!Unanswered
<1>7. QED  BY <1>2, <1>3, <1>5, <1>6, Parts

LEMMA Steps == IInv /\ [Next]_vars => IInv' /\ [Store!Next]_(Store!vars)
<1> SUFFICES ASSUME IInv, [Next]_vars PROVE IInv' /\ [Store!Next]_(Store!vars)
  OBVIOUS
<1>1. ASSUME NEW r \in Requests, Arrive(r) \/ BodyEnds(r) \/ Crash(r) \/ Aborted(r)
      PROVE  IInv' /\ [Store!Next]_(Store!vars)
  BY <1>1, ArriveKeeps, BodyEndsKeeps, LossKeeps
<1>2. CASE UNCHANGED vars
  <2>1. IInv'
    BY <1>2 DEF vars, IInv, TypeOK, NoAnswerYet, Unanswered, UnknownIsEmpty, Known,
                ValidSpecs, Distinct
  <2>2. UNCHANGED Store!vars
    BY <1>2 DEF vars, Store!vars
  <2>3. QED  BY <2>1, <2>2
<1>3. QED  BY <1>1, <1>2, RestartKeeps DEF Next

-----------------------------------------------------------------------------
(* The types, and one resource to a name at most (that the check for       *)
(* duplicates comes after the await, and that nothing is awaited between   *)
(* it and the push).                                                       *)
THEOREM NamesAreUnique == Spec => [](TypeOK /\ Distinct(list))
<1>1. IInv => TypeOK /\ Distinct(list)
  BY DEF IInv
<1>2. QED  BY <1>1, Starts, Steps, PTL DEF Spec

(* No client gets a spec into the store that the CRDs refuse.              *)
THEOREM SpecsStayValid == Spec => []ValidSpecs
<1>1. IInv => ValidSpecs
  BY DEF IInv
<1>2. QED  BY <1>1, Starts, Steps, PTL DEF Spec

(* The resource API of the mock implements the hub its clients expect.     *)
THEOREM HubImplementsStore == Spec => StoreSpec
BY Starts, Steps, PTL DEF Spec, StoreSpec, Store!Spec
=============================================================================
