------------------------------ MODULE HubStore ------------------------------
(***************************************************************************)
(* The resource API of the mock hub, hack/mock-inventory-stack.mjs: list,  *)
(* get, create, update and delete of the resources of one kind (each kind  *)
(* has a list of its own and they do not meet).                            *)
(*                                                                         *)
(* The server is one thread. A GET or DELETE is one action. A POST or PUT  *)
(* awaits its body: it is routed when its headers come (Arrive), and does  *)
(* the rest when the body is complete (BodyEnds), with other requests in   *)
(* between. A body that is JSON null makes the PUT handler throw; it is    *)
(* async, so that nobody catches it and the process ends.                  *)
(*                                                                         *)
(* Left out: labels, time stamps and the wording of errors; of a spec only *)
(* what specError looks at.                                                *)
(***************************************************************************)
EXTENDS Naturals, Sequences, FiniteSets, SequencesExt

CONSTANTS
    Requests,    \* the requests that clients make
    Messages,    \* what they may ask for: a subset of AllMessages
    Names,       \* names of resources
    Generated,   \* those that generateName can come to
    NoName,      \* none
    Fixture      \* Fixture[k]: the resources of kind k at the start

CONFIG_KINDS == {"agents", "skills", "skillcollections", "gateways", "workflows"}
RUN_KINDS    == {"agentruns", "workflowruns"}

\* What specError can tell apart: the fields a spec has, that a tag of it is
\* repeated, that its list of skills has members. No spec at all is NoSpec.
Fields == {"image", "source", "inline", "repeated tag", "skills", "members"}
NoSpec == {"absent"}
Specs  == SUBSET Fields \cup {NoSpec}

Resources == [name : Names, spec : Specs]

\* path: the name in the URL; json: what the body parses to; as, generate,
\* spec: metadata.name, whether there is a generateName, and the spec.
AllMessages ==
    [method : {"GET", "POST", "PUT", "DELETE"}, path : Names \cup {NoName},
     json : {"object", "null", "broken"}, as : Names \cup {NoName},
     generate : BOOLEAN, spec : Specs]

\* No two entries of a list have one name.
Distinct(l) == \A i, j \in DOMAIN l : l[i].name = l[j].name => i = j

ASSUME StoreAssumption ==
    /\ Messages \subseteq AllMessages
    /\ Generated \subseteq Names /\ NoName \notin Names
    /\ \A k \in DOMAIN Fixture :
          /\ Fixture[k] \in Seq(Resources) /\ Distinct(Fixture[k])
          /\ k \notin CONFIG_KINDS \cup RUN_KINDS => Fixture[k] = <<>>

VARIABLES
    up,          \* the process runs
    kind,        \* the kind the requests are about
    want,        \* want[r]: what r asks for
    list,        \* store[kind]
    generated,   \* the names generated so far (createCounter)
    phase,       \* of each request: idle, reading its body; answered, aborted
                 \* by its client, or lost with the process
    answer       \* what it was answered with

vars == <<up, kind, want, list, generated, phase, answer>>

Unanswered == [status |-> 0, shown |-> {}]

Init ==
    /\ up = TRUE
    /\ kind \in DOMAIN Fixture
    /\ want \in [Requests -> Messages]
    /\ list = Fixture[kind]
    /\ generated = {}
    /\ phase = [r \in Requests |-> "idle"]
    /\ answer = [r \in Requests |-> Unanswered]

-----------------------------------------------------------------------------
(* Parts of handlers.                                                      *)

Known == kind \in CONFIG_KINDS \cup RUN_KINDS

\* The routes of the kinds: a run is neither changed nor deleted.
Shows(m)   == Known /\ m.method = "GET"
Creates(m) == Known /\ m.method = "POST" /\ m.path = NoName
Updates(m) == kind \in CONFIG_KINDS /\ m.method = "PUT" /\ m.path # NoName
Deletes(m) == kind \in CONFIG_KINDS /\ m.method = "DELETE" /\ m.path # NoName
Routed(m)  == Shows(m) \/ Creates(m) \/ Updates(m) \/ Deletes(m)

\* The positions of the entries with name n; findIndex takes the first.
At(n) == {i \in DOMAIN list : list[i].name = n}
First(n) == CHOOSE i \in At(n) : \A j \in At(n) : i <= j

\* Mutant: nobody looks before a create.
FoundNotAsked(r, n) == want[r].method = "PUT" /\ At(n) # {}

Found(r, n) == At(n) # {}

\* Mutant: one source or none will do.
SkillRuleLax(k, s) ==
    k = "skills" /\ Cardinality(s \cap {"image", "source", "inline"}) > 1

(* The rules of the CRDs: presence counts.                                 *)
specError(k, s) ==
    \/ /\ k = "skills"
       /\ \/ Cardinality(s \cap {"image", "source", "inline"}) # 1
          \/ "repeated tag" \in s
    \/ /\ k = "skillcollections"
       /\ \/ "image" \in s <=> "skills" \in s
          \/ "skills" \in s /\ "members" \notin s

Send(r, status, shown) ==
    /\ phase' = [phase EXCEPT ![r] = "answered"]
    /\ answer' = [answer EXCEPT ![r] = [status |-> status, shown |-> shown]]

Refuse(r, status) == Send(r, status, {}) /\ UNCHANGED list

-----------------------------------------------------------------------------
(* Handlers.                                                               *)

ShowAll(r) == Send(r, 200, Range(list)) /\ UNCHANGED list

Show(r, n) ==
    IF At(n) = {} THEN Refuse(r, 404)
    ELSE Send(r, 200, {list[First(n)]}) /\ UNCHANGED list

DeleteOf(r, n) ==
    IF At(n) = {} THEN Refuse(r, 404)
    ELSE list' = RemoveAt(list, First(n)) /\ Send(r, 204, {})

(* The headers of r have come. What needs no body is answered at once.     *)
Arrive(r) ==
    /\ up /\ phase[r] = "idle"
    /\ \/ Shows(want[r]) /\ want[r].path = NoName /\ ShowAll(r)
       \/ Shows(want[r]) /\ want[r].path # NoName /\ Show(r, want[r].path)
       \/ Deletes(want[r]) /\ DeleteOf(r, want[r].path)
       \/ ~Routed(want[r]) /\ Refuse(r, IF Known THEN 405 ELSE 404)
       \/ /\ (Creates(want[r]) \/ Updates(want[r]))
          /\ phase' = [phase EXCEPT ![r] = "reading"]
          /\ UNCHANGED <<list, answer>>
    /\ UNCHANGED <<up, kind, want, generated>>

(* The rest of POST: a name of its own for generateName (a counter is part *)
(* of it: no two are alike), the rules, the check for duplicates, the push.*)
Made(r, n) == [name |-> n, spec |-> want[r].spec]

CreateAs(r, n) ==
    IF specError(kind, want[r].spec) THEN Refuse(r, 422)
    ELSE IF Found(r, n) THEN Refuse(r, 409)
    ELSE /\ list' = Append(list, Made(r, n))
         /\ Send(r, 201, {Made(r, n)})

Create(r) ==
    IF want[r].json # "object" \/ (want[r].as = NoName /\ ~want[r].generate)
    THEN Refuse(r, 400) /\ UNCHANGED generated
    ELSE IF want[r].as # NoName
    THEN CreateAs(r, want[r].as) /\ UNCHANGED generated
    ELSE \E n \in Generated \ generated :
            CreateAs(r, n) /\ generated' = generated \cup {n}

(* The rest of PUT: 404 first; a body without a spec keeps the old one.    *)
Kept(r, i) == IF want[r].spec = NoSpec THEN list[i].spec ELSE want[r].spec

UpdateAt(r, i) ==
    IF want[r].json = "broken" THEN Refuse(r, 400)
    ELSE IF specError(kind, Kept(r, i)) THEN Refuse(r, 422)
    ELSE list' = [list EXCEPT ![i].spec = Kept(r, i)] /\ Send(r, 204, {})

Update(r) ==
    IF ~Found(r, want[r].path) THEN Refuse(r, 404)
    ELSE UpdateAt(r, First(want[r].path))

\* Mutant: a body that does not parse throws as well.
ThrowsUnparsed(r) ==
    want[r].json # "object" /\ Updates(want[r]) /\ Found(r, want[r].path)

Throws(r) ==
    /\ Updates(want[r]) /\ want[r].json = "null"
    /\ Found(r, want[r].path)

(* The body of r is complete.                                              *)
BodyEnds(r) ==
    /\ up /\ phase[r] = "reading" /\ ~Throws(r)
    /\ \/ Creates(want[r]) /\ Create(r)
       \/ Updates(want[r]) /\ Update(r) /\ UNCHANGED generated
    /\ UNCHANGED <<up, kind, want>>

(* cr.spec of null: the process ends, and every request under way with it. *)
Crash(r) ==
    /\ up /\ phase[r] = "reading" /\ Throws(r)
    /\ up' = FALSE
    /\ phase' = [q \in Requests |-> IF phase[q] = "reading" THEN "lost" ELSE phase[q]]
    /\ UNCHANGED <<kind, want, list, generated, answer>>

(* The client goes away before its body is complete: "end" never comes.    *)
Aborted(r) ==
    /\ up /\ phase[r] = "reading"
    /\ phase' = [phase EXCEPT ![r] = "aborted"]
    /\ UNCHANGED <<up, kind, want, list, generated, answer>>

(* Somebody starts the mock again.                                         *)
Restart ==
    /\ ~up /\ up' = TRUE
    /\ list' = Fixture[kind] /\ generated' = {}
    /\ UNCHANGED <<kind, want, phase, answer>>

Next ==
    \/ \E r \in Requests : Arrive(r) \/ BodyEnds(r) \/ Crash(r) \/ Aborted(r)
    \/ Restart

Spec == Init /\ [][Next]_vars

(* A body that is under way comes to its end.                              *)
Fairness == \A r \in Requests : WF_vars(BodyEnds(r) \/ Crash(r))

FairSpec == Spec /\ Fairness

-----------------------------------------------------------------------------
(* Properties.                                                             *)

(* Every variable keeps to its type.                                       *)
TypeOK ==
    /\ up \in BOOLEAN /\ kind \in DOMAIN Fixture
    /\ want \in [Requests -> Messages]
    /\ list \in Seq(Resources)
    /\ generated \subseteq Generated
    /\ phase \in [Requests -> {"idle", "reading", "answered", "aborted", "lost"}]
    /\ answer \in [Requests -> [status : Nat, shown : SUBSET Resources]]

(* The mock keeps a hub's promise: whatever happens to the list while a    *)
(* body is awaited, a create adds one resource under a free name, an       *)
(* update or delete touches the resource it names, nothing deleted comes   *)
(* back, and each answer is true when it is given.                         *)
Store == INSTANCE ResourceStore WITH
            Stock <- [k \in DOMAIN Fixture |-> Range(Fixture[k])],
            res   <- Range(list)

StoreSpec == Store!Spec

(* What the CRDs ask of a spec (the comment on specError): exactly one     *)
(* source; image or skills, not both and not neither; members if skills.   *)
Valid(k, s) ==
    /\ k = "skills" => "repeated tag" \notin s
                       /\ \E f \in {"image", "source", "inline"} :
                             s \cap {"image", "source", "inline"} = {f}
    /\ k = "skillcollections" =>
          \/ "image" \in s /\ "skills" \notin s
          \/ "image" \notin s /\ {"skills", "members"} \subseteq s

(* No resource a client made or changed has a spec the CRDs refuse.        *)
ValidSpecs ==
    \A x \in Range(list) : Valid(kind, x.spec) \/ x \in Range(Fixture[kind])

(* A request whose body is under way is answered, unless its client goes   *)
(* away or it is lost with the process, which a PUT of null took down.     *)
AnsweredUnlessNull ==
    \A r \in Requests :
       phase[r] = "reading" ~>
          \/ phase[r] \in {"answered", "aborted"}
          \/ /\ phase[r] = "lost"
             /\ \E q \in Requests : phase[q] = "lost" /\ want[q].method = "PUT"
                                  /\ want[q].json = "null"
=============================================================================
