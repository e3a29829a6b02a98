--------------------------- MODULE ResourceStore ---------------------------
(***************************************************************************)
(* What a hub promises its clients about the resources of one kind: a      *)
(* request is answered once, takes effect in the step that settles its     *)
(* answer or never, and the answer is true of that moment. A name belongs  *)
(* to one resource at most, and a resource is changed by requests that     *)
(* name it and by nothing else, except that a hub that has stopped may be  *)
(* started afresh.                                                         *)
(***************************************************************************)
EXTENDS Naturals

CONSTANTS
    NoName,     \* no name in the path, or none in the body
    Stock       \* Stock[k]: the resources of kind k a hub starts with

VARIABLES
    up,         \* the hub runs
    kind,       \* the kind of resource this is about
    want,       \* want[r]: what request r asks for
    res,        \* the resources kept, a set of [name, spec]
    answer      \* answer[r]: status and resources shown, 0 while unanswered

vars == <<up, kind, want, res, answer>>

Unanswered == [status |-> 0, shown |-> {}]

Taken(n) == \E x \in res : x.name = n

Init ==
    /\ up = TRUE
    /\ kind \in DOMAIN Stock
    /\ res = Stock[kind]
    /\ answer = [r \in DOMAIN want |-> Unanswered]

Told(r, status, shown) ==
    /\ answer[r] = Unanswered
    /\ answer' = [answer EXCEPT ![r] = [status |-> status, shown |-> shown]]

(* The resource x has the name asked for; with generateName, any name.     *)
Asked(r, n) ==
    want[r].as = n \/ (want[r].as = NoName /\ want[r].generate)

Create(r, x) ==
    /\ want[r].method = "POST"
    /\ Asked(r, x.name) /\ x.spec = want[r].spec
    /\ ~Taken(x.name)
    /\ res' = res \cup {x}
    /\ Told(r, 201, {x})

(* The spec of the resource named changes; of a body without one, nothing. *)
Update(r, x, y) ==
    /\ want[r].method = "PUT"
    /\ x.name = want[r].path /\ y.name = x.name
    /\ y.spec \in {x.spec, want[r].spec}
    /\ res' = (res \ {x}) \cup {y}
    /\ Told(r, 204, {})

Delete(r, x) ==
    /\ want[r].method = "DELETE"
    /\ x.name = want[r].path
    /\ res' = res \ {x}
    /\ Told(r, 204, {})

Show(r) ==
    /\ want[r].method = "GET"
    /\ want[r].path # NoName => Taken(want[r].path)
    /\ Told(r, 200, {x \in res : want[r].path \in {NoName, x.name}})
    /\ UNCHANGED res

(* 404: there is no such resource; 409: there is one already; any other    *)
(* refusal is of the request itself.                                       *)
Refuse(r, status) ==
    /\ status >= 400
    /\ status = 404 => ~Taken(want[r].path)
    /\ status = 409 => \E x \in res : Asked(r, x.name)
    /\ Told(r, status, {})
    /\ UNCHANGED res

(* The hub stops, with its resources; it starts again with the first ones. *)
Stop    == up /\ up' = FALSE /\ UNCHANGED <<res, answer>>
Restart == ~up /\ up' = TRUE /\ res' = Stock[kind] /\ UNCHANGED answer

Answered(r) ==
    \/ \E x \in res' : Create(r, x)
    \/ \E x \in res, y \in res' : Update(r, x, y)
    \/ \E x \in res : Delete(r, x)
    \/ Show(r)
    \/ \E status \in {400, 404, 405, 409, 422} : Refuse(r, status)

Next ==
    /\ UNCHANGED <<kind, want>>
    /\ \/ Stop \/ Restart
       \/ up /\ UNCHANGED up /\ \E r \in DOMAIN want : Answered(r)

Spec == Init /\ [][Next]_vars
=============================================================================
