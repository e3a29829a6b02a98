----------------------------- MODULE ShimClient -----------------------------
(***************************************************************************)
(* One call of the HTTP client, packages/agentic-client/src/transport-shim *)
(* /index.ts, from the fetch to the promise it gave its caller. Calls      *)
(* share nothing, so one is enough. The server is external: it does what   *)
(* it is asked to or refuses, and the network may lose the request, the    *)
(* response or a part of its body.                                         *)
(***************************************************************************)
EXTENDS Naturals, FiniteSets

VARIABLES
    op,         \* what is called, a member of Operations
    step,       \* calling, fetching, answering (the headers are under way),
                \* reading the body, done
    effects,    \* how often the server has done what the call asks for
    reply,      \* the server's answer: whether it is 2xx, and its body
    outcome     \* what the caller gets: resolved or rejected, and with what

callVars == <<op, step, effects, reply, outcome>>

-----------------------------------------------------------------------------
(* The table of operations. Those that reads is FALSE of promise nothing   *)
(* but their success, and do not read the body.                            *)

Listed  == {"agents", "applications", "images", "agentruns", "agentworkflows",
            "agentworkflowruns", "gateways", "skillcards", "skillcollections"}
Changed == {"agents", "agentworkflows", "skillcards", "skillcollections"}
Made    == Changed \cup {"agentruns", "agentworkflowruns"}

Operation(method, of, one, reads) ==
    [method |-> method, of |-> of, one |-> one, reads |-> reads]

Operations ==
    {Operation("GET", k, FALSE, TRUE) : k \in Listed}
    \cup {Operation("GET", k, TRUE, TRUE) : k \in Listed \ {"applications", "images"}}
    \cup {Operation("POST", k, FALSE, TRUE) : k \in Made \cup {"defaults"}}
    \cup {Operation("PUT", k, TRUE, TRUE) : k \in Changed}
    \cup {Operation("DELETE", k, TRUE, FALSE) : k \in Made}

Writes(o) == o.method # "GET"

Nothing == "nothing"

Init ==
    /\ op \in Operations
    /\ step = "calling" /\ effects = 0
    /\ reply = [ok |-> FALSE, body |-> "empty"]
    /\ outcome = [how |-> "pending", with |-> Nothing]

-----------------------------------------------------------------------------

Settle(how, with) ==
    /\ step' = "done"
    /\ outcome' = [how |-> how, with |-> with]
    /\ UNCHANGED <<op, effects, reply>>

Fetch ==
    /\ step = "calling" /\ step' = "fetching"
    /\ UNCHANGED <<op, effects, reply, outcome>>

(* The server does it, and shows the result or sends no body; or refuses.  *)
Serves ==
    /\ step = "fetching" /\ step' = "answering"
    /\ \/ /\ reply' \in {[ok |-> TRUE, body |-> b] : b \in {"value", "empty"}}
          /\ effects' = IF Writes(op) THEN effects + 1 ELSE effects
       \/ /\ reply' \in {[ok |-> FALSE, body |-> b] : b \in {"error", "empty"}}
          /\ UNCHANGED effects
    /\ UNCHANGED <<op, outcome>>

(* fetch rejects: the request or the response was lost.                    *)
FetchRejects == step \in {"fetching", "answering"} /\ Settle("rejected", "unreachable")

\* Mutant: any response will do.
AnyResponse(r) == FALSE

Refused(r) == ~r.ok

(* fetch resolves. An operation that does not read is over.                *)
HeadersCome ==
    /\ step = "answering"
    /\ \/ /\ Refused(reply) \/ op.reads
          /\ step' = "reading"
          /\ UNCHANGED <<op, effects, reply, outcome>>
       \/ ~Refused(reply) /\ ~op.reads /\ Settle("resolved", Nothing)

(* The body, or what there is of it when the connection is lost: cut.      *)
BodyEnds(cut) ==
    /\ step = "reading"
    /\ \/ Refused(reply) /\ Settle("rejected", "status")
       \/ ~Refused(reply) /\ ~cut /\ reply.body # "empty" /\ Settle("resolved", reply.body)
       \/ ~Refused(reply) /\ (cut \/ reply.body = "empty") /\ Settle("rejected", "no JSON")

Next ==
    \/ Fetch \/ Serves \/ FetchRejects \/ HeadersCome
    \/ \E cut \in BOOLEAN : BodyEnds(cut)

Spec == Init /\ [][Next]_callVars

-----------------------------------------------------------------------------
(* Properties.                                                             *)

(* A promise that resolved tells the truth: what was asked for was done,   *)
(* once, and the value is the server's. One rejected with a status tells   *)
(* that nothing was done. Of any other rejection nothing is known: the     *)
(* request is never sent again, so at most one thing was done.             *)
CallsTruthful ==
    /\ effects <= 1
    /\ outcome.how = "resolved" =>
          /\ reply.ok
          /\ Writes(op) => effects = 1
          /\ outcome.with = IF op.reads THEN "value" ELSE Nothing
    /\ outcome.with = "status" => effects = 0
=============================================================================
