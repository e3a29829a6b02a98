---------------------------- MODULE RpcRequests ----------------------------
(***************************************************************************)
(* What a JSON-RPC connection promises to whoever awaits its requests:     *)
(* a request is settled once, by the peer's own answer to it or by the     *)
(* connection closing; closing settles everything that is outstanding in   *)
(* one step, and nothing is outstanding afterwards.                        *)
(*                                                                         *)
(* The module says nothing of sockets, frames, ids on the wire or methods: *)
(* AcpSession is shown to implement it.                                    *)
(***************************************************************************)
EXTENDS Naturals, Sequences

VARIABLES
    state,      \* state[i] is the state of the promise of the i-th request
    answered,   \* the requests the peer has answered
    open        \* requests can still be issued

vars == <<state, answered, open>>

Settled == {"fulfilled", "rejected"}

Init ==
    /\ state = <<>>
    /\ answered = {}
    /\ open = TRUE

(* A request is issued; it fails at once when it cannot be sent.           *)
Issue ==
    /\ open
    /\ \E s \in {"pending", "rejected"} : state' = Append(state, s)
    /\ UNCHANGED <<answered, open>>

(* The peer answers a request it has been sent, whatever became of it here.*)
PeerAnswers(i) ==
    /\ answered' = answered \cup {i}
    /\ UNCHANGED <<state, open>>

(* The answer to an outstanding request settles that request.              *)
Settle(i) ==
    /\ open
    /\ i \in answered
    /\ state[i] = "pending"
    /\ \E s \in Settled : state' = [state EXCEPT ![i] = s]
    /\ UNCHANGED <<answered, open>>

Close ==
    /\ open
    /\ open' = FALSE
    /\ state' = [i \in DOMAIN state |->
                   IF state[i] = "pending" THEN "rejected" ELSE state[i]]
    /\ UNCHANGED answered

Next ==
    \/ Issue
    \/ \E i \in DOMAIN state : PeerAnswers(i) \/ Settle(i)
    \/ Close

Spec == Init /\ [][Next]_vars

-----------------------------------------------------------------------------
(* A settled promise never changes again.                                  *)
SettledForGood ==
    [][\A i \in DOMAIN state :
          state[i] \in Settled => state'[i] = state[i]]_vars

(* Nothing stays outstanding on a closed connection.                       *)
ClosedIsEmpty ==
    ~open => \A i \in DOMAIN state : state[i] \in Settled
=============================================================================
