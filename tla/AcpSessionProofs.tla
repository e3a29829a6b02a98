-------------------------- MODULE AcpSessionProofs --------------------------
(***************************************************************************)
(* What AcpSession guarantees for every number of calls, sessions, pages,  *)
(* updates and requests, on any socket and with any faults.                *)
(*                                                                         *)
(* The inductive invariant is IInv. Its heart is Correlated: that the      *)
(* session ids the client adopts are the agent's rests on every answer     *)
(* fitting the call that awaits it, and that on ids never being reused.    *)
(* The parts after the refinement each add an invariant of their own to    *)
(* it: Joined for the watchers, Handshaken for connect(), Paged for        *)
(* listSessions, TurnInv for the turn in flight, AskInv and UpdateInv for  *)
(* what the agent sends unasked, Plumbing and NoneForgotten for what a     *)
(* pending request waits for.                                              *)
(***************************************************************************)
EXTENDS AcpSession, DataLemmas

RpcInv == TypeRpc /\ TypeFrames /\ PendingMap /\ Correlated

\* A closed session has let its socket go.
ClosedSocket == closed => sock \in {"closing", "closed"}

IInv == /\ TypeOK /\ PendingMap /\ Correlated
        /\ ClosedHoldsNothing /\ ClosedSocket /\ SessionLives

-----------------------------------------------------------------------------
(* The parts of handlers, and what each does to the requests.              *)

(* A new request gets an id nothing else refers to.                        *)
LEMMA IssueFacts ==
    ASSUME TypeRpc, PendingMap,
           NEW op \in AllOps \cup {"initialize"},
           NEW s \in Sessions \cup {NoSession}, NEW b, Issue(op, s, b)
    PROVE  /\ promise' \in Seq(Promises)
           /\ DOMAIN promise' = DOMAIN promise \cup {nextId}
           /\ Len(promise') = nextId /\ nextId \in Nat \ {0}
           /\ \A i \in DOMAIN promise : promise'[i] = promise[i]
           /\ promise'[nextId] \in {Unsettled, Rejected}
           /\ pending' \subseteq DOMAIN promise' /\ PendingMap'
           /\ owed' \subseteq Requests
           /\ \A r \in owed' : \/ r \in owed
                               \/ r.id = nextId /\ r.op = op /\ r.sess = s
  <1>1. Unsettled \in Promises /\ Rejected \in Promises
    BY DEF Unsettled, Rejected, Promises, Results
  <1>2. Len(promise) \in Nat /\ DOMAIN promise = 1..Len(promise)
    BY DEF TypeRpc
  <1>3. [id |-> nextId, op |-> op, sess |-> s] \in Requests
    BY <1>2 DEF Requests, nextId
  <1>4. CASE promise' = Append(promise, Unsettled) /\ pending' = pending \cup {nextId}
    <2>1. PendingMap'
      BY <1>1, <1>2, <1>4, AppendFacts DEF PendingMap, TypeRpc, nextId, Unsettled
    <2> QED BY <1>1, <1>2, <1>3, <1>4, <2>1, AppendFacts DEF TypeRpc, Issue, nextId
  <1>5. CASE promise' = Append(promise, Rejected) /\ UNCHANGED <<pending, owed>>
    <2>1. PendingMap'
      BY <1>1, <1>2, <1>5, AppendFacts DEF PendingMap, TypeRpc, nextId, Rejected
    <2> QED BY <1>1, <1>2, <1>5, <2>1, AppendFacts DEF TypeRpc, Issue, nextId
  <1> QED BY <1>4, <1>5 DEF Issue

(* So issuing it disturbs no other call's answer.                          *)
LEMMA IssueStep ==
    ASSUME RpcInv,
           NEW op \in AllOps \cup {"initialize"},
           NEW s \in Sessions \cup {NoSession}, NEW b, Issue(op, s, b),
           \/ call' = call
           \/ \E c \in Calls, page \in Nat :
                 op \in AllOps /\ Await(c, op, s, page, nextId),
           UNCHANGED <<answered, wire, decoding, live>>
    PROVE  RpcInv'
  <1> USE DEF RpcInv
  <1> DEFINE n == nextId
  <1>1. /\ promise' \in Seq(Promises)
        /\ DOMAIN promise' = DOMAIN promise \cup {n}
        /\ Len(promise') = n /\ n \in Nat \ {0} /\ n = Len(promise) + 1
        /\ \A i \in DOMAIN promise : promise'[i] = promise[i]
        /\ promise'[n] \in {Unsettled, Rejected}
        /\ pending' \subseteq DOMAIN promise' /\ PendingMap'
        /\ owed' \subseteq Requests
        /\ \A r \in owed' : \/ r \in owed
                            \/ r.id = n /\ r.op = op /\ r.sess = s
    BY IssueFacts DEF nextId
  <1> HIDE DEF n
  <1>2. /\ Len(promise) \in Nat /\ DOMAIN promise = 1..Len(promise)
        /\ n \notin DOMAIN promise /\ 0 \notin DOMAIN promise
    BY <1>1 DEF TypeRpc
  <1>3. call \in [Calls -> CallStates] /\ \A c \in Calls : call[c].id \in Nat
    BY DEF TypeRpc, CallStates
  <1>4. /\ call' \in [Calls -> CallStates]
        /\ \A c \in Calls : \/ call'[c] = call[c]
                            \/ /\ call'[c].id = n
                               /\ call'[c].op = op /\ call'[c].sess = s
    <2>1. CASE call' = call
      BY <2>1, <1>3
    <2>2. ASSUME NEW c \in Calls, NEW page \in Nat, op \in AllOps,
                 Await(c, op, s, page, nextId)
          PROVE  <1>4!1 /\ <1>4!2
      <3>1. [op |-> op, sess |-> s, id |-> n, page |-> page,
             phase |-> "waiting"] \in CallStates
        BY <1>1, <2>2 DEF CallStates
      <3> QED BY <2>2, <3>1, <1>3 DEF Await, n
    <2> QED BY <2>1, <2>2
  <1>5. TypeRpc'
    <2>1. \A c \in Calls : call'[c].id <= Len(promise')
      BY <1>1, <1>2, <1>3, <1>4 DEF TypeRpc
    <2>2. \A r \in owed' : r.id \in DOMAIN promise'
      BY <1>1 DEF TypeRpc
    <2>3. answered' \subseteq DOMAIN promise'
      BY <1>1 DEF TypeRpc
    <2> QED BY <1>1, <1>4, <2>1, <2>2, <2>3 DEF TypeRpc
  <1>6. TypeFrames' /\ Answers' = Answers
    BY <1>1 DEF TypeFrames, Answers
  <1>7. ASSUME NEW r \in owed', NEW c \in Calls, call'[c].id = r.id
        PROVE  call'[c].op = r.op /\ call'[c].sess = r.sess
    <2>1. CASE r \in owed
      <3>1. r.id # n
        BY <2>1, <1>2 DEF TypeRpc
      <3>2. call'[c] = call[c]
        BY <1>4, <1>7, <3>1
      <3> QED BY <2>1, <3>2, <1>7 DEF Correlated
    <2>2. CASE r.id = n /\ r.op = op /\ r.sess = s
      <3>1. call[c].id # n
        BY <1>1, <1>2, <1>3 DEF TypeRpc
      <3> QED BY <2>2, <3>1, <1>4, <1>7
    <2> QED BY <2>1, <2>2, <1>1
  <1>8. ASSUME NEW f \in Answers', NEW c \in Calls, call'[c].id = f.id
        PROVE  Fits(call[c], f.val)'
    <2>1. f.id # n /\ f \in Answers
      BY <1>2, <1>6 DEF TypeFrames, TypeRpc
    <2>2. call'[c] = call[c]
      BY <1>4, <1>8, <2>1
    <2> QED BY <2>1, <2>2, <1>8 DEF Correlated, Fits
  <1>9. ASSUME NEW c \in Calls, Outcome(call[c].id)'.st = "fulfilled"
        PROVE  Fits(call[c], Result(c))' /\ Result(c)' # "error"
    <2>1. call'[c] = call[c]
      <3> SUFFICES ASSUME call'[c].id = n PROVE FALSE
        BY <1>4
      <3>1. Outcome(call[c].id)' = promise'[n]
        BY <1>1 DEF Outcome
      <3> QED BY <3>1, <1>1, <1>9 DEF Unsettled, Rejected
    <2>2. Outcome(call[c].id)' = Outcome(call[c].id)
      <3>1. call[c].id = 0 \/ call[c].id \in DOMAIN promise
        BY <1>2, <1>3 DEF TypeRpc
      <3> QED BY <2>1, <3>1, <1>1, <1>2 DEF Outcome, Rejected
    <2> QED BY <1>9, <2>1, <2>2 DEF Correlated, Fits, Result
  <1>10. Correlated'
    BY <1>7, <1>8, <1>9 DEF Correlated
  <1> QED BY <1>1, <1>5, <1>6, <1>10

(* Every other step: promises are settled by an answer that was on its way *)
(* or rejected, and the answers on their way fit the calls that await them.*)
LEMMA AnswerStep ==
    ASSUME RpcInv,
           promise' \in Seq(Promises), Len(promise') = Len(promise),
           \A i \in DOMAIN promise :
              \/ promise'[i] = promise[i]
              \/ promise'[i].st # "fulfilled"
              \/ \E f \in Answers : /\ f.id = i /\ f.val # "error"
                                    /\ promise'[i].val = f.val,
           PendingMap',
           call' \in [Calls -> CallStates],
           \A c \in Calls : \/ call'[c].id = 0
                            \/ /\ call'[c].id = call[c].id
                               /\ call'[c].op = call[c].op
                               /\ call'[c].sess = call[c].sess,
           owed' \subseteq owed,
           answered \subseteq answered', answered' \subseteq DOMAIN promise,
           wire' \in Seq(Frames), decoding' \in Seq(Frames),
           \A f \in Answers' :
              \/ f \in Answers
              \/ /\ f.id \in answered'
                 /\ \A c \in Calls : call'[c].id = f.id => Fits(call[c], f.val)',
           live \subseteq live'
    PROVE  RpcInv'
  <1> USE DEF RpcInv
  <1>1. /\ Len(promise) \in Nat /\ DOMAIN promise = 1..Len(promise)
        /\ DOMAIN promise' = DOMAIN promise
        /\ 0 \notin DOMAIN promise
    BY DEF TypeRpc
  <1>2. TypeRpc' /\ TypeFrames'
    <2>1. \A c \in Calls : call'[c].id <= Len(promise')
      BY <1>1 DEF TypeRpc
    <2>2. pending' \subseteq DOMAIN promise'
      BY DEF PendingMap
    <2> QED BY <1>1, <2>1, <2>2 DEF TypeRpc, TypeFrames
  <1>3. ASSUME NEW c \in Calls, NEW v, Fits(call[c], v), call'[c].id # 0
        PROVE  Fits(call[c], v)'
    BY <1>3 DEF Fits
  <1>4. ASSUME NEW r \in owed', NEW c \in Calls, call'[c].id = r.id
        PROVE  call'[c].op = r.op /\ call'[c].sess = r.sess
    <2>1. r \in owed /\ r.id # 0
      BY <1>1 DEF TypeRpc
    <2> QED BY <1>4, <2>1 DEF Correlated
  <1>5. ASSUME NEW f \in Answers', NEW c \in Calls, call'[c].id = f.id
        PROVE  Fits(call[c], f.val)'
    <2>1. CASE f \in Answers
      <3>1. f.id # 0 /\ call[c].id = f.id
        BY <2>1, <1>1, <1>5 DEF TypeFrames, TypeRpc
      <3> QED BY <2>1, <3>1, <1>3, <1>5 DEF Correlated
    <2>2. CASE f \notin Answers
      BY <2>2, <1>5
    <2> QED BY <2>1, <2>2
  <1>6. ASSUME NEW c \in Calls, Outcome(call[c].id)'.st = "fulfilled"
        PROVE  Fits(call[c], Result(c))' /\ Result(c)' # "error"
    <2> DEFINE i == call[c].id
    <2>1. /\ call'[c].id = i /\ i # 0 /\ i \in DOMAIN promise
          /\ Outcome(call[c].id)' = promise'[i]
      BY <1>1, <1>6 DEF Outcome, Rejected, TypeRpc, CallStates
    <2>2. Outcome(call[c].id) = promise[i] /\ Result(c) = promise[i].val
      BY <2>1 DEF Outcome, Result
    <2>3. Result(c)' = promise'[i].val /\ promise'[i].st = "fulfilled"
      BY <2>1, <1>6 DEF Result
    <2>4. Fits(call[c], promise'[i].val) /\ promise'[i].val # "error"
      <3>1. CASE promise'[i] = promise[i]
        BY <3>1, <2>2, <2>3 DEF Correlated
      <3>2. CASE promise'[i] # promise[i]
        <4>1. PICK f \in Answers : /\ f.id = i /\ f.val # "error"
                                  /\ promise'[i].val = f.val
          BY <3>2, <2>1, <2>3
        <4> QED BY <4>1 DEF Correlated
      <3> QED BY <3>1, <3>2
    <2> HIDE DEF i
    <2> QED BY <2>1, <2>3, <2>4, <1>3
  <1>7. Correlated'
    BY <1>4, <1>5, <1>6 DEF Correlated
  <1> QED BY <1>2, <1>7

(* teardown rejects what is pending and touches nothing else.              *)
LEMMA TeardownFacts ==
    ASSUME TypeOK, PendingMap, ClosedHoldsNothing, NEW e, Teardown(e)
    PROVE  /\ promise' \in Seq(Promises) /\ Len(promise') = Len(promise)
           /\ \A i \in DOMAIN promise : \/ promise'[i] = promise[i]
                                         \/ /\ promise'[i] = Rejected
                                            /\ promise[i].st = "pending"
           /\ PendingMap' /\ ClosedHoldsNothing' /\ closed'
           /\ timer' \in BOOLEAN
           /\ closedCallbacks' \subseteq joined
           /\ fires' \in [Watchers -> Nat]
  <1>1. CASE closed
    BY <1>1 DEF Teardown, RejectPending, StopHeartbeat, TypeOK, TypeRpc, TypeSocket, rpcVars, PendingMap,
                ClosedHoldsNothing
  <1>2. CASE ~closed
    <2>1. Rejected \in Promises /\ Rejected.st = "rejected"
      BY DEF Rejected, Promises, Results
    <2>2. /\ promise' \in Seq(Promises) /\ Len(promise') = Len(promise)
          /\ \A i \in DOMAIN promise :
                promise'[i] = IF i \in pending THEN Rejected ELSE promise[i]
      <3>1. promise' = [i \in 1..Len(promise) |->
                          IF i \in pending THEN Rejected ELSE promise[i]]
        BY <1>2 DEF Teardown, RejectPending, StopHeartbeat, TypeOK, TypeRpc
      <3> QED BY <2>1, <3>1 DEF TypeOK, TypeRpc
    <2>3. pending' = {} /\ DOMAIN promise' = DOMAIN promise
      BY <1>2, <2>2 DEF Teardown, RejectPending, StopHeartbeat, TypeOK, TypeRpc
    <2>4. PendingMap'
      BY <2>1, <2>2, <2>3 DEF PendingMap
    <2>5. fires' \in [Watchers -> Nat]
      BY <1>2 DEF Teardown, RejectPending, StopHeartbeat, TypeOK, TypeSocket
    <2> QED BY <1>2, <2>1, <2>2, <2>3, <2>4, <2>5
            DEF Teardown, RejectPending, StopHeartbeat, PendingMap, ClosedHoldsNothing, TypeOK, TypeSocket
  <1> QED BY <1>1, <1>2

(* A call that issues no request, and whose promise id does not change.    *)
LEMMA CallStep ==
    ASSUME RpcInv, UNCHANGED <<rpcVars, answered, wire, decoding, live>>,
           owed' \subseteq owed,
           call' \in [Calls -> CallStates],
           \A c \in Calls : \/ call'[c].id = 0
                            \/ /\ call'[c].id = call[c].id
                               /\ call'[c].op = call[c].op
                               /\ call'[c].sess = call[c].sess
    PROVE  RpcInv'
  <1>1. /\ promise' = promise /\ pending' = pending /\ answered' = answered
        /\ wire' = wire /\ decoding' = decoding /\ live' = live
    BY DEF rpcVars
  <1>2. PendingMap' /\ Answers' = Answers
    BY <1>1 DEF RpcInv, PendingMap, Answers
  <1>3. /\ promise' \in Seq(Promises) /\ answered' \subseteq DOMAIN promise
        /\ wire' \in Seq(Frames) /\ decoding' \in Seq(Frames)
    BY <1>1 DEF RpcInv, TypeRpc, TypeFrames
  <1> QED BY <1>1, <1>2, <1>3, AnswerStep

(* A call that comes back.                                               *)
LEMMA FinishStep ==
    ASSUME RpcInv, UNCHANGED <<rpcVars, owed, answered, wire, decoding, live>>,
           NEW c \in Calls, NEW phase \in {"done", "failed"}, Finish(c, phase)
    PROVE  RpcInv'
  <1>1. [call[c] EXCEPT !.phase = phase] \in CallStates
    BY DEF RpcInv, TypeRpc, CallStates
  <1>2. call' = [call EXCEPT ![c] = [call[c] EXCEPT !.phase = phase]]
    BY DEF Finish
  <1>3. call' \in [Calls -> CallStates]
    BY <1>1, <1>2 DEF RpcInv, TypeRpc
  <1>4. \A k \in Calls : /\ call'[k].id = call[k].id
                         /\ call'[k].op = call[k].op
                         /\ call'[k].sess = call[k].sess
    BY <1>2 DEF RpcInv, TypeRpc, CallStates
  <1> QED BY <1>3, <1>4, CallStep

(* A method's request, on an open or a closed session.                   *)
LEMMA RequestStep ==
    ASSUME RpcInv, NEW c \in Calls, NEW op \in AllOps,
           NEW s \in Sessions \cup {NoSession}, NEW page \in Nat,
           Request(c, op, s, page), UNCHANGED <<answered, wire, decoding, live>>
    PROVE  RpcInv'
  <1>1. CASE closed /\ Await(c, op, s, page, 0) /\ UNCHANGED <<rpcVars, owed>>
    <2>1. call' \in [Calls -> CallStates]
      <3>1. [op |-> op, sess |-> s, id |-> 0, page |-> page,
             phase |-> "waiting"] \in CallStates
        BY DEF CallStates
      <3> QED BY <1>1, <3>1 DEF RpcInv, TypeRpc, Await
    <2>2. \A k \in Calls : call'[k].id = 0 \/ call'[k] = call[k]
      BY <1>1 DEF RpcInv, TypeRpc, Await
    <2> QED BY <1>1, <2>1, <2>2, CallStep
  <1>2. CASE Await(c, op, s, page, nextId) /\ Issue(op, s, sock = "open")
    BY <1>2, IssueStep
  <1> QED BY <1>1, <1>2 DEF Request

(* Teardown leaves no answer to a call it rejected.                        *)
LEMMA TeardownStep ==
    ASSUME TypeOK, RpcInv, ClosedHoldsNothing, NEW e, Teardown(e),
           UNCHANGED <<call, answered, decoding, live>>,
           owed' = {}, wire' \in {wire, <<>>}
    PROVE  RpcInv'
  <1>1. /\ promise' \in Seq(Promises) /\ Len(promise') = Len(promise)
        /\ \A i \in DOMAIN promise :
              promise'[i] = promise[i] \/ promise'[i].st # "fulfilled"
        /\ PendingMap'
    BY TeardownFacts DEF RpcInv, Rejected
  <1>2. wire' \in Seq(Frames) /\ decoding' \in Seq(Frames)
    <2>1. <<>> \in Seq(Frames)
      OBVIOUS
    <2> QED BY <2>1 DEF RpcInv, TypeFrames
  <1>3. Range(wire') \subseteq Range(wire)
    <2>1. CASE wire' = wire
      BY <2>1
    <2>2. CASE wire' = <<>>
      BY <2>2 DEF Range
    <2> QED BY <2>1, <2>2
  <1>4. Answers' \subseteq Answers
    BY <1>3 DEF Answers
  <1> QED BY <1>1, <1>2, <1>4, AnswerStep DEF RpcInv, TypeRpc

-----------------------------------------------------------------------------
(* The steps of Next, and the requests.                                    *)

(* An answer settles the promise it belongs to, or none.                 *)
LEMMA SettleStep ==
    ASSUME RpcInv, NEW k \in DOMAIN decoding, Settle(decoding[k]),
           decoding' = RemoveAt(decoding, k),
           UNCHANGED <<call, owed, answered, wire, live>>
    PROVE  RpcInv'
  <1> DEFINE f == decoding[k]
  <1>1. /\ f \in Frames /\ f \in Range(decoding)
        /\ decoding' \in Seq(Frames) /\ Range(decoding') \subseteq Range(decoding)
    BY RemoveAtFacts DEF RpcInv, TypeFrames
  <1> HIDE DEF f
  <1>2. f \in Answers /\ f.kind = "answer" /\ Settle(f)
    BY <1>1 DEF Answers, Settle, f
  <1>3. Answers' \subseteq Answers
    BY <1>1 DEF Answers
  <1>4. promise \in Seq(Promises) /\ DOMAIN promise = 1..Len(promise)
    BY DEF RpcInv, TypeRpc
  <1>5. CASE f.id \in pending
    <2> DEFINE p == IF f.val = "error" THEN Rejected ELSE Fulfilled(f.val)
    <2>1. p \in Promises /\ p.st # "pending"
      BY <1>1 DEF p, Rejected, Fulfilled, Promises, Frames, Results
    <2>2. p.st = "fulfilled" => f.val # "error" /\ p.val = f.val
      BY DEF p, Rejected, Fulfilled
    <2>3. promise' = [promise EXCEPT ![f.id] = p] /\ pending' = pending \ {f.id}
      BY <1>2, <1>5 DEF Settle, Awaited, Settlement, p
    <2> HIDE DEF p
    <2>4. f.id \in DOMAIN promise
      BY <1>5 DEF RpcInv, TypeRpc
    <2>5. /\ promise' \in Seq(Promises) /\ Len(promise') = Len(promise)
          /\ DOMAIN promise' = DOMAIN promise
          /\ promise'[f.id] = p
          /\ \A i \in DOMAIN promise \ {f.id} : promise'[i] = promise[i]
      BY <1>4, <2>1, <2>3, <2>4
    <2>6. PendingMap'
      BY <2>1, <2>3, <2>5 DEF RpcInv, PendingMap
    <2>7. \A i \in DOMAIN promise :
             \/ promise'[i] = promise[i]
             \/ promise'[i].st # "fulfilled"
             \/ \E g \in Answers : /\ g.id = i /\ g.val # "error"
                                   /\ promise'[i].val = g.val
      BY <1>2, <2>2, <2>5
    <2> QED BY <1>1, <1>3, <2>5, <2>6, <2>7, AnswerStep
            DEF RpcInv, TypeRpc, TypeFrames
  <1>6. CASE f.id \notin pending
    <2>1. promise' = promise /\ pending' = pending
      BY <1>2, <1>6 DEF Settle, Awaited, Settlement
    <2>2. PendingMap'
      BY <2>1 DEF RpcInv, PendingMap
    <2> QED BY <1>1, <1>3, <2>1, <2>2, AnswerStep DEF RpcInv, TypeRpc, TypeFrames
  <1> QED BY <1>5, <1>6

(* Frames that settle nothing: received, decoded, or lost with the socket. *)
LEMMA FramesStep ==
    ASSUME RpcInv, UNCHANGED <<promise, pending, call, answered, live>>,
           owed' \subseteq owed,
           wire' \in Seq(Frames), decoding' \in Seq(Frames),
           Range(wire') \cup Range(decoding') \subseteq
              Range(wire) \cup Range(decoding)
    PROVE  RpcInv'
  <1>1. Answers' \subseteq Answers
    BY DEF Answers
  <1>2. PendingMap'
    BY DEF RpcInv, PendingMap
  <1> QED BY <1>1, <1>2, AnswerStep DEF RpcInv, TypeRpc

(* The agent sends a frame: one that fits, if it is an answer.             *)
LEMMA SendStep ==
    ASSUME RpcInv, UNCHANGED <<promise, pending, call, decoding>>,
           owed' \subseteq owed,
           answered \subseteq answered', answered' \subseteq DOMAIN promise,
           live \subseteq live',
           NEW f \in Frames, wire' = Append(wire, f),
           f.kind = "answer" =>
              /\ f.id \in answered'
              /\ \A c \in Calls : call[c].id = f.id => Fits(call[c], f.val)'
    PROVE  RpcInv'
  <1>1. /\ wire' \in Seq(Frames) /\ Range(wire') = Range(wire) \cup {f}
        /\ decoding' \in Seq(Frames)
    BY AppendFacts DEF RpcInv, TypeFrames
  <1>2. \A g \in Answers' : g \in Answers \/ (g = f /\ g.kind = "answer")
    BY <1>1 DEF Answers
  <1>3. PendingMap'
    BY DEF RpcInv, PendingMap
  <1> QED BY <1>1, <1>2, <1>3, AnswerStep DEF RpcInv, TypeRpc

(* Every step keeps the requests and their answers matched.              *)
LEMMA RpcPreserved ==
    ASSUME ConstantsAssumption, IInv, [Next]_vars
    PROVE  RpcInv'
  <1> USE DEF netVars, shutVars, rpcVars, turnVars, cbVars, beatVars,
              frameVars, userVars, agentVars, callUnchanged, resumeUnchanged
  <1>0. RpcInv /\ TypeOK /\ ClosedHoldsNothing
    BY DEF IInv, RpcInv, TypeOK
  <1>01. /\ NoSession \in Sessions \cup {NoSession}
         /\ sessionId \in Sessions \cup {NoSession}
    BY <1>0 DEF TypeOK, TypeUser
  <1>02. \A c \in Calls : call[c].page + 1 \in Nat
    BY <1>0 DEF RpcInv, TypeRpc, CallStates
  <1>03. wire \in Seq(Frames) /\ decoding \in Seq(Frames) /\ <<>> \in Seq(Frames)
    BY <1>0 DEF RpcInv, TypeFrames
  <1>1. CASE StartHandshake
    BY <1>0, <1>01, <1>1, IssueStep DEF StartHandshake
  <1>2. CASE ConnectDone \/ ConnectRejected
    BY <1>0, <1>2, CallStep DEF ConnectDone, ConnectRejected, RpcInv, TypeRpc
  <1>3. CASE ConnectTooNew
    BY <1>0, <1>3, TeardownStep DEF ConnectTooNew, CloseBody
  <1>4. ASSUME NEW c \in Calls, NewSession(c)
        PROVE  RpcInv'
    BY <1>0, <1>01, <1>4, RequestStep DEF NewSession, AllOps
  <1>5. ASSUME NEW c \in Calls, ListSessions(c)
        PROVE  RpcInv'
    BY <1>0, <1>01, <1>5, RequestStep DEF ListSessions, AllOps
  <1>6. ASSUME NEW c \in Calls, NEW s \in Sessions, LoadSession(c, s)
        PROVE  RpcInv'
    BY <1>0, <1>6, RequestStep DEF LoadSession, AllOps
  <1>7. ASSUME NEW c \in Calls, Prompt(c)
        PROVE  RpcInv'
    BY <1>0, <1>01, <1>7, RequestStep DEF Prompt, AllOps
  <1>8. ASSUME NEW c \in Calls, PromptWithoutSession(c)
        PROVE  RpcInv'
    <2> DEFINE new == [IdleCall EXCEPT !.op = "prompt", !.phase = "failed"]
    <2>1. new \in CallStates /\ new.id = 0
      BY DEF CallStates, IdleCall, AllOps
    <2>2. call' = [call EXCEPT ![c] = new]
      BY <1>8 DEF PromptWithoutSession
    <2> HIDE DEF new
    <2>3. /\ call' \in [Calls -> CallStates]
          /\ \A k \in Calls : call'[k].id = 0 \/ call'[k] = call[k]
      BY <1>0, <2>1, <2>2 DEF RpcInv, TypeRpc
    <2> QED BY <1>0, <1>8, <2>3, CallStep DEF PromptWithoutSession
  <1>9. CASE Cancel \/ (\E k \in Watchers : OnClosed(k)) \/ Pong
    BY <1>0, <1>9, CallStep DEF Cancel, OnClosed, Pong, RpcInv, TypeRpc
  <1>10. CASE Close
    BY <1>0, <1>10, TeardownStep DEF Close, CloseBody
  <1>11. ASSUME NEW c \in Calls, ResumeNew(c) \/ ResumeLoad(c) \/ ResumePrompt(c)
         PROVE  RpcInv'
    BY <1>0, <1>11, FinishStep DEF ResumeNew, ResumeLoad, ResumePrompt
  <1>12. ASSUME NEW c \in Calls, ResumeRejected(c)
         PROVE  RpcInv'
    BY <1>0, <1>12, FinishStep DEF ResumeRejected
  <1>13. ASSUME NEW c \in Calls, ResumeList(c)
         PROVE  RpcInv'
    <2>1. CASE Request(c, "list", NoSession, call[c].page + 1)
      BY <1>0, <1>01, <1>02, <1>13, <2>1, RequestStep DEF ResumeList, AllOps
    <2>2. CASE Finish(c, "done") /\ UNCHANGED <<rpcVars, owed>>
      BY <1>0, <1>13, <2>2, FinishStep DEF ResumeList
    <2> QED BY <1>13, <2>1, <2>2 DEF ResumeList
  <1>14. CASE FrameArrives
    <2>1. /\ Head(wire) \in Frames /\ Head(wire) \in Range(wire)
          /\ Tail(wire) \in Seq(Frames) /\ Range(Tail(wire)) \subseteq Range(wire)
      BY <1>03, <1>14, TailFacts DEF FrameArrives
    <2>2. /\ Append(decoding, Head(wire)) \in Seq(Frames)
          /\ Range(Append(decoding, Head(wire))) = Range(decoding) \cup {Head(wire)}
      BY <1>03, <2>1, AppendFacts
    <2> QED BY <1>0, <1>03, <1>14, <2>1, <2>2, FramesStep DEF FrameArrives
  <1>15. ASSUME NEW k \in DOMAIN decoding, Dispatch(k)
         PROVE  RpcInv'
    <2> USE DEF dispatchUnchanged
    <2>1. CASE Settle(decoding[k])
      BY <1>0, <1>15, <2>1, SettleStep DEF Dispatch
    <2>2. CASE \/ HandleNotification(decoding[k])
               \/ HandleServerRequest(decoding[k])
      <3>1. /\ RemoveAt(decoding, k) \in Seq(Frames)
            /\ Range(RemoveAt(decoding, k)) \subseteq Range(decoding)
        BY <1>03, RemoveAtFacts
      <3> QED BY <1>0, <1>03, <1>15, <2>2, <3>1, FramesStep
              DEF Dispatch, HandleNotification, HandleServerRequest
    <2> QED BY <1>15, <2>1, <2>2 DEF Dispatch
  <1>16. ASSUME NEW a \in Asks, HandlerAnswers(a)
         PROVE  RpcInv'
    BY <1>0, <1>16, CallStep DEF HandlerAnswers, RpcInv, TypeRpc
  <1>17. CASE SocketError \/ HeartbeatTick
    BY <1>0, <1>17, CallStep DEF SocketError, HeartbeatTick, Terminate, sockUnchanged,
                                 RpcInv, TypeRpc
  <1>18. CASE SocketClose
    BY <1>0, <1>18, TeardownStep DEF SocketClose, sockUnchanged
  <1>19. CASE LinkDies
    <2>1. Range(<<>>) = {}
      BY DEF Range
    <2> QED BY <1>0, <1>03, <1>19, <2>1, FramesStep DEF LinkDies
  <1>20. ASSUME NEW r \in owed, AgentAnswers(r)
         PROVE  RpcInv'
    <2> USE DEF agentUnchanged
    <2>1. PICK v \in AnswersTo(r) :
             /\ wire' = Append(wire, Frame("answer", r.id, v))
             /\ live' = IF v \in Sessions THEN live \cup {v} ELSE live
      BY <1>20 DEF AgentAnswers
    <2>2. r \in Requests /\ r.id \in DOMAIN promise
      BY <1>0 DEF RpcInv, TypeRpc
    <2>3. v \in Results
      BY <2>1, <2>2 DEF AnswersTo, Results, Requests, AllOps
    <2>4. /\ Frame("answer", r.id, v) \in Frames
          /\ Frame("answer", r.id, v).id = r.id
          /\ Frame("answer", r.id, v).val = v
      BY <2>2, <2>3 DEF Frame, Frames, Requests
    <2>5. ASSUME NEW c \in Calls, call[c].id = r.id
          PROVE  Fits(call[c], v)'
      <3>1. call[c].op = r.op /\ call[c].sess = r.sess /\ call'[c] = call[c]
            /\ r.op \in AllOps
        BY <1>0, <1>20, <2>5 DEF RpcInv, Correlated, AgentAnswers, TypeRpc,
                                 CallStates
      <3>2. \/ r.op = "new" /\ v \in live'
            \/ r.op = "load" /\ r.sess \in live'
            \/ r.op \in {"list", "prompt"}
            \/ v = "error"
        BY <2>1, <3>1 DEF AnswersTo, AllOps
      <3> QED BY <3>1, <3>2 DEF Fits
    <2>6. /\ answered' \subseteq DOMAIN promise
          /\ answered \subseteq answered' /\ r.id \in answered'
      BY <1>0, <1>20, <2>2 DEF AgentAnswers, RpcInv, TypeRpc
    <2> QED BY <1>0, <1>20, <2>1, <2>2, <2>4, <2>5, <2>6, SendStep
            DEF AgentAnswers
  <1>21. ASSUME NEW i \in answered, AgentRepeats(i)
         PROVE  RpcInv'
    <2> USE DEF agentUnchanged
    <2>1. i \in DOMAIN promise /\ i \in Nat
      BY <1>0 DEF RpcInv, TypeRpc
    <2>2. /\ Frame("answer", i, "error") \in Frames
          /\ Frame("answer", i, "error").id = i
          /\ Frame("answer", i, "error").val = "error"
      BY <2>1 DEF Frame, Frames, Results
    <2> QED BY <1>0, <1>21, <2>1, <2>2, SendStep
            DEF AgentRepeats, RpcInv, TypeRpc, Fits
  <1>22. CASE AgentUpdates
    <2>1. said' \in Nat
      BY <1>0, <1>22 DEF AgentUpdates, TypeOK, TypeUser
    <2>2. /\ Frame("update", said', "ok") \in Frames
          /\ Frame("update", said', "ok").kind # "answer"
      BY <2>1 DEF Frame, Frames, Results
    <2> QED BY <1>0, <1>22, <2>2, SendStep
            DEF AgentUpdates, agentUnchanged, RpcInv, TypeRpc
  <1>23. CASE AgentAsks
    <2>1. asked' \in Nat
      BY <1>0, <1>23 DEF AgentAsks, TypeOK, TypeUser
    <2>2. PICK v \in {"ok", "more"} : wire' = Append(wire, Frame("ask", asked', v))
      BY <1>23 DEF AgentAsks
    <2>3. /\ Frame("ask", asked', v) \in Frames
          /\ Frame("ask", asked', v).kind # "answer"
      BY <2>1 DEF Frame, Frames, Results
    <2> QED BY <1>0, <1>23, <2>2, <2>3, SendStep
            DEF AgentAsks, agentUnchanged, RpcInv, TypeRpc
  <1>24. CASE UNCHANGED vars
    BY <1>0, <1>24, CallStep DEF vars, RpcInv, TypeRpc
  <1> QED BY <1>1, <1>2, <1>3, <1>4, <1>5, <1>6, <1>7, <1>8, <1>9, <1>10,
             <1>11, <1>12, <1>13, <1>14, <1>15, <1>16, <1>17, <1>18, <1>19,
             <1>20, <1>21, <1>22, <1>23, <1>24
          DEF Next, Connect, UserCalls, Continuation

-----------------------------------------------------------------------------
(* The steps of Next, and the rest of the state.                           *)

(* Every step keeps what a closed session no longer holds.               *)
LEMMA SocketPreserved ==
    ASSUME ConstantsAssumption, IInv, [Next]_vars
    PROVE  TypeSocket' /\ ClosedHoldsNothing' /\ ClosedSocket'
  <1> USE DEF netVars, shutVars, rpcVars, cbVars, beatVars, callUnchanged,
              resumeUnchanged, dispatchUnchanged, sockUnchanged,
              agentUnchanged, ClosedSocket
  <1>0. /\ TypeOK /\ PendingMap /\ ClosedHoldsNothing /\ ClosedSocket
        /\ TypeSocket /\ pending \subseteq DOMAIN promise
    BY DEF IInv, TypeOK, TypeRpc
  <1>1. CASE StartHandshake
    BY <1>0, <1>1 DEF StartHandshake, StartHeartbeat, TypeSocket, ClosedHoldsNothing,
                      ConstantsAssumption
  <1>2. CASE ConnectDone \/ ConnectRejected
    BY <1>0, <1>2 DEF ConnectDone, ConnectRejected, TypeSocket,
                      ClosedHoldsNothing
  <1>3. CASE ConnectTooNew \/ Close
    <2>1. Teardown(explicitlyClosed')
      BY <1>3 DEF ConnectTooNew, Close, CloseBody
    <2>2. /\ ClosedHoldsNothing' /\ closed' /\ timer' \in BOOLEAN
          /\ closedCallbacks' \subseteq joined /\ fires' \in [Watchers -> Nat]
      BY <1>0, <2>1, TeardownFacts
    <2>3. closed' \in BOOLEAN
      BY <1>0, <2>1 DEF Teardown, RejectPending, StopHeartbeat, TypeSocket
    <2> QED BY <1>0, <1>3, <2>2, <2>3 DEF ConnectTooNew, Close, CloseBody, LetGo,
                                         TypeSocket
  <1>4. ASSUME NEW c \in Calls, UserCalls(c) \/ Continuation(c)
        PROVE  TypeSocket' /\ ClosedHoldsNothing' /\ ClosedSocket'
    <2>1. /\ UNCHANGED <<netVars, shutVars, cbVars, beatVars>>
          /\ closed => UNCHANGED rpcVars
      BY <1>4 DEF UserCalls, NewSession, ListSessions, LoadSession, Prompt,
                  PromptWithoutSession, Continuation, ResumeNew, ResumeLoad,
                  ResumeList, ResumePrompt, ResumeRejected, Request
    <2> QED BY <1>0, <2>1 DEF TypeSocket, ClosedHoldsNothing
  <1>5. ASSUME NEW k \in Watchers, OnClosed(k)
        PROVE  TypeSocket' /\ ClosedHoldsNothing' /\ ClosedSocket'
    BY <1>0, <1>5 DEF OnClosed, TypeSocket, ClosedHoldsNothing
  <1>6. ASSUME NEW k \in DOMAIN decoding, Dispatch(k)
        PROVE  TypeSocket' /\ ClosedHoldsNothing' /\ ClosedSocket'
    <2>1. pending' \subseteq pending /\ UNCHANGED dispatchUnchanged
      BY <1>6 DEF Dispatch, Settle, HandleNotification, HandleServerRequest
    <2> QED BY <1>0, <2>1 DEF TypeSocket, ClosedHoldsNothing
  <1>7. CASE \/ Cancel \/ FrameArrives \/ (\E a \in Asks : HandlerAnswers(a))
             \/ (\E r \in owed : AgentAnswers(r))
             \/ (\E i \in answered : AgentRepeats(i))
             \/ AgentUpdates \/ AgentAsks \/ UNCHANGED vars
    <2>1. UNCHANGED <<netVars, shutVars, rpcVars, cbVars, beatVars>>
      BY <1>7 DEF Cancel, FrameArrives, HandlerAnswers, AgentAnswers,
                  AgentRepeats, AgentUpdates, AgentAsks, vars
    <2> QED BY <1>0, <2>1 DEF TypeSocket, ClosedHoldsNothing
  <1>8. CASE SocketError
    BY <1>0, <1>8 DEF SocketError, TypeSocket, ClosedHoldsNothing
  <1>9. CASE SocketClose
    <2>1. Teardown(explicitlyClosed)
      BY <1>9 DEF SocketClose
    <2>2. /\ ClosedHoldsNothing' /\ timer' \in BOOLEAN
          /\ closedCallbacks' \subseteq joined /\ fires' \in [Watchers -> Nat]
      BY <1>0, <2>1, TeardownFacts
    <2>3. closed' \in BOOLEAN
      BY <1>0, <2>1 DEF Teardown, RejectPending, StopHeartbeat, TypeSocket
    <2> QED BY <1>0, <1>9, <2>2, <2>3 DEF SocketClose, TypeSocket
  <1>10. CASE LinkDies
    BY <1>0, <1>10 DEF LinkDies, TypeSocket, ClosedHoldsNothing
  <1>11. CASE HeartbeatTick
    <2>1. alive' \in BOOLEAN /\ pinged' \in BOOLEAN
      BY <1>0, <1>11 DEF HeartbeatTick, TypeSocket, Reachable
    <2> QED BY <1>0, <1>11, <2>1 DEF HeartbeatTick, Terminate, LetGo, TypeSocket,
                                     ClosedHoldsNothing
  <1>12. CASE Pong
    BY <1>0, <1>12 DEF Pong, TypeSocket, ClosedHoldsNothing
  <1> QED BY <1>1, <1>2, <1>3, <1>4, <1>5, <1>6, <1>7, <1>8, <1>9, <1>10,
             <1>11, <1>12 DEF Next, Connect

(* Every step keeps the session ids among those the agent has.           *)
LEMMA UserPreserved ==
    ASSUME ConstantsAssumption, IInv, [Next]_vars
    PROVE  TypeUser' /\ SessionLives'
  <1> USE DEF turnVars, userVars, agentVars, callUnchanged, resumeUnchanged,
              dispatchUnchanged, sockUnchanged, agentUnchanged, TypeUser,
              SessionLives
  <1>0. /\ TypeUser /\ SessionLives /\ TypeRpc /\ Correlated
        /\ wire \in Seq(Frames) /\ decoding \in Seq(Frames)
        /\ NoSession \notin Sessions
    BY DEF IInv, TypeOK, TypeFrames, ConstantsAssumption
  <1>1. CASE \/ Connect \/ Close \/ (\E k \in Watchers : OnClosed(k))
             \/ FrameArrives \/ SocketError \/ SocketClose \/ LinkDies
             \/ HeartbeatTick \/ Pong \/ UNCHANGED vars
    <2>1. UNCHANGED <<turnVars, userVars, agentVars>>
      BY <1>1 DEF Connect, StartHandshake, ConnectDone, ConnectRejected,
                  ConnectTooNew, Close, OnClosed, FrameArrives, SocketError,
                  SocketClose, LinkDies, HeartbeatTick, Pong, vars
    <2> QED BY <1>0, <2>1
  <1>2. ASSUME NEW c \in Calls, UserCalls(c)
        PROVE  TypeUser' /\ SessionLives'
    <2>1. /\ UNCHANGED <<userVars, agentVars, sessionId>>
          /\ promptSessionId' \in {promptSessionId, sessionId}
          /\ promptActive' \in {promptActive, TRUE}
      BY <1>2 DEF UserCalls, NewSession, ListSessions, LoadSession, Prompt,
                  PromptWithoutSession
    <2> QED BY <1>0, <2>1
  <1>3. ASSUME NEW c \in Calls, Continuation(c)
        PROVE  TypeUser' /\ SessionLives'
    <2>1. /\ UNCHANGED <<userVars, agentVars>>
          /\ promptSessionId' \in {promptSessionId, NoSession}
          /\ promptActive' \in {promptActive, FALSE}
          /\ sessionId' \in live \cup {sessionId}
      <3>1. CASE ResumeNew(c) \/ ResumeLoad(c)
        <4>1. Outcome(call[c].id).st = "fulfilled"
          BY <3>1 DEF ResumeNew, ResumeLoad, Resumes
        <4>2. Fits(call[c], Result(c)) /\ Result(c) # "error"
          BY <1>0, <4>1 DEF Correlated
        <4> QED BY <3>1, <4>2 DEF ResumeNew, ResumeLoad, Resumes, Fits
      <3>2. CASE ResumeList(c) \/ ResumePrompt(c) \/ ResumeRejected(c)
        BY <3>2 DEF ResumeList, ResumePrompt, ResumeRejected, EndPrompt
      <3> QED BY <1>3, <3>1, <3>2 DEF Continuation
    <2> QED BY <1>0, <2>1
  <1>4. CASE Cancel
    <2>1. CancelTarget \in Sessions
      BY <1>0, <1>4 DEF Cancel, CancelTarget
    <2> QED BY <1>0, <1>4, <2>1, AppendFacts DEF Cancel
  <1>5. ASSUME NEW k \in DOMAIN decoding, Dispatch(k)
        PROVE  TypeUser' /\ SessionLives'
    <2> DEFINE f == decoding[k]
    <2>1. f.id \in Nat
      <3>1. f \in Frames
        BY <1>0
      <3> QED BY <3>1 DEF Frames
    <2> HIDE DEF f
    <2>2. CASE Settle(f)
      BY <1>0, <1>5, <2>2 DEF Dispatch, Settle, Settlement
    <2>4. CASE HandleNotification(f)
      <3>1. seen' \in Seq(Nat) /\ UNCHANGED <<ask, replies>>
        BY <1>0, <2>1, <2>4 DEF HandleNotification
      <3> QED BY <1>0, <1>5, <3>1 DEF Dispatch
    <2>5. CASE HandleServerRequest(f)
      <3>1. /\ ask' \in [Asks -> {"none", "deciding", "over"}]
            /\ UNCHANGED seen
        BY <1>0, <2>5 DEF HandleServerRequest, Refuse
      <3>2. replies' \in [Asks -> Nat]
        BY <1>0, <2>5 DEF HandleServerRequest, Refuse, Reply
      <3> QED BY <1>0, <1>5, <3>1, <3>2 DEF Dispatch
    <2> QED BY <1>5, <2>2, <2>4, <2>5 DEF Dispatch, f
  <1>6. ASSUME NEW a \in Asks, HandlerAnswers(a)
        PROVE  TypeUser' /\ SessionLives'
    BY <1>0, <1>6 DEF HandlerAnswers, Reply
  <1>7. ASSUME NEW r \in owed, AgentAnswers(r)
        PROVE  TypeUser' /\ SessionLives'
    <2>1. live' \subseteq Sessions /\ live \subseteq live'
      BY <1>0, <1>7 DEF AgentAnswers
    <2> QED BY <1>0, <1>7, <2>1 DEF AgentAnswers
  <1>8. CASE (\E i \in answered : AgentRepeats(i)) \/ AgentUpdates \/ AgentAsks
    BY <1>0, <1>8 DEF AgentRepeats, AgentUpdates, AgentAsks, ConstantsAssumption
  <1> QED BY <1>1, <1>2, <1>3, <1>4, <1>5, <1>6, <1>7, <1>8 DEF Next

-----------------------------------------------------------------------------
(* The theorems.                                                           *)

(* The inductive invariant holds at every step.                            *)
THEOREM InductiveInvariant == Spec => []IInv
  <1>1. Init => IInv
    <2> SUFFICES ASSUME Init PROVE IInv
      OBVIOUS
    <2>1. TypeSocket /\ TypeUser
      <3>1. TypeSocket
        BY DEF Init, TypeSocket
      <3>2. <<>> \in Seq(Nat) /\ <<>> \in Seq(Sessions)
        OBVIOUS
      <3>3. 0 \in 0..MaxUpdates /\ 0 \in 0..MaxAsks
        BY ConstantsAssumption DEF ConstantsAssumption
      <3>4. TypeUser
        BY <3>2, <3>3 DEF Init, TypeUser
      <3> QED BY <3>1, <3>4
    <2>2. TypeRpc /\ TypeFrames
      <3>1. IdleCall \in CallStates /\ IdleCall.id = 0
        BY DEF IdleCall, CallStates, AllOps
      <3>2. <<>> \in Seq(Promises) /\ <<>> \in Seq(Frames)
        OBVIOUS
      <3>4. Len(<<>>) = 0
        OBVIOUS
      <3>3. Range(<<>>) = {}
        BY DEF Range
      <3> QED BY <3>1, <3>2, <3>3, <3>4 DEF Init, TypeRpc, TypeFrames, Answers
    <2>3. PendingMap /\ ClosedHoldsNothing /\ ClosedSocket /\ SessionLives
      BY DEF Init, PendingMap, ClosedHoldsNothing, ClosedSocket, SessionLives
    <2>4. Correlated
      BY DEF Init, Correlated, Answers, Range, Outcome, IdleCall, Rejected
    <2> QED BY <2>1, <2>2, <2>3, <2>4 DEF IInv, TypeOK
  <1>2. IInv /\ [Next]_vars => IInv'
    BY ConstantsAssumption, RpcPreserved, SocketPreserved, UserPreserved
       DEF IInv, RpcInv, TypeOK
  <1> QED BY <1>1, <1>2, PTL DEF Spec

(* Every variable keeps to its type.                                       *)
THEOREM TypeCorrect == Spec => []TypeOK
  BY InductiveInvariant, PTL DEF IInv

(* The pending map holds the unsettled promises, and no other.             *)
THEOREM PendingMapCorrect == Spec => []PendingMap
  BY InductiveInvariant, PTL DEF IInv

(* A closed session holds no request, no timer and no callback.            *)
THEOREM ClosedCorrect == Spec => []ClosedHoldsNothing
  BY InductiveInvariant, PTL DEF IInv

(* No answer reaches a call other than the one that asked.                 *)
THEOREM CorrelationCorrect == Spec => []Correlated
  BY InductiveInvariant, PTL DEF IInv

(* The client only ever adopts a session the agent has.                    *)
THEOREM SessionCorrect == Spec => []SessionLives
  BY InductiveInvariant, PTL DEF IInv

-----------------------------------------------------------------------------
(* The session implements RpcRequests.                                     *)

(* A request added to the promises is a state added to the mapped ones.    *)
LEMMA MappedIssue ==
    ASSUME TypeRpc, PendingMap, ~closed,
           NEW op \in AllOps \cup {"initialize"},
           NEW s \in Sessions \cup {NoSession}, NEW b, Issue(op, s, b),
           closed' = closed, answered' = answered
    PROVE  Rpc!Issue
  <1> DEFINE n == Len(promise)
             m == MappedState
             States == {"pending", "fulfilled", "rejected"}
  <1>1. /\ promise' \in Seq(Promises) /\ Len(promise') = n + 1
        /\ \A i \in DOMAIN promise : promise'[i] = promise[i]
        /\ promise'[n + 1] \in {Unsettled, Rejected}
        /\ n \in Nat
    <2>1. n \in Nat
      BY DEF TypeRpc
    <2> QED BY <2>1, IssueFacts DEF nextId
  <1>2. DOMAIN promise = 1..n /\ DOMAIN promise' = 1..(n + 1)
    BY <1>1 DEF TypeRpc
  <1>3. promise'[n + 1].st \in {"pending", "rejected"}
    BY <1>1 DEF Unsettled, Rejected
  <1>4. /\ m = [i \in 1..n |-> promise[i].st]
        /\ m' = [i \in 1..(n + 1) |-> promise'[i].st]
    BY <1>2 DEF MappedState
  <1>5. m \in Seq(States) /\ Len(m) = n
    <2>1. ASSUME NEW i \in 1..n PROVE promise[i].st \in States
      <3>1. promise[i] \in Promises
        BY <1>2 DEF TypeRpc
      <3> QED BY <3>1 DEF Promises
    <2> HIDE DEF m, n
    <2> QED BY <1>1, <1>4, <2>1
  <1>6. ASSUME NEW t \in {"pending", "rejected"}, t = promise'[n + 1].st
        PROVE  m' = Append(m, t)
    <2>1. Append(m, t) \in Seq(States) /\ Len(Append(m, t)) = n + 1
          /\ Append(m, t) = [i \in 1..(n + 1) |-> Append(m, t)[i]]
      <3>1. t \in States
        BY <1>6
      <3> HIDE DEF m, n, States
      <3>2. Append(m, t) \in Seq(States) /\ Len(Append(m, t)) = n + 1
        BY <1>1, <1>5, <3>1, AppendProperties
      <3>3. Append(m, t) \in [1..(n + 1) -> States]
        BY <3>2, LenProperties
      <3> QED BY <3>2, <3>3
    <2>2. \A i \in 1..(n + 1) :
             Append(m, t)[i] = IF i = n + 1 THEN t ELSE m[i]
      <3>1. t \in States
        BY <1>6
      <3> HIDE DEF m, n, States
      <3> QED BY <1>1, <1>5, <3>1, AppendProperties
    <2>3. \A i \in 1..(n + 1) : Append(m, t)[i] = promise'[i].st
      BY <1>1, <1>2, <1>4, <1>6, <2>2
    <2> HIDE DEF n
    <2> QED BY <1>4, <2>1, <2>3
  <1> QED BY <1>3, <1>6 DEF Rpc!Issue, MappedState

(* The first teardown is Close; another changes nothing.                   *)
LEMMA MappedTeardown ==
    ASSUME IInv, NEW e, Teardown(e), answered' = answered
    PROVE  [Rpc!Next]_(Rpc!vars)
  <1>1. CASE closed
    BY <1>1 DEF Teardown, RejectPending, StopHeartbeat, rpcVars, Rpc!vars, MappedState
  <1>2. CASE ~closed
    <2>1. /\ closed' = TRUE
          /\ promise' = [i \in DOMAIN promise |->
                           IF i \in pending THEN Rejected ELSE promise[i]]
      BY <1>2 DEF Teardown, RejectPending, StopHeartbeat
    <2>2. \A i \in DOMAIN promise :
             promise'[i].st = IF promise[i].st = "pending"
                              THEN "rejected" ELSE promise[i].st
      BY <2>1 DEF IInv, PendingMap, Rejected
    <2>3. DOMAIN promise' = DOMAIN promise
      BY <2>1
    <2>4. MappedState' = [i \in DOMAIN MappedState |->
                            IF MappedState[i] = "pending"
                            THEN "rejected" ELSE MappedState[i]]
      BY <2>2, <2>3 DEF MappedState
    <2>5. Rpc!Close
      BY <1>2, <2>1, <2>4 DEF Rpc!Close, MappedState
    <2> QED BY <2>5 DEF Rpc!Next
  <1> QED BY <1>1, <1>2

(* An answer to a pending request settles it; any other is ignored.        *)
LEMMA MappedSettle ==
    ASSUME IInv, NEW k \in DOMAIN decoding, Settle(decoding[k]),
           closed' = closed, answered' = answered
    PROVE  [Rpc!Next]_(Rpc!vars)
  <1> DEFINE f == decoding[k]
  <1>1. f.kind = "answer" /\ f.id \in answered /\ Settle(f)
    <2>1. f \in Range(decoding)
      BY DEF Range
    <2>2. f \in Answers
      BY <2>1 DEF Answers, Settle
    <2> QED BY <2>2 DEF IInv, TypeOK, TypeFrames, Answers
  <1> HIDE DEF f
  <1>2. CASE f.id \notin pending
    BY <1>1, <1>2 DEF Settle, Awaited, Rpc!vars, MappedState
  <1>3. CASE f.id \in pending
    <2>1. f.id \in DOMAIN promise /\ promise[f.id].st = "pending" /\ ~closed
      BY <1>3 DEF IInv, PendingMap, ClosedHoldsNothing
    <2>2. PICK p \in {Rejected, Fulfilled(f.val)} :
             promise' = [promise EXCEPT ![f.id] = p]
      BY <1>1, <1>3 DEF Settle, Awaited, Settlement
    <2>3. p.st \in Rpc!Settled
      BY <2>2 DEF Rejected, Fulfilled, Rpc!Settled
    <2>4. MappedState' = [MappedState EXCEPT ![f.id] = p.st]
      BY <2>1, <2>2 DEF MappedState
    <2>5. /\ MappedState[f.id] = "pending" /\ f.id \in DOMAIN MappedState
      BY <2>1 DEF MappedState
    <2>6. ASSUME NEW i, i = f.id
          PROVE  Rpc!Settle(i)
      BY <2>6, <1>1, <2>1, <2>3, <2>4, <2>5 DEF Rpc!Settle, MappedState
    <2>7. \E i \in DOMAIN MappedState : Rpc!Settle(i)
      BY <2>5, <2>6
    <2> QED BY <2>7 DEF Rpc!Next, MappedState
  <1> QED BY <1>2, <1>3

(* A request from a method, on a session closed or not.                    *)
LEMMA MappedRequest ==
    ASSUME IInv, NEW c, NEW op \in AllOps, NEW s \in Sessions \cup {NoSession},
           NEW page, Request(c, op, s, page),
           closed' = closed, answered' = answered
    PROVE  [Rpc!Next]_(Rpc!vars)
  <1>1. CASE UNCHANGED <<rpcVars, owed>>
    BY <1>1 DEF rpcVars, Rpc!vars, MappedState
  <1>2. CASE ~closed /\ Issue(op, s, sock = "open")
    <2>1. Rpc!Issue
      BY <1>2, MappedIssue DEF IInv, TypeOK
    <2> QED BY <2>1 DEF Rpc!Next
  <1> QED BY <1>1, <1>2 DEF Request

(* Every step of the session is a step of RpcRequests, or none.            *)
LEMMA StepRefines ==
    ASSUME ConstantsAssumption, IInv, [Next]_vars
    PROVE  [Rpc!Next]_(Rpc!vars)
  <1> USE DEF netVars, shutVars, rpcVars, agentVars, callUnchanged,
              resumeUnchanged
  <1>0. /\ sessionId \in Sessions \cup {NoSession}
        /\ NoSession \in Sessions \cup {NoSession}
    BY DEF IInv, TypeOK, TypeUser
  <1>1. CASE StartHandshake
    <2>1. ~closed
      BY <1>1 DEF StartHandshake, IInv, ClosedSocket
    <2>2. Rpc!Issue
      BY <1>0, <1>1, <2>1, MappedIssue DEF StartHandshake, IInv, TypeOK
    <2> QED BY <2>2 DEF Rpc!Next
  <1>2. CASE ConnectTooNew \/ Close \/ SocketClose
    <2>1. answered' = answered /\ \E e \in {explicitlyClosed, explicitlyClosed'} :
             Teardown(e)
      BY <1>2 DEF ConnectTooNew, Close, CloseBody, SocketClose, sockUnchanged
    <2> QED BY <2>1, MappedTeardown
  <1>3. ASSUME NEW c \in Calls, UserCalls(c)
        PROVE  [Rpc!Next]_(Rpc!vars)
    <2>1. CASE PromptWithoutSession(c)
      BY <2>1 DEF PromptWithoutSession, Rpc!vars, MappedState
    <2>2. CASE \/ NewSession(c) \/ ListSessions(c) \/ Prompt(c)
               \/ \E s \in Sessions : LoadSession(c, s)
      <3>1. /\ closed' = closed /\ answered' = answered
            /\ \E op \in AllOps, s \in Sessions \cup {NoSession}, page \in Nat :
                  Request(c, op, s, page)
        BY <1>0, <2>2 DEF NewSession, ListSessions, Prompt, LoadSession, AllOps
      <3> QED BY <3>1, MappedRequest
    <2> QED BY <1>3, <2>1, <2>2 DEF UserCalls
  <1>4. ASSUME NEW c \in Calls, Continuation(c)
        PROVE  [Rpc!Next]_(Rpc!vars)
    <2>1. CASE ResumeList(c)
      <3>1. CASE Request(c, "list", NoSession, call[c].page + 1)
        BY <1>0, <2>1, <3>1, MappedRequest DEF ResumeList, AllOps
      <3>2. CASE UNCHANGED rpcVars
        BY <2>1, <3>2 DEF ResumeList, Rpc!vars, MappedState
      <3> QED BY <2>1, <3>1, <3>2 DEF ResumeList
    <2>2. CASE ResumeNew(c) \/ ResumeLoad(c) \/ ResumePrompt(c) \/ ResumeRejected(c)
      BY <2>2 DEF ResumeNew, ResumeLoad, ResumePrompt, ResumeRejected, Rpc!vars, MappedState
    <2> QED BY <1>4, <2>1, <2>2 DEF Continuation
  <1>5. ASSUME NEW k \in DOMAIN decoding, Dispatch(k)
        PROVE  [Rpc!Next]_(Rpc!vars)
    <2>1. closed' = closed /\ answered' = answered
      BY <1>5 DEF Dispatch, dispatchUnchanged
    <2>2. CASE Settle(decoding[k])
      BY <2>1, <2>2, MappedSettle
    <2>3. CASE HandleNotification(decoding[k]) \/ HandleServerRequest(decoding[k])
      BY <2>1, <2>3 DEF HandleNotification, HandleServerRequest, Rpc!vars, MappedState
    <2> QED BY <1>5, <2>2, <2>3 DEF Dispatch
  <1>6. ASSUME NEW r \in owed, AgentAnswers(r)
        PROVE  [Rpc!Next]_(Rpc!vars)
    <2>1. r.id \in DOMAIN promise
      BY DEF IInv, TypeOK, TypeRpc
    <2>2. DOMAIN MappedState = DOMAIN promise
      BY DEF MappedState
    <2>3. Rpc!PeerAnswers(r.id)
      BY <1>6 DEF AgentAnswers, agentUnchanged, Rpc!PeerAnswers, MappedState
    <2> QED BY <2>1, <2>2, <2>3 DEF Rpc!Next, MappedState
  <1>7. CASE \/ ConnectDone \/ ConnectRejected \/ Cancel
             \/ (\E k \in Watchers : OnClosed(k)) \/ FrameArrives
             \/ (\E a \in Asks : HandlerAnswers(a))
             \/ SocketError \/ LinkDies \/ HeartbeatTick \/ Pong
             \/ (\E i \in answered : AgentRepeats(i))
             \/ AgentUpdates \/ AgentAsks \/ UNCHANGED vars
    BY <1>7 DEF ConnectDone, ConnectRejected, Cancel, OnClosed, FrameArrives,
                HandlerAnswers, SocketError, LinkDies, HeartbeatTick, Pong,
                AgentRepeats, AgentUpdates, AgentAsks, vars, sockUnchanged,
                agentUnchanged, Rpc!vars, MappedState
  <1> QED BY <1>1, <1>2, <1>3, <1>4, <1>5, <1>6, <1>7 DEF Next, Connect

(* The session keeps the promise of RpcRequests: every request is settled  *)
(* once, by its own answer or, all together, by closing.                   *)
THEOREM Refinement == Spec => RpcSpec
  <1>1. Init => Rpc!Init
    <2> SUFFICES ASSUME Init PROVE Rpc!Init
      OBVIOUS
    <2>1. MappedState = <<>>
      BY DEF Init, MappedState
    <2> QED BY <2>1 DEF Init, Rpc!Init, MappedState
  <1>2. IInv /\ [Next]_vars => [Rpc!Next]_(Rpc!vars)
    BY ConstantsAssumption, StepRefines
  <1> QED BY <1>1, <1>2, InductiveInvariant, PTL DEF Spec, RpcSpec, Rpc!Spec

-----------------------------------------------------------------------------
(* What follows for whoever awaits a request of the session: it has the    *)
(* guarantees of RpcRequests.                                              *)

Outcomes == {"pending"} \cup Rpc!Settled

\* From s to t what is settled stays settled, with closing what is not.
Stands(s, t) ==
    /\ t \in Seq(Outcomes)
    /\ \A i \in DOMAIN s : i \in DOMAIN t /\ (s[i] \in Rpc!Settled => t[i] = s[i])

(* So it is for each way a step of RpcRequests changes the outcomes.       *)
LEMMA OutcomesStand ==
    ASSUME NEW s \in Seq(Outcomes), NEW t,
           \/ t = s
           \/ \E x \in {"pending", "rejected"} : t = Append(s, x)
           \/ \E i \in DOMAIN s, x \in Rpc!Settled :
                 s[i] = "pending" /\ t = [s EXCEPT ![i] = x]
           \/ t = [i \in DOMAIN s |-> IF s[i] = "pending" THEN "rejected" ELSE s[i]]
    PROVE  Stands(s, t)
  <1>1. CASE t = s
    BY <1>1 DEF Stands
  <1>2. ASSUME NEW x \in {"pending", "rejected"}, t = Append(s, x) PROVE Stands(s, t)
    BY <1>2 DEF Stands, Outcomes, Rpc!Settled
  <1>3. ASSUME NEW i \in DOMAIN s, NEW x \in Rpc!Settled,
               s[i] = "pending", t = [s EXCEPT ![i] = x]
        PROVE  Stands(s, t)
    <2>1. x \in Outcomes /\ s[i] \notin Rpc!Settled
      BY <1>3 DEF Outcomes, Rpc!Settled
    <2> QED BY <1>3, <2>1 DEF Stands
  <1>4. CASE t = [i \in DOMAIN s |-> IF s[i] = "pending" THEN "rejected" ELSE s[i]]
    <2>1. \A i \in DOMAIN s : s[i] \in Outcomes
      OBVIOUS
    <2>2. t \in [1..Len(s) -> Outcomes] /\ Len(s) \in Nat
      BY <1>4, <2>1 DEF Outcomes, Rpc!Settled
    <2>3. t \in Seq(Outcomes)
      BY <2>2
    <2> QED BY <1>4, <2>3 DEF Stands, Rpc!Settled
  <1> QED BY <1>1, <1>2, <1>3, <1>4

(* A step of RpcRequests, in terms of the outcomes of the session.         *)
LEMMA MappedStep ==
    ASSUME MappedState \in Seq(Outcomes), [Rpc!Next]_(Rpc!vars)
    PROVE  /\ Stands(MappedState, MappedState')
           /\ Rpc!ClosedIsEmpty => Rpc!ClosedIsEmpty'
  <1> DEFINE Holds == /\ Stands(MappedState, MappedState')
                      /\ Rpc!ClosedIsEmpty => Rpc!ClosedIsEmpty'
  <1> SUFFICES Holds
    OBVIOUS
  <1>1. CASE Rpc!Issue
    <2>1. \E x \in {"pending", "rejected"} : MappedState' = Append(MappedState, x)
      BY <1>1 DEF Rpc!Issue, MappedState
    <2>2. closed' = FALSE
      BY <1>1 DEF Rpc!Issue
    <2> QED BY <2>1, <2>2, OutcomesStand DEF Rpc!ClosedIsEmpty
  <1>2. ASSUME NEW i \in DOMAIN MappedState, Rpc!Settle(i) PROVE Holds
    <2>1. \E x \in Rpc!Settled : /\ MappedState[i] = "pending"
                                 /\ MappedState' = [MappedState EXCEPT ![i] = x]
      BY <1>2 DEF Rpc!Settle, MappedState
    <2>2. closed' = FALSE
      BY <1>2 DEF Rpc!Settle
    <2> QED BY <2>1, <2>2, OutcomesStand DEF Rpc!ClosedIsEmpty
  <1>3. CASE Rpc!Close
    <2>1. MappedState' = [i \in DOMAIN MappedState |->
              IF MappedState[i] = "pending" THEN "rejected" ELSE MappedState[i]]
      BY <1>3 DEF Rpc!Close, MappedState
    <2>2. Stands(MappedState, MappedState')
      BY <2>1, OutcomesStand
    <2>3. \A i \in DOMAIN MappedState : MappedState[i] \in Outcomes
      OBVIOUS
    <2>4. \A i \in DOMAIN MappedState' : MappedState'[i] \in Rpc!Settled
      BY <2>1, <2>3 DEF Outcomes, Rpc!Settled
    <2>5. Rpc!ClosedIsEmpty'
      BY <2>4 DEF Rpc!ClosedIsEmpty, MappedState
    <2> QED BY <2>2, <2>5
  <1>4. CASE MappedState' = MappedState /\ (closed' <=> closed)
    <2>1. Stands(MappedState, MappedState')
      BY <1>4, OutcomesStand
    <2>2. Rpc!ClosedIsEmpty => Rpc!ClosedIsEmpty'
      BY <1>4 DEF Rpc!ClosedIsEmpty, MappedState
    <2> QED BY <2>1, <2>2
  <1>5. CASE Rpc!vars' = Rpc!vars
    <2>1. MappedState' = MappedState /\ (closed' <=> closed)
      BY <1>5 DEF Rpc!vars
    <2> QED BY <1>4, <2>1
  <1>6. ASSUME NEW i \in DOMAIN MappedState, Rpc!PeerAnswers(i) PROVE Holds
    <2>1. MappedState' = MappedState /\ (closed' <=> closed)
      BY <1>6 DEF Rpc!PeerAnswers
    <2> QED BY <1>4, <2>1
  <1> QED BY <1>1, <1>2, <1>3, <1>5, <1>6 DEF Rpc!Next, MappedState

RpcCorrect == MappedState \in Seq(Outcomes) /\ Rpc!ClosedIsEmpty

(* Every request of the session is pending or settled, and none is pending *)
(* once the session is closed (teardown settles all that it leaves).       *)
THEOREM NothingOutstanding == Spec => []RpcCorrect
  <1>1. Rpc!Init => RpcCorrect
    <2> SUFFICES ASSUME Rpc!Init PROVE RpcCorrect
      OBVIOUS
    <2>1. MappedState = <<>>
      BY DEF Rpc!Init, MappedState
    <2> QED BY <2>1 DEF RpcCorrect, Rpc!ClosedIsEmpty, MappedState
  <1>2. RpcCorrect /\ [Rpc!Next]_(Rpc!vars) => RpcCorrect'
    BY MappedStep DEF RpcCorrect, Stands
  <1> QED BY <1>1, <1>2, Refinement, PTL DEF RpcSpec, Rpc!Spec

(* A promise the session has settled keeps its outcome: no later answer,   *)
(* late or repeated, and no closing changes what its caller was given.     *)
THEOREM SettledStands == Spec => Rpc!SettledForGood
  <1>1. RpcCorrect /\ [Rpc!Next]_(Rpc!vars) =>
           [\A i \in DOMAIN MappedState :
               MappedState[i] \in Rpc!Settled => MappedState'[i] = MappedState[i]]_(Rpc!vars)
    BY MappedStep DEF RpcCorrect, Stands
  <1> QED BY <1>1, NothingOutstanding, Refinement, PTL
          DEF RpcSpec, Rpc!Spec, Rpc!SettledForGood

-----------------------------------------------------------------------------
(* Closing.                                                                *)

(* A step in which the client closes the session, or has closed it, calls  *)
(* nobody back: close() sets its flag before it tears down.                *)
THEOREM SilentCorrect == Spec => ExplicitCloseIsSilent
  <1> USE DEF cbVars, shutVars, callUnchanged, resumeUnchanged,
              dispatchUnchanged, sockUnchanged, agentUnchanged
  <1>1. [Next]_vars => [explicitlyClosed' => UNCHANGED fires]_vars
    <2> SUFFICES ASSUME Next, explicitlyClosed' PROVE fires' = fires
      BY DEF vars
    <2>1. CASE ConnectTooNew \/ Close
      BY <2>1 DEF ConnectTooNew, Close, CloseBody, Teardown
    <2>2. CASE SocketClose
      BY <2>2 DEF SocketClose, Teardown
    <2>3. ASSUME NEW k \in Watchers, OnClosed(k) PROVE fires' = fires
      BY <2>3 DEF OnClosed, CallBackAtOnce
    <2>4. CASE \E c \in Calls : UserCalls(c) \/ Continuation(c)
      BY <2>4 DEF UserCalls, NewSession, ListSessions, LoadSession, Prompt,
                  PromptWithoutSession, Continuation, ResumeNew, ResumeLoad,
                  ResumeList, ResumePrompt, ResumeRejected
    <2>5. CASE \/ StartHandshake \/ ConnectDone \/ ConnectRejected
               \/ Cancel \/ FrameArrives \/ SocketError \/ LinkDies
               \/ HeartbeatTick \/ Pong \/ AgentUpdates \/ AgentAsks
               \/ (\E k \in DOMAIN decoding : Dispatch(k))
               \/ (\E a \in Asks : HandlerAnswers(a))
               \/ (\E r \in owed : AgentAnswers(r))
               \/ (\E i \in answered : AgentRepeats(i))
      BY <2>5 DEF StartHandshake, ConnectDone, ConnectRejected, Cancel,
                  FrameArrives, SocketError, LinkDies, HeartbeatTick, Pong,
                  AgentUpdates, AgentAsks, Dispatch, HandlerAnswers,
                  AgentAnswers, AgentRepeats
    <2> QED BY <2>1, <2>2, <2>3, <2>4, <2>5 DEF Next, Connect
  <1> QED BY <1>1, PTL DEF Spec, ExplicitCloseIsSilent

(* A closed session says nothing and takes nothing in. It rests on         *)
(* ClosedHoldsNothing: with an empty map no answer settles a promise.      *)
THEOREM QuietCorrect == Spec => QuietAfterClose
  <1> USE DEF userVars, rpcVars, frameVars, callUnchanged, resumeUnchanged,
              dispatchUnchanged, sockUnchanged, agentUnchanged
  <1> DEFINE Quiet == /\ cancels' = cancels /\ replies' = replies
                      /\ promise' = promise
                      /\ Len(decoding') <= Len(decoding)
  <1>1. IInv /\ [Next]_vars =>
          [closed => /\ UNCHANGED <<cancels, replies, promise>>
                     /\ Len(decoding') <= Len(decoding)]_vars
    <2> SUFFICES ASSUME IInv, Next, closed PROVE Quiet
      OBVIOUS
    <2>1. /\ pending = {} /\ sock \in {"closing", "closed"}
          /\ decoding \in Seq(Frames) /\ Len(decoding) \in Nat
      BY DEF IInv, ClosedHoldsNothing, ClosedSocket, TypeOK, TypeFrames
    <2>2. ASSUME NEW k \in DOMAIN decoding, Dispatch(k) PROVE Quiet
      <3>1. Len(decoding') <= Len(decoding)
        BY <2>1, <2>2, RemoveAtFacts DEF Dispatch
      <3>2. promise' = promise /\ replies' = replies
        BY <2>1, <2>2 DEF Dispatch, Settle, Awaited, HandleNotification,
                          HandleServerRequest, Refuse, Reply
      <3> QED BY <2>2, <3>1, <3>2 DEF Dispatch
    <2>3. CASE \E c \in Calls : UserCalls(c) \/ Continuation(c)
      BY <2>1, <2>3 DEF UserCalls, NewSession, ListSessions, LoadSession, Prompt,
                  PromptWithoutSession, Continuation, ResumeNew, ResumeLoad,
                  ResumeList, ResumePrompt, ResumeRejected, Request
    <2>4. CASE ConnectTooNew \/ Close \/ SocketClose
      <3>1. decoding' = decoding /\ cancels' = cancels /\ replies' = replies
        BY <2>4 DEF ConnectTooNew, Close, SocketClose
      <3>2. \E e \in {explicitlyClosed, explicitlyClosed'} : Teardown(e)
        BY <2>4 DEF ConnectTooNew, Close, CloseBody, SocketClose
      <3>3. promise' = promise
        BY <3>2 DEF Teardown
      <3> QED BY <2>1, <3>1, <3>3
    <2>5. CASE (\E a \in Asks : HandlerAnswers(a)) \/ FrameArrives \/ Cancel
      BY <2>1, <2>5 DEF HandlerAnswers, Reply, FrameArrives, Cancel
    <2>6. CASE StartHandshake
      BY <2>1, <2>6 DEF StartHandshake
    <2>7. CASE \/ ConnectDone \/ ConnectRejected \/ SocketError \/ LinkDies
               \/ HeartbeatTick \/ Pong \/ AgentUpdates \/ AgentAsks
               \/ (\E k \in Watchers : OnClosed(k))
               \/ (\E r \in owed : AgentAnswers(r))
               \/ (\E i \in answered : AgentRepeats(i))
      BY <2>1, <2>7 DEF ConnectDone, ConnectRejected, SocketError, LinkDies,
                  HeartbeatTick, Pong, AgentUpdates, AgentAsks, OnClosed,
                  AgentAnswers, AgentRepeats
    <2> QED BY <2>2, <2>3, <2>4, <2>5, <2>6, <2>7 DEF Next, Connect
  <1> QED BY <1>1, InductiveInvariant, PTL DEF Spec, QuietAfterClose

-----------------------------------------------------------------------------
(* The watchers.                                                           *)

\* While the session is open everyone who joined is to be told, and nobody
\* has been; a watcher is told after it joined.
Joined == /\ ~closed => closedCallbacks = joined /\ \A k \in Watchers : fires[k] = 0
          /\ \A k \in Watchers : k \notin joined => fires[k] = 0

(* onClosed's contract.                                                    *)
THEOREM WatchersCorrect == Spec => []WatchersTold
  <1> USE DEF cbVars, shutVars, callUnchanged, resumeUnchanged,
              dispatchUnchanged, sockUnchanged, agentUnchanged
  <1>1. Init => Joined /\ WatchersTold
    BY DEF Init, Joined, WatchersTold
  <1>2. IInv /\ Joined /\ WatchersTold /\ [Next]_vars => Joined' /\ WatchersTold'
    <2> SUFFICES ASSUME IInv, Joined, WatchersTold, [Next]_vars
                 PROVE  Joined' /\ WatchersTold'
      OBVIOUS
    <2>0. /\ fires \in [Watchers -> Nat] /\ joined \subseteq Watchers
          /\ closed \in BOOLEAN /\ explicitlyClosed \in BOOLEAN
      BY DEF IInv, TypeOK, TypeSocket
    <2>1. ASSUME NEW e \in BOOLEAN, Teardown(e), joined' = joined,
                 explicitlyClosed' = e, explicitlyClosed => e
          PROVE  Joined' /\ WatchersTold'
      <3>1. CASE closed
        BY <2>1, <3>1 DEF Teardown, Joined, WatchersTold
      <3>2. CASE ~closed /\ e
        BY <2>0, <2>1, <3>2 DEF Teardown, Joined, WatchersTold
      <3>3. CASE ~closed /\ ~e
        <4>1. closed' /\ fires' = [k \in Watchers |-> IF k \in joined THEN 1 ELSE 0]
          BY <2>0, <2>1, <3>3 DEF Teardown, Joined
        <4> QED BY <2>1, <4>1 DEF Joined, WatchersTold
      <3> QED BY <2>1, <3>1, <3>2, <3>3
    <2>2. CASE ConnectTooNew \/ Close
      <3>1. Teardown(TRUE) /\ joined' = joined /\ explicitlyClosed' = TRUE
        BY <2>2 DEF ConnectTooNew, Close, CloseBody
      <3> QED BY <3>1, <2>1
    <2>3. CASE SocketClose
      BY <2>0, <2>1, <2>3 DEF SocketClose
    <2>4. ASSUME NEW k \in Watchers, OnClosed(k)
          PROVE  Joined' /\ WatchersTold'
      <3>1. fires[k] = 0
        BY <2>4 DEF OnClosed, Joined
      <3>2. CASE ~closed
        BY <2>0, <2>4, <3>1, <3>2 DEF OnClosed, CallBackAtOnce, Joined, WatchersTold
      <3>3. CASE closed /\ explicitlyClosed
        BY <2>0, <2>4, <3>1, <3>3 DEF OnClosed, CallBackAtOnce, Joined, WatchersTold
      <3>4. CASE closed /\ ~explicitlyClosed
        BY <2>0, <2>4, <3>1, <3>4 DEF OnClosed, CallBackAtOnce, Joined, WatchersTold
      <3> QED BY <3>2, <3>3, <3>4
    <2>5. CASE \E c \in Calls : UserCalls(c) \/ Continuation(c)
      <3>1. UNCHANGED <<cbVars, shutVars>>
        BY <2>5 DEF UserCalls, NewSession, ListSessions, LoadSession, Prompt,
                    PromptWithoutSession, Continuation, ResumeNew, ResumeLoad,
                    ResumeList, ResumePrompt, ResumeRejected
      <3> QED BY <3>1 DEF Joined, WatchersTold
    <2>6. CASE \/ StartHandshake \/ ConnectDone \/ ConnectRejected
               \/ Cancel \/ FrameArrives \/ SocketError \/ LinkDies
               \/ HeartbeatTick \/ Pong \/ AgentUpdates \/ AgentAsks
               \/ (\E k \in DOMAIN decoding : Dispatch(k))
               \/ (\E a \in Asks : HandlerAnswers(a))
               \/ (\E r \in owed : AgentAnswers(r))
               \/ (\E i \in answered : AgentRepeats(i))
               \/ UNCHANGED vars
      <3>1. UNCHANGED <<cbVars, shutVars>>
        BY <2>6 DEF StartHandshake, ConnectDone, ConnectRejected, Cancel,
                    FrameArrives, SocketError, LinkDies, HeartbeatTick, Pong,
                    AgentUpdates, AgentAsks, Dispatch, HandlerAnswers,
                    AgentAnswers, AgentRepeats, vars
      <3> QED BY <3>1 DEF Joined, WatchersTold
    <2> QED BY <2>2, <2>3, <2>4, <2>5, <2>6 DEF Next, Connect
  <1> QED BY <1>1, <1>2, InductiveInvariant, PTL DEF Spec

-----------------------------------------------------------------------------
(* What a promise came to stays; the parts below rest on it.               *)

(* No step takes a promise away or changes one that is settled.            *)
LEMMA PromisesStand ==
    ASSUME ConstantsAssumption, IInv, [Next]_vars
    PROVE  /\ DOMAIN promise \subseteq DOMAIN promise'
           /\ \A i \in DOMAIN promise :
                 promise[i].st # "pending" => promise'[i] = promise[i]
  <1> USE DEF rpcVars, callUnchanged, resumeUnchanged, dispatchUnchanged,
              sockUnchanged, agentUnchanged
  <1> DEFINE Stand == /\ DOMAIN promise \subseteq DOMAIN promise'
                      /\ \A i \in DOMAIN promise :
                            promise[i].st # "pending" => promise'[i] = promise[i]
  <1> SUFFICES Stand
    OBVIOUS
  <1>0. /\ TypeOK /\ TypeRpc /\ PendingMap /\ ClosedHoldsNothing
        /\ sessionId \in Sessions \cup {NoSession}
        /\ NoSession \in Sessions \cup {NoSession}
    BY DEF IInv, TypeOK, TypeUser
  <1>1. ASSUME NEW op \in AllOps \cup {"initialize"},
               NEW s \in Sessions \cup {NoSession}, NEW b, Issue(op, s, b)
        PROVE  Stand
    BY <1>0, <1>1, IssueFacts
  <1>2. ASSUME NEW e, Teardown(e) PROVE Stand
    BY <1>0, <1>2, TeardownFacts DEF TypeRpc
  <1>3. ASSUME promise' = promise PROVE Stand
    BY <1>3
  <1>4. ASSUME NEW k \in DOMAIN decoding, Dispatch(k) PROVE Stand
    <2>1. \/ promise' = promise
          \/ \E i \in pending : \E p : promise' = [promise EXCEPT ![i] = p]
      BY <1>4 DEF Dispatch, Settle, Awaited, HandleNotification,
                  HandleServerRequest
    <2>2. \A i \in pending : promise[i].st = "pending"
      BY <1>0 DEF PendingMap
    <2> QED BY <2>1, <2>2
  <1>5. ASSUME NEW c \in Calls, NEW op \in AllOps, NEW s \in Sessions \cup {NoSession},
               NEW page, Request(c, op, s, page)
        PROVE  Stand
    <2>1. promise' = promise \/ Issue(op, s, sock = "open")
      BY <1>5 DEF Request
    <2> QED BY <2>1, <1>1, <1>3
  <1>6. ASSUME NEW c \in Calls, UserCalls(c) PROVE Stand
    <2>1. CASE PromptWithoutSession(c)
      BY <2>1, <1>3 DEF PromptWithoutSession
    <2>2. CASE NewSession(c) \/ ListSessions(c) \/ Prompt(c)
               \/ \E s \in Sessions : LoadSession(c, s)
      <3>1. \E op \in AllOps, s \in Sessions \cup {NoSession}, page \in Nat :
               Request(c, op, s, page)
        BY <1>0, <2>2 DEF NewSession, ListSessions, Prompt, LoadSession, AllOps
      <3> QED BY <3>1, <1>5
    <2> QED BY <1>6, <2>1, <2>2 DEF UserCalls
  <1>7. ASSUME NEW c \in Calls, Continuation(c) PROVE Stand
    <2>1. \/ promise' = promise
          \/ Request(c, "list", NoSession, call[c].page + 1)
      BY <1>7 DEF Continuation, ResumeNew, ResumeLoad, ResumeList,
                  ResumePrompt, ResumeRejected
    <2>2. "list" \in AllOps
      BY DEF AllOps
    <2> QED BY <1>0, <2>1, <2>2, <1>3, <1>5
  <1>8. CASE StartHandshake
    BY <1>0, <1>1, <1>8 DEF StartHandshake
  <1>9. CASE ConnectTooNew \/ Close \/ SocketClose
    <2>1. \E e \in {explicitlyClosed, explicitlyClosed'} : Teardown(e)
      BY <1>9 DEF ConnectTooNew, Close, CloseBody, SocketClose
    <2> QED BY <2>1, <1>2
  <1>10. CASE \/ ConnectDone \/ ConnectRejected \/ Cancel \/ FrameArrives
              \/ SocketError \/ LinkDies \/ HeartbeatTick \/ Pong
              \/ AgentUpdates \/ AgentAsks
              \/ (\E k \in Watchers : OnClosed(k))
              \/ (\E a \in Asks : HandlerAnswers(a))
              \/ (\E r \in owed : AgentAnswers(r))
              \/ (\E i \in answered : AgentRepeats(i))
              \/ UNCHANGED vars
    <2>1. promise' = promise
      BY <1>10 DEF ConnectDone, ConnectRejected, Cancel, FrameArrives,
                   SocketError, LinkDies, HeartbeatTick, Pong, AgentUpdates,
                   AgentAsks, OnClosed, HandlerAnswers, AgentAnswers,
                   AgentRepeats, vars
    <2> QED BY <2>1, <1>3
  <1> HIDE DEF Stand
  <1> QED BY <1>4, <1>6, <1>7, <1>8, <1>9, <1>10 DEF Next, Connect

-----------------------------------------------------------------------------
(* connect().                                                              *)

\* While connect() awaits the answer to initialize the request is there.
Handshaken ==
    /\ conn \in {"initializing", "connected"} => 1 \in DOMAIN promise
    /\ conn = "opening" => sock # "open"
    /\ explicitlyClosed => sock \in {"closing", "closed"}
    /\ conn = "failed" /\ sock = "open" =>
          1 \in DOMAIN promise /\ promise[1].st = "rejected"

(* connect() that throws leaves an open socket behind only if the agent    *)
(* refused initialize.                                                     *)
THEOREM FailedConnectCorrect == Spec => []FailedConnectLetsGo
  <1> USE DEF netVars, shutVars, callUnchanged, resumeUnchanged,
              dispatchUnchanged, sockUnchanged, agentUnchanged
  <1>1. Init => Handshaken
    BY DEF Init, Handshaken
  <1>2. IInv /\ Handshaken /\ [Next]_vars => Handshaken'
    <2> SUFFICES ASSUME IInv, Handshaken, [Next]_vars PROVE Handshaken'
      OBVIOUS
    <2>1. /\ DOMAIN promise \subseteq DOMAIN promise'
          /\ \A i \in DOMAIN promise :
                promise[i].st # "pending" => promise'[i] = promise[i]
      BY ConstantsAssumption, PromisesStand
    <2>2. TypeSocket
      BY DEF IInv, TypeOK
    <2>3. CASE UNCHANGED <<sock, conn, explicitlyClosed>>
      BY <2>1, <2>3 DEF Handshaken
    <2>4. CASE sock' \in {"closing", "closed"} /\ conn' \in {conn, "failed"}
      BY <2>1, <2>4 DEF Handshaken
    <2>5. CASE StartHandshake
      <3>1. TypeRpc /\ PendingMap /\ NoSession \in Sessions \cup {NoSession}
        BY DEF IInv, TypeOK
      <3>2. DOMAIN promise' = DOMAIN promise \cup {nextId} /\ nextId \in Nat \ {0}
            /\ Len(promise') = nextId
        BY <2>5, <3>1, IssueFacts DEF StartHandshake
      <3>3. promise' \in Seq(Promises)
        BY <2>5, <3>1, IssueFacts DEF StartHandshake
      <3>4. 1 \in DOMAIN promise'
        BY <3>2, <3>3
      <3> QED BY <2>5, <3>4 DEF StartHandshake, Handshaken
    <2>6. CASE ConnectDone
      BY <2>1, <2>6 DEF ConnectDone, Initializing, Handshaken
    <2>7. CASE ConnectRejected
      BY <2>1, <2>7 DEF ConnectRejected, Initializing, Handshaken
    <2>8. CASE ConnectTooNew \/ Close \/ SocketError \/ SocketClose
      <3>1. sock' \in {"closing", "closed"} /\ conn' \in {conn, "failed"}
        BY <2>2, <2>8 DEF ConnectTooNew, Close, CloseBody, LetGo, SocketError,
                          SocketClose, TypeSocket
      <3> QED BY <3>1, <2>4
    <2>9. CASE HeartbeatTick
      <3>1. \/ UNCHANGED <<sock, conn, explicitlyClosed>>
            \/ sock' \in {"closing", "closed"} /\ conn' = conn
        BY <2>2, <2>9 DEF HeartbeatTick, Terminate, LetGo, TypeSocket
      <3> QED BY <3>1, <2>3, <2>4
    <2>10. CASE \E c \in Calls : UserCalls(c) \/ Continuation(c)
      <3>1. UNCHANGED <<sock, conn, explicitlyClosed>>
        BY <2>10 DEF UserCalls, NewSession, ListSessions, LoadSession, Prompt,
                     PromptWithoutSession, Continuation, ResumeNew, ResumeLoad,
                     ResumeList, ResumePrompt, ResumeRejected
      <3> QED BY <3>1, <2>3
    <2>11. CASE \/ Cancel \/ FrameArrives \/ LinkDies \/ Pong
                \/ AgentUpdates \/ AgentAsks
                \/ (\E k \in Watchers : OnClosed(k))
                \/ (\E k \in DOMAIN decoding : Dispatch(k))
                \/ (\E a \in Asks : HandlerAnswers(a))
                \/ (\E r \in owed : AgentAnswers(r))
                \/ (\E i \in answered : AgentRepeats(i))
                \/ UNCHANGED vars
      <3>1. UNCHANGED <<sock, conn, explicitlyClosed>>
        BY <2>11 DEF Cancel, FrameArrives, LinkDies, Pong, AgentUpdates,
                     AgentAsks, OnClosed, Dispatch, HandlerAnswers,
                     AgentAnswers, AgentRepeats, vars
      <3> QED BY <3>1, <2>3
    <2> QED BY <2>5, <2>6, <2>7, <2>8, <2>9, <2>10, <2>11 DEF Next, Connect
  <1>3. Handshaken => FailedConnectLetsGo
    BY DEF Handshaken, FailedConnectLetsGo
  <1> QED BY <1>1, <1>2, <1>3, InductiveInvariant, PTL DEF Spec

-----------------------------------------------------------------------------
(* listSessions.                                                           *)

\* A call is done only when its promise was fulfilled, and a list is done
\* with a cursor in hand only at the cap.
Paged(c) ==
    /\ call[c].op = "list" => call[c].page <= PageCap
    /\ call[c].phase = "done" =>
          /\ Outcome(call[c].id).st = "fulfilled"
          /\ call[c].op = "list" /\ Result(c) = "more" => call[c].page = PageCap

(* The pages of listSessions are read up to the cap, and no further.       *)
THEOREM ListCorrect == Spec => []ListStopsAtCap
  <1> USE DEF rpcVars, callUnchanged, resumeUnchanged, dispatchUnchanged,
              sockUnchanged, agentUnchanged
  <1>1. Init => \A c \in Calls : Paged(c)
    BY DEF Init, Paged, IdleCall
  <1>2. IInv /\ (\A c \in Calls : Paged(c)) /\ [Next]_vars => (\A c \in Calls : Paged(c))'
    <2> SUFFICES ASSUME IInv, \A c \in Calls : Paged(c), [Next]_vars, NEW c \in Calls
                 PROVE  Paged(c)'
      OBVIOUS
    <2>0. /\ call \in [Calls -> CallStates] /\ call[c] \in CallStates
          /\ call[c].page \in Nat /\ call[c].id \in Nat
          /\ call[c].id <= Len(promise) /\ promise \in Seq(Promises)
          /\ Paged(c) /\ PageCap \in Nat \ {0}
      BY ConstantsAssumption DEF IInv, TypeOK, TypeRpc, CallStates, ConstantsAssumption
    <2>1. CASE call'[c] = call[c]
      <3>1. CASE call[c].phase # "done"
        BY <2>0, <2>1, <3>1 DEF Paged
      <3>2. CASE call[c].phase = "done"
        <4>1. call[c].id # 0 /\ call[c].id \in DOMAIN promise
          BY <2>0, <3>2 DEF Paged, Outcome, Rejected
        <4>2. promise[call[c].id].st = "fulfilled"
          BY <2>0, <3>2, <4>1 DEF Paged, Outcome
        <4>3. promise'[call[c].id] = promise[call[c].id]
          BY <4>1, <4>2, ConstantsAssumption, PromisesStand
        <4> QED BY <2>0, <2>1, <4>1, <4>3 DEF Paged, Outcome, Result
      <3> QED BY <3>1, <3>2
    <2>2. ASSUME NEW d \in Calls, UserCalls(d)
          PROVE  Paged(c)'
      <3>1. CASE d # c
        <4>1. call'[c] = call[c]
          BY <2>0, <2>2, <3>1 DEF UserCalls, NewSession, ListSessions, LoadSession,
                                  Prompt, PromptWithoutSession, Request, Await
        <4> QED BY <4>1, <2>1
      <3>2. CASE d = c
        <4>1. /\ call'[c].phase \in {"waiting", "failed"}
              /\ call'[c].op = "list" => call'[c].page = 1
          <5>1. CASE NewSession(c)
            BY <2>0, <5>1 DEF NewSession, Request, Await
          <5>2. CASE ListSessions(c)
            BY <2>0, <5>2 DEF ListSessions, Request, Await
          <5>3. ASSUME NEW s \in Sessions, LoadSession(c, s)
                PROVE  call'[c].phase = "waiting" /\ call'[c].op = "load"
            BY <2>0, <5>3 DEF LoadSession, Request, Await
          <5>4. CASE Prompt(c)
            BY <2>0, <5>4 DEF Prompt, Request, Await
          <5>5. CASE PromptWithoutSession(c)
            BY <2>0, <5>5 DEF PromptWithoutSession, IdleCall
          <5> QED BY <2>2, <3>2, <5>1, <5>2, <5>3, <5>4, <5>5 DEF UserCalls
        <4> QED BY <2>0, <4>1 DEF Paged
      <3> QED BY <3>1, <3>2
    <2>3. ASSUME NEW d \in Calls, Continuation(d), d # c
          PROVE  Paged(c)'
      <3>1. call'[c] = call[c]
        BY <2>0, <2>3 DEF Continuation, ResumeNew, ResumeLoad, ResumeList,
                          ResumePrompt, ResumeRejected, Request, Await, Finish
      <3> QED BY <3>1, <2>1
    <2>4. ASSUME Finish(c, "done"), promise' = promise,
                 Outcome(call[c].id).st = "fulfilled",
                 call[c].op = "list" => ~NextPage(c)
          PROVE  Paged(c)'
      <3>1. /\ call'[c].op = call[c].op /\ call'[c].id = call[c].id
            /\ call'[c].page = call[c].page
        BY <2>0, <2>4 DEF Finish, CallStates
      <3>2. Outcome(call[c].id)' = Outcome(call[c].id) /\ Result(c)' = Result(c)
        BY <2>4, <3>1 DEF Outcome, Result
      <3>3. call[c].op = "list" /\ Result(c) = "more" => call[c].page = PageCap
        BY <2>0, <2>4 DEF NextPage, Paged
      <3> QED BY <2>0, <2>4, <3>1, <3>2, <3>3 DEF Paged, Outcome, Result
    <2>5. CASE ResumeNew(c) \/ ResumeLoad(c) \/ ResumePrompt(c)
      <3>1. /\ Finish(c, "done") /\ promise' = promise
            /\ Outcome(call[c].id).st = "fulfilled" /\ call[c].op # "list"
        BY <2>5 DEF ResumeNew, ResumeLoad, ResumePrompt, Resumes
      <3> QED BY <3>1, <2>4
    <2>6. CASE ResumeList(c)
      <3>1. CASE NextPage(c)
        <4>1. call'[c].phase = "waiting" /\ call'[c].page = call[c].page + 1
          BY <2>0, <2>6, <3>1 DEF ResumeList, Request, Await
        <4> QED BY <2>0, <3>1, <4>1 DEF NextPage, Paged
      <3>2. CASE ~NextPage(c)
        BY <2>6, <3>2, <2>4 DEF ResumeList, Resumes
      <3> QED BY <3>1, <3>2
    <2>7. CASE ResumeRejected(c)
      <3>1. /\ call'[c].op = call[c].op /\ call'[c].page = call[c].page
            /\ call'[c].phase = "failed"
        BY <2>0, <2>7 DEF ResumeRejected, Finish, CallStates
      <3> QED BY <2>0, <3>1 DEF Paged
    <2>8. CASE \/ Connect \/ Cancel \/ Close \/ FrameArrives \/ SocketError
               \/ SocketClose \/ LinkDies \/ HeartbeatTick \/ Pong
               \/ AgentUpdates \/ AgentAsks
               \/ (\E k \in Watchers : OnClosed(k))
               \/ (\E k \in DOMAIN decoding : Dispatch(k))
               \/ (\E a \in Asks : HandlerAnswers(a))
               \/ (\E r \in owed : AgentAnswers(r))
               \/ (\E i \in answered : AgentRepeats(i))
               \/ UNCHANGED vars
      <3>1. call' = call
        BY <2>8 DEF Connect, StartHandshake, ConnectDone, ConnectRejected,
                    ConnectTooNew, Cancel, Close, FrameArrives, SocketError,
                    SocketClose, LinkDies, HeartbeatTick, Pong, AgentUpdates,
                    AgentAsks, OnClosed, Dispatch, HandlerAnswers,
                    AgentAnswers, AgentRepeats, vars
      <3> QED BY <3>1, <2>1
    <2> QED BY <2>2, <2>3, <2>5, <2>6, <2>7, <2>8 DEF Next, Continuation
  <1>3. (\A c \in Calls : Paged(c)) => ListStopsAtCap
    BY DEF Paged, ListStopsAtCap
  <1> QED BY <1>1, <1>2, <1>3, InductiveInvariant, PTL DEF Spec

-----------------------------------------------------------------------------
(* The turn in flight.                                                     *)

\* What the two fields say of the turns; a program that awaits its turns has
\* one in flight at most.
TurnInv ==
    /\ TurnVisible
    /\ promptActive => promptSessionId # NoSession
    /\ OneTurn => \A c, d \in Turns : c = d

(* Every step keeps it.                                                    *)
LEMMA TurnPreserved ==
    ASSUME ConstantsAssumption, IInv, TurnInv, [Next]_vars
    PROVE  TurnInv'
  <1> USE DEF turnVars, callUnchanged, resumeUnchanged, dispatchUnchanged,
              sockUnchanged, agentUnchanged
  <1>0. /\ call \in [Calls -> CallStates] /\ Turns \subseteq Calls
        /\ TurnVisible /\ OneTurn \in BOOLEAN
        /\ promptActive => promptSessionId # NoSession
        /\ OneTurn => \A c, d \in Turns : c = d
    BY ConstantsAssumption DEF IInv, TypeOK, TypeRpc, TurnInv, Turns
  \* A step that leaves the turns alone, and one that ends the turn.
  <1>1. ASSUME Turns' = Turns, \A d \in Turns : call'[d] = call[d],
               promptActive' = promptActive, promptSessionId' = promptSessionId
        PROVE  TurnInv'
    BY <1>0, <1>1 DEF TurnInv, TurnVisible
  <1>2. ASSUME NEW c \in Calls, c \notin Turns, c \notin Turns',
               \A d \in Calls \ {c} : call'[d] = call[d],
               promptActive' = promptActive, promptSessionId' = promptSessionId
        PROVE  TurnInv'
    <2>1. \A d \in Calls \ {c} : d \in Turns' <=> d \in Turns
      BY <1>2 DEF Turns, Waiting
    <2>2. Turns' = Turns
      BY <2>1, <1>2 DEF Turns
    <2> QED BY <1>0, <1>1, <1>2, <2>2
  <1>3. ASSUME NEW c \in Turns, NEW phase \in {"done", "failed"},
               Finish(c, phase), EndPrompt
        PROVE  TurnInv'
    <2>1. \A d \in Calls \ {c} : call'[d] = call[d]
      BY <1>0, <1>3 DEF Finish
    <2>2. call'[c].phase = phase
      BY <1>0, <1>3 DEF Finish, CallStates
    <2>3. Turns' = Turns \ {c}
      BY <1>0, <1>3, <2>1, <2>2 DEF Turns, Waiting
    <2>4. OneTurn => Turns' = {}
      BY <1>0, <1>3, <2>3
    <2> QED BY <1>3, <2>4 DEF EndPrompt, TurnInv, TurnVisible
  <1>4. ASSUME NEW c \in Calls, Prompt(c)
        PROVE  TurnInv'
    <2>1. (OneTurn => Turns = {}) /\ sessionId # NoSession
      BY <1>4 DEF Prompt
    <2>2. \A d \in Calls \ {c} : call'[d] = call[d]
      BY <1>0, <1>4 DEF Prompt, Request, Await
    <2>3. call'[c].op = "prompt" /\ call'[c].phase = "waiting" /\ call'[c].sess = sessionId
      BY <1>0, <1>4 DEF Prompt, Request, Await
    <2>4. Turns' = Turns \cup {c}
      BY <2>2, <2>3 DEF Turns, Waiting
    <2> QED BY <1>4, <2>1, <2>3, <2>4 DEF Prompt, TurnInv, TurnVisible
  <1>5. ASSUME NEW c \in Calls,
               \/ NewSession(c) \/ ListSessions(c) \/ PromptWithoutSession(c)
               \/ \E s \in Sessions : LoadSession(c, s)
        PROVE  TurnInv'
    <2>1. c \notin Turns
      BY <1>5 DEF NewSession, ListSessions, PromptWithoutSession, LoadSession,
                  CanCall, Turns, Waiting
    <2>2. \A d \in Calls \ {c} : call'[d] = call[d]
      BY <1>0, <1>5 DEF NewSession, ListSessions, PromptWithoutSession,
                        LoadSession, Request, Await
    <2>3. call'[c].op # "prompt" \/ call'[c].phase = "failed"
      <3>1. CASE NewSession(c) \/ ListSessions(c)
        BY <1>0, <3>1 DEF NewSession, ListSessions, Request, Await
      <3>2. CASE PromptWithoutSession(c)
        BY <1>0, <3>2 DEF PromptWithoutSession, IdleCall
      <3>3. ASSUME NEW s \in Sessions, LoadSession(c, s)
            PROVE  call'[c].op # "prompt"
        BY <1>0, <3>3 DEF LoadSession, Request, Await
      <3> QED BY <1>5, <3>1, <3>2, <3>3
    <2>4. c \notin Turns'
      BY <2>3 DEF Turns, Waiting
    <2>5. promptActive' = promptActive /\ promptSessionId' = promptSessionId
      BY <1>5 DEF NewSession, ListSessions, PromptWithoutSession, LoadSession
    <2> QED BY <1>2, <2>1, <2>2, <2>4, <2>5
  <1>6. ASSUME NEW c \in Calls, Continuation(c), call[c].op # "prompt"
        PROVE  TurnInv'
    <2>1. \A d \in Calls \ {c} : call'[d] = call[d]
      BY <1>0, <1>6 DEF Continuation, ResumeNew, ResumeLoad, ResumeList,
                        ResumePrompt, ResumeRejected, Request, Await, Finish
    <2>2. call'[c].op # "prompt"
      <3>1. CASE \E phase \in {"done", "failed"} : Finish(c, phase)
        BY <1>0, <1>6, <3>1 DEF Finish, CallStates
      <3>2. CASE Request(c, "list", NoSession, call[c].page + 1)
        BY <1>0, <3>2 DEF Request, Await
      <3> QED BY <1>6, <3>1, <3>2 DEF Continuation, ResumeNew, ResumeLoad,
                        ResumeList, ResumePrompt, ResumeRejected
    <2>3. c \notin Turns /\ c \notin Turns'
      BY <1>6, <2>2 DEF Turns
    <2>4. promptActive' = promptActive /\ promptSessionId' = promptSessionId
      BY <1>6 DEF Continuation, ResumeNew, ResumeLoad, ResumeList,
                  ResumePrompt, ResumeRejected, Resumes
    <2> QED BY <1>2, <2>1, <2>3, <2>4
  <1>7. ASSUME NEW c \in Calls, Continuation(c), call[c].op = "prompt"
        PROVE  TurnInv'
    <2>1. ResumePrompt(c) \/ ResumeRejected(c)
      BY <1>7 DEF Continuation, ResumeNew, ResumeLoad, ResumeList, Resumes
    <2>2. c \in Turns
      BY <1>7, <2>1 DEF ResumePrompt, ResumeRejected, Resumes, Ready, Turns
    <2>3. EndPrompt /\ \E phase \in {"done", "failed"} : Finish(c, phase)
      BY <1>7, <2>1 DEF ResumePrompt, ResumeRejected
    <2> QED BY <1>3, <2>2, <2>3
  <1>8. CASE \/ Connect \/ Cancel \/ Close \/ FrameArrives \/ SocketError
             \/ SocketClose \/ LinkDies \/ HeartbeatTick \/ Pong
             \/ AgentUpdates \/ AgentAsks
             \/ (\E k \in Watchers : OnClosed(k))
             \/ (\E k \in DOMAIN decoding : Dispatch(k))
             \/ (\E a \in Asks : HandlerAnswers(a))
             \/ (\E r \in owed : AgentAnswers(r))
             \/ (\E i \in answered : AgentRepeats(i))
             \/ UNCHANGED vars
    <2>1. call' = call /\ promptActive' = promptActive
          /\ promptSessionId' = promptSessionId
      BY <1>8 DEF Connect, StartHandshake, ConnectDone, ConnectRejected,
                  ConnectTooNew, Cancel, Close, FrameArrives, SocketError,
                  SocketClose, LinkDies, HeartbeatTick, Pong, AgentUpdates,
                  AgentAsks, OnClosed, Dispatch, HandlerAnswers,
                  AgentAnswers, AgentRepeats, vars
    <2>2. Turns' = Turns
      BY <2>1 DEF Turns, Waiting
    <2> QED BY <1>1, <2>1, <2>2
  <1> QED BY <1>4, <1>5, <1>6, <1>7, <1>8 DEF Next, UserCalls

(* It holds at every step.                                                 *)
LEMMA TurnInvariant == Spec => []TurnInv
  <1>1. Init => TurnInv
    BY DEF Init, TurnInv, TurnVisible, Turns, Waiting, IdleCall
  <1>2. IInv /\ TurnInv /\ [Next]_vars => TurnInv'
    BY ConstantsAssumption, TurnPreserved
  <1> QED BY <1>1, <1>2, InductiveInvariant, PTL DEF Spec

(* Whatever turns overlap, no pin outlives its turn; and if the program    *)
(* awaits each turn, isPromptActive() tells of every one in flight.        *)
THEOREM TurnCorrect == Spec => []TurnVisible
  <1>1. TurnInv => TurnVisible
    BY DEF TurnInv
  <1> QED BY <1>1, TurnInvariant, PTL

(* And cancel() reaches a turn in flight: with turns that are awaited at   *)
(* any time, with turns that overlap until one of them ends.               *)
THEOREM CancelCorrect == Spec => CancelReachesTurn
  <1> USE DEF userVars, callUnchanged, resumeUnchanged, dispatchUnchanged,
              sockUnchanged, agentUnchanged
  <1>1. IInv /\ TurnInv /\ [Next]_vars =>
           [cancels' # cancels /\ Turns # {} /\ (OneTurn \/ promptActive) =>
               \E c \in Turns : Last(cancels') = call[c].sess]_vars
    <2> SUFFICES ASSUME IInv, TurnInv, Next, cancels' # cancels, Turns # {},
                        OneTurn \/ promptActive
                 PROVE  \E c \in Turns : Last(cancels') = call[c].sess
      OBVIOUS
    <2>1. Cancel
      BY DEF Next, Connect, UserCalls, Continuation, StartHandshake, ConnectDone,
             ConnectRejected, ConnectTooNew, NewSession, ListSessions,
             LoadSession, Prompt, PromptWithoutSession, ResumeNew, ResumeLoad,
             ResumeList, ResumePrompt, ResumeRejected, Close, OnClosed,
             FrameArrives, Dispatch, HandlerAnswers, SocketError, SocketClose,
             LinkDies, HeartbeatTick, Pong, AgentAnswers, AgentRepeats,
             AgentUpdates, AgentAsks
    <2>2. promptActive /\ promptSessionId # NoSession
      BY DEF TurnInv, TurnVisible
    <2>. PICK c \in Turns : promptSessionId = call[c].sess
      BY <2>2 DEF TurnInv, TurnVisible
    <2>3. CancelTarget = call[c].sess
      BY <2>2 DEF CancelTarget
    <2>4. cancels \in Seq(Sessions) /\ call[c].sess \in Sessions
      BY <2>2 DEF IInv, TypeOK, TypeUser
    <2>5. /\ cancels' \in Seq(Sessions) /\ Len(cancels') = Len(cancels) + 1
          /\ cancels'[Len(cancels) + 1] = call[c].sess
      BY <2>1, <2>3, <2>4, AppendFacts DEF Cancel
    <2> QED BY <2>5 DEF Last
  <1> QED BY <1>1, TurnInvariant, InductiveInvariant, PTL DEF Spec, CancelReachesTurn

-----------------------------------------------------------------------------
(* The agent's requests and updates, from the wire to the callbacks.       *)

\* The socket is not yet given up: what the agent sends can still arrive.
Linked == sock \in {"connecting", "open"} /\ link = "up"

(* The frames that go on the wire.                                         *)
LEMMA FramesSent ==
    ASSUME IInv
    PROVE  /\ \A r \in owed : AgentAnswers(r) =>
                 \E f \in Frames : f.kind = "answer" /\ wire' = Append(wire, f)
           /\ \A i \in answered : AgentRepeats(i) =>
                 \E f \in Frames : f.kind = "answer" /\ wire' = Append(wire, f)
           /\ AgentUpdates =>
                 \E f \in Frames : /\ f.kind = "update" /\ f.id = said + 1
                                   /\ wire' = Append(wire, f)
  <1>0. /\ owed \subseteq Requests /\ answered \subseteq Nat /\ said \in Nat
    BY DEF IInv, TypeOK, TypeRpc, TypeUser
  <1>1. ASSUME NEW r \in owed, AgentAnswers(r)
        PROVE  \E f \in Frames : f.kind = "answer" /\ wire' = Append(wire, f)
    <2>1. PICK v \in AnswersTo(r) : wire' = Append(wire, Frame("answer", r.id, v))
      BY <1>1 DEF AgentAnswers
    <2>2. v \in Results /\ r.id \in Nat
      BY <1>0, <1>1, <2>1 DEF AnswersTo, Results, Requests, AllOps
    <2> QED BY <2>1, <2>2 DEF Frame, Frames
  <1>2. ASSUME NEW i \in answered, AgentRepeats(i)
        PROVE  \E f \in Frames : f.kind = "answer" /\ wire' = Append(wire, f)
    BY <1>0, <1>2 DEF AgentRepeats, Frame, Frames, Results
  <1>3. ASSUME AgentUpdates
        PROVE  \E f \in Frames : /\ f.kind = "update" /\ f.id = said + 1
                                 /\ wire' = Append(wire, f)
    BY <1>0, <1>3 DEF AgentUpdates, Frame, Frames, Results
  <1> QED BY <1>1, <1>2, <1>3

(* Everything else leaves the frames alone, or loses the wire for good.    *)
LEMMA QuietStep ==
    ASSUME \/ Connect \/ (\E c \in Calls : UserCalls(c) \/ Continuation(c))
           \/ Cancel \/ Close \/ SocketError \/ SocketClose \/ LinkDies
           \/ HeartbeatTick \/ Pong \/ (\E k \in Watchers : OnClosed(k))
           \/ UNCHANGED vars
    PROVE  /\ decoding' = decoding /\ seen' = seen /\ said' = said
           /\ asked' = asked /\ ask' = ask /\ replies' = replies
           /\ closed => closed'
           /\ \/ wire' = wire /\ (Linked' => Linked)
              \/ wire' = <<>> /\ ~Linked'
  <1> USE DEF netVars, shutVars, rpcVars, turnVars, cbVars, beatVars, frameVars,
              userVars, agentVars, callUnchanged, resumeUnchanged,
              sockUnchanged
  <1>1. CASE StartHandshake \/ ConnectDone \/ ConnectRejected \/ ConnectTooNew
    BY <1>1 DEF StartHandshake, ConnectDone, ConnectRejected, ConnectTooNew,
                CloseBody, Teardown, LetGo, Linked
  <1>2. ASSUME NEW c \in Calls, UserCalls(c)
        PROVE  /\ decoding' = decoding /\ seen' = seen /\ said' = said
               /\ asked' = asked /\ ask' = ask /\ replies' = replies
               /\ closed' = closed /\ wire' = wire /\ (Linked' => Linked)
    BY <1>2 DEF UserCalls, NewSession, ListSessions, LoadSession, Prompt,
                PromptWithoutSession, Linked
  <1>3. ASSUME NEW c \in Calls, Continuation(c)
        PROVE  /\ decoding' = decoding /\ seen' = seen /\ said' = said
               /\ asked' = asked /\ ask' = ask /\ replies' = replies
               /\ closed' = closed /\ wire' = wire /\ (Linked' => Linked)
    BY <1>3 DEF Continuation, ResumeNew, ResumeLoad, ResumeList, ResumePrompt,
                ResumeRejected, Linked
  <1>4. CASE Cancel \/ Pong \/ HeartbeatTick \/ (\E k \in Watchers : OnClosed(k))
    BY <1>4 DEF Cancel, Pong, HeartbeatTick, Terminate, LetGo, OnClosed, Linked
  <1>5. CASE Close \/ SocketError \/ SocketClose \/ LinkDies
    BY <1>5 DEF Close, CloseBody, Teardown, LetGo, SocketError, SocketClose,
                LinkDies, Linked
  <1>6. CASE UNCHANGED vars
    BY <1>6 DEF vars, Linked
  <1> QED BY <1>1, <1>2, <1>3, <1>4, <1>5, <1>6 DEF Connect

\* Each frame of s that carries a request carries one nobody has seen.
NewAsks(s) == \A i \in DOMAIN s :
    s[i].kind = "ask" => s[i].id \in 1..asked /\ ask[s[i].id] = "none"

\* No two frames carry the same request.
OwnAsks(s) == \A i, j \in DOMAIN s :
    s[i].kind = "ask" /\ s[j].kind = "ask" /\ s[i].id = s[j].id => i = j

ApartAsks(s, t) == \A i \in DOMAIN s, j \in DOMAIN t :
    s[i].kind = "ask" /\ t[j].kind = "ask" => s[i].id # t[j].id

Replied(a) ==
    /\ a > asked => ask[a] = "none"
    /\ ask[a] \in {"none", "deciding"} => replies[a] = 0
    /\ ask[a] = "over" => replies[a] <= 1
    /\ ask[a] = "over" /\ ~closed => replies[a] = 1

AskInv ==
    /\ NewAsks(wire) /\ NewAsks(decoding)
    /\ OwnAsks(wire) /\ OwnAsks(decoding)
    /\ ApartAsks(wire, decoding)
    /\ \A a \in Asks : Replied(a)

(* Every step keeps the agent's requests apart, each answered once.      *)
LEMMA AskPreserved ==
    ASSUME ConstantsAssumption, IInv, AskInv, [Next]_vars
    PROVE  AskInv'
  <1> USE DEF netVars, shutVars, rpcVars, turnVars, cbVars, beatVars, frameVars,
              userVars, agentVars, callUnchanged, resumeUnchanged,
              dispatchUnchanged, sockUnchanged, agentUnchanged
  <1>0. /\ wire \in Seq(Frames) /\ decoding \in Seq(Frames)
        /\ ask \in [Asks -> {"none", "deciding", "over"}]
        /\ replies \in [Asks -> Nat]
        /\ asked \in 0..MaxAsks /\ MaxAsks \in Nat /\ closed \in BOOLEAN
        /\ \A a \in Asks : a \in Nat
    BY DEF IInv, TypeOK, TypeFrames, TypeUser, TypeSocket, ConstantsAssumption, Asks
  <1>1. ASSUME wire' = wire \/ wire' = <<>>, decoding' = decoding, ask' = ask,
               replies' = replies, asked' = asked, closed => closed'
        PROVE  AskInv'
    <2>1. \A a \in Asks : Replied(a)'
      BY <1>1 DEF AskInv, Replied
    <2>2. NewAsks(wire)' /\ NewAsks(decoding)'
      BY <1>1 DEF AskInv, NewAsks
    <2>3. OwnAsks(wire)' /\ OwnAsks(decoding)' /\ ApartAsks(wire, decoding)'
      BY <1>1 DEF AskInv, OwnAsks, ApartAsks
    <2> QED BY <2>1, <2>2, <2>3 DEF AskInv
  <1>2. ASSUME NEW f \in Frames, f.kind # "ask", wire' = Append(wire, f),
               decoding' = decoding, ask' = ask, replies' = replies,
               asked' = asked, closed' = closed
        PROVE  AskInv'
    <2>1. /\ DOMAIN wire' = DOMAIN wire \cup {Len(wire) + 1}
          /\ \A i \in DOMAIN wire : wire'[i] = wire[i]
          /\ wire'[Len(wire) + 1] = f
      BY <1>0, <1>2, AppendFacts
    <2>2. \A a \in Asks : Replied(a)'
      BY <1>2 DEF AskInv, Replied
    <2>3. NewAsks(wire)' /\ NewAsks(decoding)'
      BY <1>2, <2>1 DEF AskInv, NewAsks
    <2>4. OwnAsks(wire)' /\ OwnAsks(decoding)' /\ ApartAsks(wire, decoding)'
      BY <1>2, <2>1 DEF AskInv, OwnAsks, ApartAsks
    <2> QED BY <2>2, <2>3, <2>4 DEF AskInv
  <1>3. CASE AgentAsks
    <2>1. PICK v \in {"ok", "more"} : wire' = Append(wire, Frame("ask", asked + 1, v))
      BY <1>3 DEF AgentAsks
    <2> DEFINE f == Frame("ask", asked + 1, v)
    <2>2. f \in Frames /\ f.kind = "ask" /\ f.id = asked + 1
      BY <1>0 DEF Frame, Frames, Results
    <2> HIDE DEF f
    <2>3. /\ DOMAIN wire' = DOMAIN wire \cup {Len(wire) + 1}
          /\ \A i \in DOMAIN wire : wire'[i] = wire[i]
          /\ wire'[Len(wire) + 1] = f
      BY <1>0, <2>1, <2>2, AppendFacts DEF f
    <2>4. /\ asked' = asked + 1 /\ asked + 1 \in Asks /\ decoding' = decoding
          /\ ask' = ask /\ replies' = replies /\ closed' = closed
      BY <1>0, <1>3 DEF AgentAsks, Asks
    <2>5. \A a \in Asks : Replied(a)'
      BY <1>0, <2>4 DEF AskInv, Replied
    <2>6. ask[asked + 1] = "none"
      BY <1>0, <2>4 DEF AskInv, Replied
    <2>7. NewAsks(wire)'
      BY <1>0, <2>2, <2>3, <2>4, <2>6 DEF AskInv, NewAsks
    <2>8. NewAsks(decoding)'
      BY <1>0, <2>4 DEF AskInv, NewAsks
    <2>9. OwnAsks(wire)'
      BY <1>0, <2>2, <2>3, <2>4 DEF AskInv, OwnAsks, NewAsks
    <2>10. OwnAsks(decoding)' /\ ApartAsks(wire, decoding)'
      BY <1>0, <2>2, <2>3, <2>4 DEF AskInv, OwnAsks, NewAsks, ApartAsks
    <2> QED BY <2>5, <2>7, <2>8, <2>9, <2>10 DEF AskInv
  <1>4. CASE FrameArrives
    <2>1. /\ wire # <<>> /\ wire' = Tail(wire)
          /\ decoding' = IF closed THEN decoding ELSE Append(decoding, Head(wire))
          /\ ask' = ask /\ replies' = replies /\ asked' = asked /\ closed' = closed
      BY <1>4 DEF FrameArrives
    <2>2. /\ Len(wire) \in Nat \ {0} /\ DOMAIN wire = 1..Len(wire)
          /\ Head(wire) = wire[1] /\ Head(wire) \in Frames
          /\ DOMAIN wire' = 1..(Len(wire) - 1)
          /\ \A i \in 1..(Len(wire) - 1) : wire'[i] = wire[i + 1]
      BY <1>0, <2>1, TailFacts
    <2>3. \A a \in Asks : Replied(a)'
      BY <2>1 DEF AskInv, Replied
    <2>4. NewAsks(wire)' /\ OwnAsks(wire)'
      BY <2>1, <2>2 DEF AskInv, NewAsks, OwnAsks
    <2>5. CASE closed
      BY <2>1, <2>2, <2>3, <2>4, <2>5 DEF AskInv, NewAsks, OwnAsks, ApartAsks
    <2>6. CASE ~closed
      <3>1. /\ DOMAIN decoding' = DOMAIN decoding \cup {Len(decoding) + 1}
            /\ \A i \in DOMAIN decoding : decoding'[i] = decoding[i]
            /\ decoding'[Len(decoding) + 1] = wire[1]
        BY <1>0, <2>1, <2>2, <2>6, AppendFacts
      <3>2. NewAsks(decoding)'
        BY <2>1, <2>2, <3>1 DEF AskInv, NewAsks
      <3>3. OwnAsks(decoding)'
        BY <2>1, <2>2, <3>1 DEF AskInv, OwnAsks, ApartAsks
      <3>4. ApartAsks(wire, decoding)'
        BY <2>1, <2>2, <3>1 DEF AskInv, OwnAsks, ApartAsks
      <3> QED BY <2>3, <2>4, <3>2, <3>3, <3>4 DEF AskInv
    <2> QED BY <2>5, <2>6
  <1>5. ASSUME NEW a \in Asks, closed' = closed, asked' = asked, a <= asked,
               ask[a] # "over",
               \/ Refuse(a)
               \/ ask' = [ask EXCEPT ![a] = "deciding"] /\ replies' = replies
        PROVE  /\ \A b \in Asks : Replied(b)'
               /\ \A b \in Asks \ {a} : ask'[b] = ask[b]
    <2>1. \A b \in Asks \ {a} : ask'[b] = ask[b] /\ replies'[b] = replies[b]
      BY <1>0, <1>5 DEF Refuse, Reply
    <2>2. replies[a] = 0
      BY <1>0, <1>5 DEF AskInv, Replied
    <2>3. CASE Refuse(a)
      BY <1>0, <1>5, <2>1, <2>2, <2>3 DEF AskInv, Replied, Refuse, Reply
    <2>4. CASE ask' = [ask EXCEPT ![a] = "deciding"] /\ replies' = replies
      BY <1>0, <1>5, <2>1, <2>2, <2>4 DEF AskInv, Replied
    <2> QED BY <1>5, <2>1, <2>3, <2>4
  <1>6. ASSUME NEW k \in DOMAIN decoding, Dispatch(k)
        PROVE  AskInv'
    <2> DEFINE n == Len(decoding)
    <2>1. /\ decoding' = RemoveAt(decoding, k) /\ wire' = wire
          /\ asked' = asked /\ closed' = closed
      BY <1>6 DEF Dispatch
    <2>2. /\ n \in Nat /\ DOMAIN decoding = 1..n /\ k \in 1..n
          /\ decoding[k] \in Frames
          /\ DOMAIN decoding' = 1..(n - 1)
          /\ \A i \in 1..(n - 1) :
                decoding'[i] = IF i < k THEN decoding[i] ELSE decoding[i + 1]
      BY <1>0, <2>1, RemoveAtFacts
    <2> HIDE DEF n
    <2> DEFINE at(i) == IF i < k THEN i ELSE i + 1
    <2>20. /\ \A i \in DOMAIN decoding' : /\ at(i) \in DOMAIN decoding \ {k}
                                         /\ decoding'[i] = decoding[at(i)]
           /\ \A i, j \in DOMAIN decoding' : at(i) = at(j) => i = j
      BY <2>2
    <2> HIDE DEF at
    <2>3. OwnAsks(wire)' /\ OwnAsks(decoding)' /\ ApartAsks(wire, decoding)'
      <3>1. OwnAsks(wire)'
        BY <2>1 DEF AskInv, OwnAsks
      <3>2. OwnAsks(decoding)'
        <4> SUFFICES ASSUME NEW i \in DOMAIN decoding', NEW j \in DOMAIN decoding',
                            decoding'[i].kind = "ask", decoding'[j].kind = "ask",
                            decoding'[i].id = decoding'[j].id
                     PROVE  i = j
          BY DEF OwnAsks
        <4>1. at(i) = at(j)
          BY <2>20 DEF AskInv, OwnAsks
        <4> QED BY <2>20, <4>1
      <3>3. ApartAsks(wire, decoding)'
        BY <2>1, <2>20 DEF AskInv, ApartAsks
      <3> QED BY <3>1, <3>2, <3>3
    <2>4. CASE ask' = ask /\ replies' = replies
      <3>1. \A a \in Asks : Replied(a)'
        BY <2>1, <2>4 DEF AskInv, Replied
      <3>2. NewAsks(wire)' /\ NewAsks(decoding)'
        BY <2>1, <2>2, <2>4 DEF AskInv, NewAsks
      <3> QED BY <2>3, <3>1, <3>2 DEF AskInv
    <2>5. CASE HandleServerRequest(decoding[k])
      <3> DEFINE a == decoding[k].id
      <3>1. /\ decoding[k].kind = "ask" /\ a \in 1..asked /\ ask[a] = "none"
            /\ a \in Asks /\ a <= asked
        BY <1>0, <2>2, <2>5 DEF HandleServerRequest, AskInv, NewAsks, Asks
      <3>2. \/ Refuse(a)
            \/ ask' = [ask EXCEPT ![a] = "deciding"] /\ replies' = replies
        BY <2>5 DEF HandleServerRequest
      <3> HIDE DEF a
      <3>3. /\ \A b \in Asks : Replied(b)'
            /\ \A b \in Asks \ {a} : ask'[b] = ask[b]
        BY <2>1, <3>1, <3>2, <1>5
      <3>30. 1..asked \subseteq Asks
        BY <1>0 DEF Asks
      <3>4. NewAsks(wire)'
        <4> SUFFICES ASSUME NEW i \in DOMAIN wire, wire[i].kind = "ask"
                     PROVE  wire[i].id \in 1..asked /\ ask'[wire[i].id] = "none"
          BY <2>1 DEF NewAsks
        <4>1. wire[i].id # a
          BY <2>2, <3>1 DEF AskInv, ApartAsks, a
        <4>2. wire[i].id \in 1..asked /\ ask[wire[i].id] = "none"
          BY DEF AskInv, NewAsks
        <4> QED BY <3>3, <3>30, <4>1, <4>2
      <3>5. NewAsks(decoding)'
        <4> SUFFICES ASSUME NEW i \in DOMAIN decoding', decoding'[i].kind = "ask"
                     PROVE  decoding'[i].id \in 1..asked /\ ask'[decoding'[i].id] = "none"
          BY <2>1 DEF NewAsks
        <4>1. decoding'[i].id # a
          BY <2>20, <3>1 DEF AskInv, OwnAsks, a
        <4>2. decoding'[i].id \in 1..asked /\ ask[decoding'[i].id] = "none"
          BY <2>20 DEF AskInv, NewAsks
        <4> QED BY <3>3, <3>30, <4>1, <4>2
      <3> QED BY <2>3, <3>3, <3>4, <3>5 DEF AskInv
    <2> QED BY <1>6, <2>4, <2>5 DEF Dispatch, Settle, HandleNotification
  <1>7. ASSUME NEW a \in Asks, HandlerAnswers(a)
        PROVE  AskInv'
    <2>1. /\ ask[a] = "deciding" /\ Refuse(a) /\ wire' = wire
          /\ decoding' = decoding /\ asked' = asked /\ closed' = closed
      BY <1>7 DEF HandlerAnswers, Refuse
    <2>2. a <= asked
      BY <1>0, <2>1 DEF AskInv, Replied
    <2>3. /\ \A b \in Asks : Replied(b)'
          /\ \A b \in Asks \ {a} : ask'[b] = ask[b]
      BY <2>1, <2>2, <1>5
    <2>4. NewAsks(wire)' /\ NewAsks(decoding)'
      BY <1>0, <2>1, <2>3 DEF AskInv, NewAsks, Asks
    <2>5. OwnAsks(wire)' /\ OwnAsks(decoding)' /\ ApartAsks(wire, decoding)'
      BY <2>1 DEF AskInv, OwnAsks, ApartAsks
    <2> QED BY <2>3, <2>4, <2>5 DEF AskInv
  <1>8. CASE \/ (\E r \in owed : AgentAnswers(r))
             \/ (\E i \in answered : AgentRepeats(i))
             \/ AgentUpdates
    <2>1. /\ decoding' = decoding /\ ask' = ask /\ replies' = replies
          /\ asked' = asked /\ closed' = closed
      BY <1>8 DEF AgentAnswers, AgentRepeats, AgentUpdates
    <2>2. \E f \in Frames : f.kind # "ask" /\ wire' = Append(wire, f)
      <3>1. CASE \E r \in owed : AgentAnswers(r)
        BY <3>1, FramesSent
      <3>2. CASE \E i \in answered : AgentRepeats(i)
        BY <3>2, FramesSent
      <3>3. CASE AgentUpdates
        BY <3>3, FramesSent
      <3> QED BY <1>8, <3>1, <3>2, <3>3
    <2> QED BY <2>1, <2>2, <1>2
  <1>9. CASE \/ Connect \/ (\E c \in Calls : UserCalls(c) \/ Continuation(c))
             \/ Cancel \/ Close \/ SocketError \/ SocketClose \/ LinkDies
             \/ HeartbeatTick \/ Pong \/ (\E k \in Watchers : OnClosed(k))
             \/ UNCHANGED vars
    BY <1>9, <1>1, QuietStep
  <1> QED BY <1>3, <1>4, <1>6, <1>7, <1>8, <1>9 DEF Next

(* Each request of the agent is answered once; none is forgotten while the *)
(* session is open.                                                        *)
THEOREM RepliesCorrect == Spec => []OneReply
  <1>1. Init => AskInv
    BY DEF Init, AskInv, NewAsks, OwnAsks, ApartAsks, Replied
  <1>2. IInv /\ AskInv /\ [Next]_vars => AskInv'
    BY ConstantsAssumption, AskPreserved
  <1>3. IInv /\ AskInv => OneReply
    BY DEF IInv, TypeOK, TypeUser, AskInv, Replied, OneReply
  <1> QED BY <1>1, <1>2, <1>3, InductiveInvariant, PTL DEF Spec

-----------------------------------------------------------------------------
(* The updates, in the order the agent sent them.                          *)

Carries(s, i, n) == s[i].kind = "update" /\ s[i].id = n

Holds(s, n) == \E i \in DOMAIN s : Carries(s, i, n)

Ascending(s) == \A i, j \in DOMAIN s :
    i < j /\ s[i].kind = "update" /\ s[j].kind = "update" => s[i].id < s[j].id

\* The updates in s are not yet handed over.
Unseen(s) == \A i \in DOMAIN s :
    s[i].kind = "update" => Len(seen) < s[i].id /\ s[i].id <= said

\* What is being decoded follows what was handed over, without a gap, and
\* what is on the wire follows that; as long as the socket lasts, nothing
\* that was sent is missing.
UpdateInv ==
    /\ Len(seen) <= said /\ \A j \in DOMAIN seen : seen[j] = j
    /\ Ascending(wire) /\ Ascending(decoding)
    /\ Unseen(wire) /\ Unseen(decoding)
    /\ \A i \in DOMAIN decoding, j \in DOMAIN wire :
          decoding[i].kind = "update" /\ wire[j].kind = "update" =>
             decoding[i].id < wire[j].id
    /\ \A i \in DOMAIN decoding, n \in Nat :
          decoding[i].kind = "update" /\ Len(seen) < n /\ n < decoding[i].id =>
             Holds(decoding, n)
    /\ \A i \in DOMAIN wire, n \in Nat :
          ~closed /\ wire[i].kind = "update" /\ Len(seen) < n /\ n < wire[i].id =>
             Holds(decoding, n) \/ Holds(wire, n)
    /\ \A n \in Nat :
          Linked /\ Len(seen) < n /\ n <= said => Holds(decoding, n) \/ Holds(wire, n)

\* A frame added to a queue.
LEMMA SendHolds ==
    ASSUME NEW s \in Seq(Frames), NEW f \in Frames
    PROVE  \A n \in Nat : Holds(Append(s, f), n) <=>
                             Holds(s, n) \/ (f.kind = "update" /\ f.id = n)
  <1>1. /\ DOMAIN Append(s, f) = DOMAIN s \cup {Len(s) + 1}
        /\ \A i \in DOMAIN s : Append(s, f)[i] = s[i]
        /\ Append(s, f)[Len(s) + 1] = f
    BY AppendFacts
  <1> QED BY <1>1 DEF Holds, Carries

\* A queue that lost its head.
LEMMA TailAscends ==
    ASSUME NEW s, NEW t, NEW n \in Nat, DOMAIN s = 1..n, DOMAIN t = 1..(n - 1),
           \A i \in 1..(n - 1) : t[i] = s[i + 1], Ascending(s)
    PROVE  Ascending(t)
  <1> SUFFICES ASSUME NEW i \in 1..(n - 1), NEW j \in 1..(n - 1), i < j,
                      t[i].kind = "update", t[j].kind = "update"
               PROVE  t[i].id < t[j].id
    BY DEF Ascending
  <1>1. i + 1 \in DOMAIN s /\ j + 1 \in DOMAIN s /\ i + 1 < j + 1
    OBVIOUS
  <1>2. t[i] = s[i + 1] /\ t[j] = s[j + 1]
    OBVIOUS
  <1> QED BY <1>1, <1>2 DEF Ascending

(* Every step keeps the updates in order, if frames are decoded in theirs.*)
LEMMA UpdatePreserved ==
    ASSUME ConstantsAssumption, ~Blobs, IInv, UpdateInv, [Next]_vars
    PROVE  UpdateInv'
  <1> USE DEF netVars, shutVars, rpcVars, turnVars, cbVars, beatVars, frameVars,
              userVars, agentVars, callUnchanged, resumeUnchanged,
              dispatchUnchanged, sockUnchanged, agentUnchanged
  <1>0. /\ wire \in Seq(Frames) /\ decoding \in Seq(Frames)
        /\ seen \in Seq(Nat) /\ said \in Nat /\ Len(seen) \in Nat
        /\ DOMAIN seen = 1..Len(seen) /\ closed \in BOOLEAN
        /\ Len(wire) \in Nat /\ DOMAIN wire = 1..Len(wire)
        /\ Len(decoding) \in Nat /\ DOMAIN decoding = 1..Len(decoding)
        /\ \A i \in DOMAIN wire : wire[i].id \in Nat
        /\ \A i \in DOMAIN decoding : decoding[i].id \in Nat
        /\ closed => ~Linked
    <2>1. /\ wire \in Seq(Frames) /\ decoding \in Seq(Frames)
          /\ seen \in Seq(Nat) /\ said \in Nat /\ closed \in BOOLEAN
      BY DEF IInv, TypeOK, TypeFrames, TypeUser, TypeSocket, ConstantsAssumption
    <2>2. closed => ~Linked
      BY DEF IInv, ClosedSocket, Linked
    <2>3. \A i \in DOMAIN wire : wire[i] \in Frames
      BY <2>1
    <2>4. \A i \in DOMAIN decoding : decoding[i] \in Frames
      BY <2>1
    <2> QED BY <2>1, <2>2, <2>3, <2>4 DEF Frames
  <1>1. ASSUME decoding' = decoding, seen' = seen, said' = said,
               closed => closed',
               \/ wire' = wire /\ (Linked' => Linked)
               \/ wire' = <<>> /\ ~Linked'
        PROVE  UpdateInv'
    <2>1. CASE wire' = wire /\ (Linked' => Linked)
      BY <1>1, <2>1 DEF UpdateInv, Ascending, Unseen, Holds, Carries
    <2>2. CASE wire' = <<>> /\ ~Linked'
      BY <1>1, <2>2 DEF UpdateInv, Ascending, Unseen, Holds, Carries
    <2> QED BY <1>1, <2>1, <2>2
  <1>2. ASSUME NEW f \in Frames, wire' = Append(wire, f),
               decoding' = decoding, seen' = seen, closed' = closed,
               sock' = sock, link' = link,
               \/ f.kind # "update" /\ said' = said
               \/ f.kind = "update" /\ f.id = said + 1 /\ said' = said + 1 /\ Linked
        PROVE  UpdateInv'
    <2>1. /\ DOMAIN wire' = DOMAIN wire \cup {Len(wire) + 1}
          /\ \A i \in DOMAIN wire : wire'[i] = wire[i]
          /\ wire'[Len(wire) + 1] = f
      BY <1>0, <1>2, AppendFacts
    <2>2. \A n \in Nat : /\ Holds(decoding, n)' <=> Holds(decoding, n)
                         /\ Holds(wire, n)' <=>
                               Holds(wire, n) \/ (f.kind = "update" /\ f.id = n)
      BY <1>0, <1>2, <2>1 DEF Holds, Carries
    <2>3. Linked' <=> Linked
      BY <1>2 DEF Linked
    <2>4. Len(seen') <= said' /\ \A j \in DOMAIN seen' : seen'[j] = j
      BY <1>0, <1>2 DEF UpdateInv
    <2>5. Ascending(wire)'
      BY <1>0, <1>2, <2>1 DEF UpdateInv, Ascending, Unseen
    <2>6. Ascending(decoding)'
      BY <1>2 DEF UpdateInv, Ascending
    <2>7. Unseen(decoding)'
      BY <1>0, <1>2 DEF UpdateInv, Unseen
    <2>8. Unseen(wire)'
      BY <1>0, <1>2, <2>1 DEF UpdateInv, Unseen
    <2>9. \A i \in DOMAIN decoding', j \in DOMAIN wire' :
             decoding'[i].kind = "update" /\ wire'[j].kind = "update" =>
                decoding'[i].id < wire'[j].id
      BY <1>0, <1>2, <2>1 DEF UpdateInv, Unseen
    <2>10. \A i \in DOMAIN decoding', n \in Nat :
              decoding'[i].kind = "update" /\ Len(seen') < n /\ n < decoding'[i].id =>
                 Holds(decoding, n)'
      BY <1>2, <2>2 DEF UpdateInv
    <2>11. \A i \in DOMAIN wire', n \in Nat :
              ~closed' /\ wire'[i].kind = "update" /\ Len(seen') < n /\ n < wire'[i].id =>
                 Holds(decoding, n)' \/ Holds(wire, n)'
      BY <1>0, <1>2, <2>1, <2>2 DEF UpdateInv
    <2>12. \A n \in Nat :
              Linked' /\ Len(seen') < n /\ n <= said' =>
                 Holds(decoding, n)' \/ Holds(wire, n)'
      BY <1>0, <1>2, <2>2, <2>3 DEF UpdateInv
    <2> QED BY <2>4, <2>5, <2>6, <2>7, <2>8, <2>9, <2>10, <2>11, <2>12 DEF UpdateInv
  <1>3. CASE FrameArrives
    <2>1. /\ wire # <<>> /\ wire' = Tail(wire)
          /\ decoding' = IF closed THEN decoding ELSE Append(decoding, Head(wire))
          /\ seen' = seen /\ said' = said /\ closed' = closed
          /\ sock' = sock /\ link' = link
      BY <1>3 DEF FrameArrives
    <2>2. /\ Len(wire) \in Nat \ {0} /\ 1 \in DOMAIN wire
          /\ Head(wire) = wire[1] /\ Head(wire) \in Frames
          /\ DOMAIN wire' = 1..(Len(wire) - 1)
          /\ \A i \in 1..(Len(wire) - 1) :
                wire'[i] = wire[i + 1] /\ i + 1 \in DOMAIN wire
      BY <1>0, <2>1, TailFacts
    <2>3. \A i \in DOMAIN wire : i # 1 => i - 1 \in DOMAIN wire' /\ wire'[i - 1] = wire[i]
      BY <1>0, <2>2
    <2>4. (Linked' <=> Linked) /\ Len(seen') <= said'
          /\ \A j \in DOMAIN seen' : seen'[j] = j
      BY <2>1 DEF Linked, UpdateInv
    <2>5. Ascending(wire)' /\ Unseen(wire)'
      <3>1. Ascending(wire')
        <4>1. Ascending(wire)
          BY DEF UpdateInv
        <4> QED BY <1>0, <2>2, <4>1, TailAscends
      <3>2. Unseen(wire)'
        BY <2>1, <2>2 DEF UpdateInv, Unseen
      <3> QED BY <3>1, <3>2 DEF Ascending
    <2>6. CASE closed
      <3>1. decoding' = decoding /\ ~Linked' /\ closed'
        BY <1>0, <2>1, <2>4, <2>6
      <3>2. Ascending(decoding)' /\ Unseen(decoding)'
        BY <2>1, <3>1 DEF UpdateInv, Ascending, Unseen
      <3>3. \A i \in DOMAIN decoding', j \in DOMAIN wire' :
               decoding'[i].kind = "update" /\ wire'[j].kind = "update" =>
                  decoding'[i].id < wire'[j].id
        BY <2>2, <3>1 DEF UpdateInv
      <3>4. \A i \in DOMAIN decoding', n \in Nat :
               decoding'[i].kind = "update" /\ Len(seen') < n /\ n < decoding'[i].id =>
                  Holds(decoding, n)'
        BY <2>1, <3>1 DEF UpdateInv, Holds, Carries
      <3> QED BY <2>4, <2>5, <3>1, <3>2, <3>3, <3>4 DEF UpdateInv
    <2>7. CASE ~closed
      <3>1. /\ DOMAIN decoding' = DOMAIN decoding \cup {Len(decoding) + 1}
            /\ \A i \in DOMAIN decoding : decoding'[i] = decoding[i]
            /\ decoding'[Len(decoding) + 1] = wire[1]
        BY <1>0, <2>1, <2>2, <2>7, AppendFacts
      <3>2. \A n \in Nat : Holds(decoding, n)' <=> Holds(decoding, n) \/ Carries(wire, 1, n)
        BY <1>0, <3>1 DEF Holds, Carries
      <3>3. \A n \in Nat : Holds(wire, n) => Holds(wire, n)' \/ Carries(wire, 1, n)
        BY <2>3 DEF Holds, Carries
      <3>4. Ascending(decoding)'
        BY <1>0, <2>2, <3>1 DEF UpdateInv, Ascending
      <3>5. Unseen(decoding)'
        BY <2>1, <2>2, <3>1 DEF UpdateInv, Unseen
      <3>6. \A i \in DOMAIN decoding', j \in DOMAIN wire' :
               decoding'[i].kind = "update" /\ wire'[j].kind = "update" =>
                  decoding'[i].id < wire'[j].id
        <4>1. Ascending(wire)
          BY DEF UpdateInv
        <4>2. \A j \in DOMAIN wire' :
                 wire[1].kind = "update" /\ wire'[j].kind = "update" =>
                    wire[1].id < wire'[j].id
          <5> SUFFICES ASSUME NEW j \in 1..(Len(wire) - 1),
                              wire[1].kind = "update", wire'[j].kind = "update"
                       PROVE  wire[1].id < wire'[j].id
            BY <2>2
          <5>1. j + 1 \in DOMAIN wire /\ wire'[j] = wire[j + 1] /\ 1 < j + 1
            BY <2>2
          <5> QED BY <2>2, <4>1, <5>1 DEF Ascending
        <4>3. \A i \in DOMAIN decoding, j \in DOMAIN wire' :
                 decoding[i].kind = "update" /\ wire'[j].kind = "update" =>
                    decoding[i].id < wire'[j].id
          BY <2>2 DEF UpdateInv
        <4> QED BY <3>1, <4>2, <4>3
      <3>7. ASSUME NEW i \in DOMAIN decoding', NEW n \in Nat,
                   decoding'[i].kind = "update", Len(seen') < n, n < decoding'[i].id
            PROVE  Holds(decoding, n)'
        <4>1. CASE i \in DOMAIN decoding
          BY <2>1, <3>1, <3>2, <3>7, <4>1 DEF UpdateInv
        <4>2. CASE i = Len(decoding) + 1
          <5>1. Holds(decoding, n) \/ Holds(wire, n)
            BY <2>1, <2>2, <2>7, <3>1, <3>7, <4>2 DEF UpdateInv
          <5>2. ~Holds(wire, n)
            <6> SUFFICES ASSUME NEW j \in DOMAIN wire, Carries(wire, j, n)
                         PROVE  FALSE
              BY DEF Holds
            <6>1. j = 1 \/ 1 < j
              BY <1>0
            <6> QED BY <1>0, <2>2, <3>1, <3>7, <4>2, <6>1 DEF UpdateInv, Ascending, Carries
          <5> QED BY <3>2, <5>1, <5>2
        <4> QED BY <3>1, <4>1, <4>2
      <3>8. \A i \in DOMAIN wire', n \in Nat :
               ~closed' /\ wire'[i].kind = "update" /\ Len(seen') < n /\ n < wire'[i].id =>
                  Holds(decoding, n)' \/ Holds(wire, n)'
        BY <2>1, <2>2, <3>2, <3>3 DEF UpdateInv
      <3>9. \A n \in Nat :
               Linked' /\ Len(seen') < n /\ n <= said' =>
                  Holds(decoding, n)' \/ Holds(wire, n)'
        BY <2>1, <2>4, <3>2, <3>3 DEF UpdateInv
      <3> QED BY <2>4, <2>5, <3>4, <3>5, <3>6, <3>7, <3>8, <3>9 DEF UpdateInv
    <2> QED BY <2>6, <2>7
  <1>4. ASSUME NEW k \in DOMAIN decoding, Dispatch(k)
        PROVE  UpdateInv'
    <2>1. /\ k = 1 /\ decoding' = RemoveAt(decoding, 1) /\ wire' = wire
          /\ said' = said /\ closed' = closed /\ sock' = sock /\ link' = link
      BY <1>4 DEF Dispatch, Decoded
    <2>2. /\ 1 \in DOMAIN decoding
          /\ DOMAIN decoding' = 1..(Len(decoding) - 1)
          /\ \A i \in 1..(Len(decoding) - 1) :
                decoding'[i] = decoding[i + 1] /\ i + 1 \in DOMAIN decoding
      <3>1. /\ 1 \in DOMAIN decoding
            /\ RemoveAt(decoding, 1) \in Seq(Frames)
            /\ Len(RemoveAt(decoding, 1)) = Len(decoding) - 1
            /\ \A i \in 1..(Len(decoding) - 1) :
                  RemoveAt(decoding, 1)[i] = IF i < 1 THEN decoding[i] ELSE decoding[i + 1]
        <4>1. 1 \in DOMAIN decoding /\ decoding \in Seq(Frames)
          BY <1>0, <2>1
        <4> QED BY <4>1, RemoveAtFacts
      <3>2. DOMAIN RemoveAt(decoding, 1) = 1..(Len(decoding) - 1)
        BY <3>1
      <3> QED BY <1>0, <2>1, <3>1, <3>2
    <2>3. \A i \in DOMAIN decoding : i # 1 =>
             i - 1 \in DOMAIN decoding' /\ decoding'[i - 1] = decoding[i]
      BY <1>0, <2>2
    <2>4. /\ (Linked' <=> Linked)
          /\ \A n \in Nat : Holds(wire, n)' <=> Holds(wire, n)
      BY <2>1 DEF Linked, Holds, Carries
    <2>5. \A n \in Nat : Holds(decoding, n) => Holds(decoding, n)' \/ Carries(decoding, 1, n)
      BY <2>3 DEF Holds, Carries
    <2>6. /\ Len(seen') \in Nat /\ Len(seen) <= Len(seen') /\ Len(seen') <= said
          /\ \A j \in DOMAIN seen' : seen'[j] = j
          /\ \A n \in Nat : Carries(decoding, 1, n) => n <= Len(seen')
          /\ \A i \in DOMAIN decoding' :
                decoding'[i].kind = "update" => Len(seen') < decoding'[i].id
          /\ \A i \in DOMAIN wire :
                wire[i].kind = "update" => Len(seen') < wire[i].id
      <3>1. CASE decoding[1].kind # "update"
        <4>1. seen' = seen
          BY <1>4, <2>1, <3>1 DEF Dispatch, Settle, HandleNotification, HandleServerRequest
        <4>2. Len(seen) <= said /\ \A j \in DOMAIN seen : seen[j] = j
          BY DEF UpdateInv
        <4>3. \A n \in Nat : ~Carries(decoding, 1, n)
          BY <3>1 DEF Carries
        <4>4. \A i \in DOMAIN decoding' :
                 decoding'[i].kind = "update" => Len(seen) < decoding'[i].id
          BY <2>2 DEF UpdateInv, Unseen
        <4>5. \A i \in DOMAIN wire : wire[i].kind = "update" => Len(seen) < wire[i].id
          BY DEF UpdateInv, Unseen
        <4> QED BY <1>0, <4>1, <4>2, <4>3, <4>4, <4>5
      <3>2. CASE decoding[1].kind = "update"
        <4> DEFINE n == Len(seen) + 1
        <4>1. seen' = Append(seen, decoding[1].id)
          BY <1>4, <2>1, <3>2 DEF Dispatch, Settle, HandleNotification, HandleServerRequest
        <4>2. decoding[1].id = n
          <5>1. Len(seen) < decoding[1].id
            BY <2>2, <3>2 DEF UpdateInv, Unseen
          <5>2. CASE n < decoding[1].id
            <6>1. PICK j \in DOMAIN decoding : Carries(decoding, j, n)
              <7>1. n \in Nat /\ Len(seen) < n
                BY <1>0
              <7> HIDE DEF n
              <7>2. Holds(decoding, n)
                BY <2>2, <3>2, <5>2, <7>1 DEF UpdateInv
              <7> QED BY <7>2 DEF Holds
            <6>2. 1 < j
              BY <1>0, <5>2, <6>1 DEF Carries
            <6>3. decoding[1].id < n
              BY <2>2, <3>2, <6>1, <6>2 DEF UpdateInv, Ascending, Carries
            <6> QED BY <1>0, <2>2, <5>2, <6>3
          <5> QED BY <1>0, <2>2, <5>1, <5>2
        <4>3. /\ Len(seen') = n /\ DOMAIN seen' = DOMAIN seen \cup {n}
              /\ \A j \in DOMAIN seen : seen'[j] = seen[j]
              /\ seen'[n] = n
          BY <1>0, <4>1, <4>2, AppendFacts
        <4>4. \A j \in DOMAIN seen' : seen'[j] = j
          BY <4>3 DEF UpdateInv
        <4>5. n <= said
          BY <2>2, <3>2, <4>2 DEF UpdateInv, Unseen
        <4>6. \A i \in DOMAIN decoding' :
                 decoding'[i].kind = "update" => n < decoding'[i].id
          <5> SUFFICES ASSUME NEW i \in 1..(Len(decoding) - 1),
                              decoding'[i].kind = "update"
                       PROVE  n < decoding'[i].id
            BY <2>2
          <5>1. /\ i + 1 \in DOMAIN decoding /\ decoding'[i] = decoding[i + 1]
                /\ 1 < i + 1
            BY <2>2
          <5>2. Ascending(decoding)
            BY DEF UpdateInv
          <5> QED BY <2>2, <3>2, <4>2, <5>1, <5>2 DEF Ascending
        <4>7. \A i \in DOMAIN wire : wire[i].kind = "update" => n < wire[i].id
          BY <2>2, <3>2, <4>2 DEF UpdateInv
        <4>8. \A m \in Nat : Carries(decoding, 1, m) => m <= n
          BY <1>0, <4>2 DEF Carries
        <4> QED BY <1>0, <4>3, <4>4, <4>5, <4>6, <4>7, <4>8
      <3> QED BY <3>1, <3>2
    <2>7. Ascending(wire)' /\ Unseen(wire)'
      BY <2>1, <2>6 DEF UpdateInv, Ascending, Unseen
    <2>8. Ascending(decoding)'
      <3>1. Ascending(decoding)
        BY DEF UpdateInv
      <3>2. Ascending(decoding')
        BY <1>0, <2>2, <3>1, TailAscends
      <3> QED BY <3>2 DEF Ascending
    <2>9. Unseen(decoding)'
      BY <2>1, <2>2, <2>6 DEF UpdateInv, Unseen
    <2>10. \A i \in DOMAIN decoding', j \in DOMAIN wire' :
              decoding'[i].kind = "update" /\ wire'[j].kind = "update" =>
                 decoding'[i].id < wire'[j].id
      BY <2>1, <2>2 DEF UpdateInv
    <2>11. ASSUME NEW n \in Nat, Len(seen') < n
           PROVE  /\ Len(seen) < n
                  /\ Holds(decoding, n) => Holds(decoding, n)'
                  /\ Holds(wire, n) => Holds(wire, n)'
      <3>1. ~Carries(decoding, 1, n)
        BY <2>6, <2>11
      <3>2. Len(seen) < n
        BY <1>0, <2>6, <2>11
      <3>3. Holds(decoding, n) => Holds(decoding, n)'
        BY <2>5, <3>1
      <3>4. Holds(wire, n) => Holds(wire, n)'
        BY <2>4
      <3> QED BY <3>2, <3>3, <3>4
    <2>12. \A i \in DOMAIN decoding', n \in Nat :
              decoding'[i].kind = "update" /\ Len(seen') < n /\ n < decoding'[i].id =>
                 Holds(decoding, n)'
      BY <2>2, <2>11 DEF UpdateInv
    <2>13. \A i \in DOMAIN wire', n \in Nat :
              ~closed' /\ wire'[i].kind = "update" /\ Len(seen') < n /\ n < wire'[i].id =>
                 Holds(decoding, n)' \/ Holds(wire, n)'
      BY <2>1, <2>11 DEF UpdateInv
    <2>14. \A n \in Nat :
              Linked' /\ Len(seen') < n /\ n <= said' =>
                 Holds(decoding, n)' \/ Holds(wire, n)'
      BY <2>1, <2>4, <2>11 DEF UpdateInv
    <2> QED BY <2>1, <2>6, <2>7, <2>8, <2>9, <2>10, <2>12, <2>13, <2>14 DEF UpdateInv
  <1>5. CASE \/ (\E r \in owed : AgentAnswers(r))
             \/ (\E i \in answered : AgentRepeats(i))
             \/ AgentAsks
    <2>1. /\ decoding' = decoding /\ seen' = seen /\ said' = said
          /\ closed' = closed /\ sock' = sock /\ link' = link
      BY <1>5 DEF AgentAnswers, AgentRepeats, AgentAsks
    <2>2. \E f \in Frames : f.kind # "update" /\ wire' = Append(wire, f)
      <3>1. CASE AgentAsks
        <4>1. asked + 1 \in Nat
          BY DEF IInv, TypeOK, TypeUser, ConstantsAssumption
        <4> QED BY <3>1, <4>1 DEF AgentAsks, Frame, Frames, Results
      <3> QED BY <1>5, <3>1, FramesSent
    <2> QED BY <2>1, <2>2, <1>2
  <1>6. CASE AgentUpdates
    <2>1. /\ decoding' = decoding /\ seen' = seen /\ said' = said + 1
          /\ closed' = closed /\ sock' = sock /\ link' = link /\ Linked
      BY <1>6 DEF AgentUpdates, Reachable, Linked
    <2>2. PICK f \in Frames : /\ f.kind = "update" /\ f.id = said + 1
                             /\ wire' = Append(wire, f)
      BY <1>6, FramesSent
    <2> QED BY <2>1, <2>2, <1>2
  <1>7. ASSUME NEW a \in Asks, HandlerAnswers(a)
        PROVE  UpdateInv'
    <2>1. /\ decoding' = decoding /\ seen' = seen /\ said' = said
          /\ wire' = wire /\ closed' = closed /\ sock' = sock /\ link' = link
      BY <1>7 DEF HandlerAnswers
    <2> QED BY <2>1, <1>1 DEF Linked
  <1>8. CASE \/ Connect \/ (\E c \in Calls : UserCalls(c) \/ Continuation(c))
             \/ Cancel \/ Close \/ SocketError \/ SocketClose \/ LinkDies
             \/ HeartbeatTick \/ Pong \/ (\E k \in Watchers : OnClosed(k))
             \/ UNCHANGED vars
    BY <1>8, <1>1, QuietStep
  <1> QED BY <1>3, <1>4, <1>5, <1>6, <1>7, <1>8 DEF Next

(* Text frames are handed over in the order they were sent, none skipped.  *)
THEOREM OrderCorrect == Spec => []UpdatesInOrder
  <1>1. CASE ~Blobs
    <2>1. Init => UpdateInv
      BY ConstantsAssumption DEF Init, UpdateInv, Ascending, Unseen
    <2>2. IInv /\ UpdateInv /\ [Next]_vars => UpdateInv'
      BY <1>1, ConstantsAssumption, UpdatePreserved
    <2>3. UpdateInv => UpdatesInOrder
      BY DEF UpdateInv, UpdatesInOrder
    <2> QED BY <2>1, <2>2, <2>3, InductiveInvariant, PTL DEF Spec
  <1>2. CASE Blobs
    <2>1. UpdatesInOrder
      BY <1>2 DEF UpdatesInOrder
    <2> QED BY <2>1, PTL
  <1> QED BY <1>1, <1>2

-----------------------------------------------------------------------------
(* No call is forgotten.                                                   *)

\* Something is bound to settle request i: the agent has it, an answer is on
\* its way, the socket is about to close, or its network is dead.
Underway(i) ==
    \/ \E r \in owed : r.id = i
    \/ \E f \in Answers : f.id = i
    \/ sock = "closing"
    \/ link = "dead"

\* What is owed or on the wire can move, a closed socket has been torn down,
\* and an open one that can has its heartbeat.
Plumbing ==
    /\ owed # {} => Reachable
    /\ wire # <<>> => link = "up" /\ sock \in {"open", "closing"}
    /\ conn = "opening" <=> sock = "connecting"
    /\ sock = "connecting" => link = "up" /\ ~timer
    /\ sock = "open" => timer = NodeSocket
    /\ sock = "closed" => closed
    /\ link = "dead" => ~pinged

\* Nobody calls a session that connect() has not returned.
Uncalled == conn = "opening" => \A c \in Calls : ~Waiting(c)

NoneForgotten == \A i \in pending : Underway(i)

(* Every step keeps what carries requests and answers in order.            *)
LEMMA PlumbingPreserved ==
    ASSUME ConstantsAssumption, IInv, Plumbing, [Next]_vars
    PROVE  Plumbing'
  <1> USE DEF netVars, shutVars, turnVars, cbVars, beatVars, frameVars,
              userVars, agentVars, callUnchanged, resumeUnchanged,
              dispatchUnchanged, sockUnchanged, agentUnchanged
  <1>0. /\ sock \in {"connecting", "open", "closing", "closed"} /\ link \in {"up", "dead"}
        /\ timer \in BOOLEAN /\ NodeSocket \in BOOLEAN /\ pinged \in BOOLEAN
        /\ closed \in BOOLEAN /\ (closed => ~timer) /\ ClosedSocket
        /\ wire \in Seq(Frames)
    BY DEF IInv, TypeOK, TypeSocket, TypeFrames, ConstantsAssumption, ClosedHoldsNothing
  <1>1. ASSUME UNCHANGED <<sock, link, conn, closed, timer>>,
               owed' \subseteq owed, wire # <<>> \/ wire' = wire \/ Reachable,
               pinged' = pinged \/ Reachable
        PROVE  Plumbing'
    BY <1>0, <1>1 DEF Plumbing, Reachable
  <1>2. ASSUME NEW op, NEW s, Issue(op, s, sock = "open"),
               UNCHANGED <<sock, link, conn, closed, timer, wire, pinged>>
        PROVE  Plumbing'
    <2>1. owed' # {} => Reachable
      BY <1>2 DEF Issue, Plumbing, Reachable
    <2> QED BY <1>0, <1>2, <2>1 DEF Plumbing, Reachable
  <1>3. ASSUME NEW c \in Calls, NEW op, NEW s, NEW page, Request(c, op, s, page),
               UNCHANGED <<sock, link, conn, closed, timer, wire, pinged>>
        PROVE  Plumbing'
    <2>1. CASE owed' = owed
      BY <1>1, <1>3, <2>1
    <2>2. CASE Issue(op, s, sock = "open")
      BY <1>2, <1>3, <2>2
    <2> QED BY <1>3, <2>1, <2>2 DEF Request, rpcVars
  <1>4. ASSUME NEW e, Teardown(e)
        PROVE  closed' /\ timer' = FALSE
    <2>1. CASE closed
      BY <1>0, <1>4, <2>1 DEF Teardown
    <2>2. CASE ~closed
      BY <1>0, <1>4, <2>2 DEF Teardown, StopHeartbeat
    <2> QED BY <2>1, <2>2
  <1>5. ASSUME CloseBody, sock # "connecting", UNCHANGED <<link, pinged, wire>>,
               conn # "opening", conn' # "opening"
        PROVE  Plumbing'
    <2>1. /\ sock' = (IF sock = "open" THEN "closing" ELSE sock) /\ owed' = {}
          /\ closed' /\ timer' = FALSE
      BY <1>0, <1>4, <1>5 DEF CloseBody, LetGo
    <2> QED BY <1>0, <1>5, <2>1 DEF Plumbing
  <1>6. CASE StartHandshake
    <2>1. /\ sock = "connecting" /\ conn' = "initializing" /\ sock' = "open"
          /\ timer' = NodeSocket /\ Issue("initialize", NoSession, TRUE)
          /\ UNCHANGED <<link, closed, wire, pinged>>
      BY <1>6 DEF StartHandshake, StartHeartbeat
    <2>2. owed' # {} => sock' = "open" /\ link' = "up"
      BY <1>0, <2>1 DEF Plumbing, Reachable, Issue
    <2> QED BY <1>0, <2>1, <2>2 DEF Plumbing, Reachable, ClosedSocket
  <1>7. CASE ConnectDone \/ ConnectRejected
    BY <1>0, <1>7 DEF ConnectDone, ConnectRejected, Initializing, Plumbing, Reachable
  <1>8. CASE ConnectTooNew
    <2>1. CloseBody /\ UNCHANGED <<link, pinged, wire>> /\ conn = "initializing" /\ conn' = "failed"
      BY <1>8 DEF ConnectTooNew, Initializing
    <2> QED BY <1>5, <2>1 DEF Plumbing
  <1>9. CASE Close
    <2>1. CloseBody /\ UNCHANGED <<link, pinged, wire>> /\ conn = "connected" /\ conn' = "connected"
      BY <1>9 DEF Close
    <2> QED BY <1>5, <2>1 DEF Plumbing
  <1>10. ASSUME NEW c \in Calls, UserCalls(c) PROVE Plumbing'
    BY <1>1, <1>3, <1>10 DEF UserCalls, NewSession, ListSessions, LoadSession, Prompt,
                             PromptWithoutSession, rpcVars
  <1>11. ASSUME NEW c \in Calls, Continuation(c) PROVE Plumbing'
    <2>1. CASE ResumeNew(c) \/ ResumeLoad(c) \/ ResumePrompt(c) \/ ResumeRejected(c)
      BY <1>1, <2>1 DEF ResumeNew, ResumeLoad, ResumePrompt, ResumeRejected
    <2>2. CASE ResumeList(c)
      BY <1>1, <1>3, <2>2 DEF ResumeList
    <2> QED BY <1>11, <2>1, <2>2 DEF Continuation
  <1>12. CASE Cancel \/ Pong \/ (\E k \in Watchers : OnClosed(k)) \/ (\E a \in Asks : HandlerAnswers(a))
    BY <1>1, <1>12 DEF Cancel, Pong, OnClosed, HandlerAnswers
  <1>13. CASE FrameArrives
    BY <1>1, <1>13 DEF FrameArrives
  <1>14. ASSUME NEW k \in DOMAIN decoding, Dispatch(k) PROVE Plumbing'
    BY <1>1, <1>14 DEF Dispatch
  <1>15. CASE SocketError
    BY <1>0, <1>15 DEF SocketError, Plumbing, Reachable
  <1>16. CASE SocketClose
    <2>1. /\ sock' = "closed" /\ conn' # "opening" /\ owed' = {} /\ wire' = <<>>
          /\ UNCHANGED <<link, pinged>>
      BY <1>16 DEF SocketClose
    <2>2. closed'
      BY <1>4, <1>16 DEF SocketClose
    <2> QED BY <1>0, <2>1, <2>2 DEF Plumbing
  <1>17. CASE LinkDies
    BY <1>0, <1>17 DEF LinkDies, Plumbing, Reachable
  <1>18. CASE HeartbeatTick
    <2>1. CASE alive
      BY <1>0, <1>18, <2>1 DEF HeartbeatTick, Plumbing, Reachable
    <2>2. CASE ~alive
      <3>1. sock # "connecting"
        BY <1>18 DEF HeartbeatTick, Plumbing
      <3>2. /\ sock' = (IF sock = "open" THEN "closing" ELSE sock) /\ owed' = {}
            /\ UNCHANGED <<link, conn, closed, timer, wire, pinged>>
        BY <1>18, <2>2, <3>1 DEF HeartbeatTick, Terminate, LetGo
      <3> QED BY <1>0, <3>1, <3>2 DEF Plumbing
    <2> QED BY <2>1, <2>2
  <1>19. ASSUME NEW r \in owed, AgentAnswers(r) PROVE Plumbing'
    BY <1>1, <1>19 DEF AgentAnswers
  <1>20. ASSUME NEW i \in answered, AgentRepeats(i) PROVE Plumbing'
    BY <1>1, <1>20 DEF AgentRepeats
  <1>21. CASE AgentUpdates \/ AgentAsks
    BY <1>1, <1>21 DEF AgentUpdates, AgentAsks
  <1>22. CASE UNCHANGED vars
    BY <1>1, <1>22 DEF vars
  <1> QED BY <1>6, <1>7, <1>8, <1>9, <1>10, <1>11, <1>12, <1>13, <1>14, <1>15, <1>16,
             <1>17, <1>18, <1>19, <1>20, <1>21, <1>22 DEF Next, Connect

(* Only the caller of connect() gets the session.                          *)
LEMMA UncalledPreserved ==
    ASSUME Uncalled, [Next]_vars
    PROVE  Uncalled'
  <1> USE DEF netVars, shutVars, turnVars, cbVars, beatVars, frameVars,
              userVars, agentVars, callUnchanged, resumeUnchanged,
              dispatchUnchanged, sockUnchanged, agentUnchanged
  <1>1. ASSUME call' = call, conn' = conn \/ conn' # "opening"
        PROVE  Uncalled'
    BY <1>1 DEF Uncalled, Waiting
  <1>2. CASE Connect
    BY <1>1, <1>2 DEF Connect, StartHandshake, ConnectDone, ConnectRejected, ConnectTooNew
  <1>3. ASSUME NEW c \in Calls, UserCalls(c) PROVE Uncalled'
    BY <1>3 DEF UserCalls, NewSession, ListSessions, LoadSession, Prompt,
                PromptWithoutSession, CanCall, Uncalled
  <1>4. ASSUME NEW c \in Calls, Continuation(c) PROVE Uncalled'
    <2>1. Waiting(c) /\ conn' = conn
      BY <1>4 DEF Continuation, ResumeNew, ResumeLoad, ResumeList, ResumePrompt,
                  ResumeRejected, Resumes, Ready
    <2> QED BY <2>1 DEF Uncalled
  <1>5. CASE Cancel \/ Close \/ Pong \/ FrameArrives \/ (\E k \in Watchers : OnClosed(k))
             \/ (\E k \in DOMAIN decoding : Dispatch(k)) \/ (\E a \in Asks : HandlerAnswers(a))
    BY <1>1, <1>5 DEF Cancel, Close, Pong, FrameArrives, OnClosed, Dispatch, HandlerAnswers
  <1>6. CASE SocketError \/ SocketClose \/ LinkDies \/ HeartbeatTick
    BY <1>1, <1>6 DEF SocketError, SocketClose, LinkDies, HeartbeatTick
  <1>7. CASE \/ \E r \in owed : AgentAnswers(r)
             \/ \E i \in answered : AgentRepeats(i)
             \/ AgentUpdates \/ AgentAsks \/ UNCHANGED vars
    BY <1>1, <1>7 DEF AgentAnswers, AgentRepeats, AgentUpdates, AgentAsks, vars
  <1> QED BY <1>2, <1>3, <1>4, <1>5, <1>6, <1>7 DEF Next

(* What is under way stays so, or the request is settled.                  *)
LEMMA ForgottenPreserved ==
    ASSUME ConstantsAssumption, IInv, Plumbing, Uncalled, NoneForgotten, [Next]_vars
    PROVE  NoneForgotten'
  <1> USE DEF netVars, shutVars, turnVars, cbVars, beatVars, frameVars,
              userVars, agentVars, callUnchanged, resumeUnchanged,
              dispatchUnchanged, sockUnchanged, agentUnchanged
  <1>0. /\ sock \in {"connecting", "open", "closing", "closed"} /\ link \in {"up", "dead"}
        /\ closed \in BOOLEAN /\ (closed => pending = {})
        /\ wire \in Seq(Frames) /\ decoding \in Seq(Frames)
    BY DEF IInv, TypeOK, TypeSocket, TypeFrames, ClosedHoldsNothing
  <1>1. ASSUME pending' \subseteq pending, owed \subseteq owed', Answers \subseteq Answers',
               sock = "closing" => sock' = "closing" \/ pending' = {},
               link' = link
        PROVE  NoneForgotten'
    BY <1>1 DEF NoneForgotten, Underway
  <1>2. ASSUME pending' = {} \/ sock' = "closing" \/ link' = "dead"
        PROVE  NoneForgotten'
    BY <1>2 DEF NoneForgotten, Underway
  <1>3. ASSUME NEW op, NEW s, NEW b, Issue(op, s, b), b \/ sock = "closing",
               sock' = sock \/ sock # "closing",
               UNCHANGED <<link, wire, decoding>>
        PROVE  NoneForgotten'
    <2>1. owed \subseteq owed' /\ Answers' = Answers
      BY <1>3 DEF Issue, Answers
    <2>2. CASE pending' = pending
      BY <1>1, <1>3, <2>1, <2>2
    <2>3. CASE pending' = pending \cup {nextId} /\ b /\ link = "up"
      <3>1. [id |-> nextId, op |-> op, sess |-> s] \in owed'
        BY <1>3, <2>3 DEF Issue, Unsettled, Rejected
      <3>2. ASSUME NEW i \in pending' PROVE Underway(i)'
        <4>1. CASE i = nextId
          BY <3>1, <4>1 DEF Underway
        <4>2. CASE i \in pending
          BY <1>3, <2>1, <4>2 DEF NoneForgotten, Underway
        <4> QED BY <2>3, <4>1, <4>2
      <3> QED BY <3>2 DEF NoneForgotten
    <2>4. CASE link = "dead" \/ sock' = "closing"
      BY <1>2, <1>3, <2>4
    <2>5. pending' = pending \/ pending' = pending \cup {nextId}
      BY <1>3 DEF Issue
    <2> QED BY <1>0, <1>3, <2>2, <2>3, <2>4, <2>5
  <1>4. ASSUME NEW c \in Calls, NEW op, NEW s, NEW page, Request(c, op, s, page),
               conn # "opening", UNCHANGED <<link, sock, wire, decoding>>
        PROVE  NoneForgotten'
    <2>1. CASE pending' = pending /\ owed' = owed
      BY <1>1, <1>4, <2>1 DEF Answers
    <2>2. CASE ~closed /\ Issue(op, s, sock = "open")
      <3>1. sock \in {"open", "closing"}
        BY <1>0, <1>4, <2>2 DEF Plumbing
      <3> QED BY <1>3, <1>4, <2>2, <3>1
    <2> QED BY <1>4, <2>1, <2>2 DEF Request, rpcVars
  <1>5. ASSUME NEW e, Teardown(e) PROVE pending' = {}
    <2>1. CASE closed
      BY <1>0, <1>5, <2>1 DEF Teardown, rpcVars
    <2>2. CASE ~closed
      BY <1>5, <2>2 DEF Teardown, RejectPending
    <2> QED BY <2>1, <2>2
  <1>6. CASE StartHandshake
    <2>1. /\ Issue("initialize", NoSession, TRUE) /\ sock # "closing"
          /\ UNCHANGED <<link, wire, decoding>>
      BY <1>6 DEF StartHandshake
    <2> QED BY <1>3, <2>1
  <1>7. CASE ConnectDone \/ ConnectRejected
    BY <1>1, <1>7 DEF ConnectDone, ConnectRejected, Answers, rpcVars
  <1>8. CASE ConnectTooNew \/ Close \/ SocketClose
    <2>1. pending' = {}
      BY <1>5, <1>8 DEF ConnectTooNew, Close, CloseBody, SocketClose
    <2> QED BY <1>2, <2>1
  <1>9. ASSUME NEW c \in Calls, UserCalls(c) PROVE NoneForgotten'
    <2>1. CASE PromptWithoutSession(c)
      BY <1>1, <2>1 DEF PromptWithoutSession, Answers, rpcVars
    <2>2. CASE ~PromptWithoutSession(c)
      <3>1. conn # "opening" /\ UNCHANGED <<link, sock, wire, decoding>>
        BY <1>9, <2>2 DEF UserCalls, NewSession, ListSessions, LoadSession, Prompt, CanCall
      <3>2. \E op, s, page : Request(c, op, s, page)
        BY <1>9, <2>2 DEF UserCalls, NewSession, ListSessions, LoadSession, Prompt
      <3> QED BY <1>4, <3>1, <3>2
    <2> QED BY <2>1, <2>2
  <1>10. ASSUME NEW c \in Calls, Continuation(c) PROVE NoneForgotten'
    <2>1. CASE ResumeNew(c) \/ ResumeLoad(c) \/ ResumePrompt(c) \/ ResumeRejected(c)
      BY <1>1, <2>1 DEF ResumeNew, ResumeLoad, ResumePrompt, ResumeRejected, Answers, rpcVars
    <2>2. CASE ResumeList(c)
      <3>1. UNCHANGED <<link, sock, wire, decoding>>
        BY <2>2 DEF ResumeList
      <3>2. CASE UNCHANGED <<rpcVars, owed>>
        BY <1>1, <3>1, <3>2 DEF Answers, rpcVars
      <3>3. CASE Request(c, "list", NoSession, call[c].page + 1)
        <4>1. conn # "opening"
          BY <2>2 DEF ResumeList, Resumes, Ready, Uncalled
        <4> QED BY <1>4, <3>1, <3>3, <4>1
      <3> QED BY <2>2, <3>2, <3>3 DEF ResumeList
    <2> QED BY <1>10, <2>1, <2>2 DEF Continuation
  <1>11. CASE Cancel \/ Pong \/ (\E k \in Watchers : OnClosed(k))
              \/ (\E a \in Asks : HandlerAnswers(a)) \/ UNCHANGED vars
    BY <1>1, <1>11 DEF Cancel, Pong, OnClosed, HandlerAnswers, Answers, rpcVars, vars
  <1>12. CASE FrameArrives
    <2>1. /\ wire # <<>> /\ wire' = Tail(wire)
          /\ decoding' = IF closed THEN decoding ELSE Append(decoding, Head(wire))
          /\ UNCHANGED <<sock, link, pending, owed>>
      BY <1>12 DEF FrameArrives, rpcVars
    <2>2. CASE closed
      BY <1>0, <1>2, <2>1, <2>2
    <2>3. CASE ~closed
      <3>1. /\ Len(wire) \in Nat \ {0} /\ DOMAIN wire = 1..Len(wire)
            /\ Head(wire) = wire[1] /\ Head(wire) \in Frames
            /\ DOMAIN wire' = 1..(Len(wire) - 1)
            /\ \A i \in 1..(Len(wire) - 1) : wire'[i] = wire[i + 1]
        BY <1>0, <2>1, TailFacts
      <3>2. Range(decoding') = Range(decoding) \cup {wire[1]}
        BY <1>0, <2>1, <2>3, <3>1, AppendFacts
      <3>3. ASSUME NEW j \in DOMAIN wire PROVE wire[j] \in Range(wire') \cup Range(decoding')
        <4>1. CASE j = 1
          BY <3>2, <4>1
        <4>2. CASE j # 1
          <5>1. j - 1 \in 1..(Len(wire) - 1) /\ (j - 1) + 1 = j
            BY <3>1, <4>2
          <5>2. wire'[j - 1] = wire[j] /\ j - 1 \in DOMAIN wire'
            BY <3>1, <5>1
          <5> QED BY <5>2 DEF Range
        <4> QED BY <4>1, <4>2
      <3>4. Range(wire) \subseteq Range(wire') \cup Range(decoding')
        BY <3>3 DEF Range
      <3>5. Answers \subseteq Answers'
        BY <3>2, <3>4 DEF Answers
      <3> QED BY <1>1, <2>1, <3>5
    <2> QED BY <2>2, <2>3
  <1>13. ASSUME NEW k \in DOMAIN decoding, Dispatch(k) PROVE NoneForgotten'
    <2> DEFINE f == decoding[k]
    <2>1. /\ decoding' = RemoveAt(decoding, k) /\ UNCHANGED <<sock, link, wire, owed>>
          /\ pending' \subseteq pending
          /\ f.kind = "answer" => pending' = pending \ {f.id}
      BY <1>13 DEF Dispatch, Settle, HandleNotification, HandleServerRequest, rpcVars
    <2>2. ASSUME NEW g \in Range(decoding), g # f PROVE g \in Range(decoding')
      <3>1. PICK j \in DOMAIN decoding : decoding[j] = g
        BY DEF Range
      <3>2. /\ Len(decoding') = Len(decoding) - 1 /\ decoding' \in Seq(Frames)
            /\ \A i \in 1..(Len(decoding) - 1) :
                  decoding'[i] = IF i < k THEN decoding[i] ELSE decoding[i + 1]
        <4> DEFINE r == RemoveAt(decoding, k)
        <4>1. decoding \in Seq(Frames)
          BY <1>0
        <4>2. /\ Len(r) = Len(decoding) - 1 /\ r \in Seq(Frames)
              /\ \A i \in 1..(Len(decoding) - 1) :
                    r[i] = IF i < k THEN decoding[i] ELSE decoding[i + 1]
          BY <4>1, RemoveAtFacts
        <4>3. decoding' = r
          BY <2>1
        <4> HIDE DEF r
        <4> QED BY <4>2, <4>3
      <3>3. /\ Len(decoding) \in Nat /\ DOMAIN decoding = 1..Len(decoding)
            /\ DOMAIN decoding' = 1..(Len(decoding) - 1) /\ j # k
        BY <1>0, <2>2, <3>1, <3>2
      <3>4. CASE j < k
        <4>1. j \in 1..(Len(decoding) - 1)
          BY <3>3, <3>4
        <4>2. decoding'[j] = g
          BY <3>1, <3>2, <3>4, <4>1
        <4> QED BY <3>3, <4>1, <4>2 DEF Range
      <3>5. CASE j > k
        <4>1. j - 1 \in 1..(Len(decoding) - 1) /\ ~(j - 1 < k) /\ (j - 1) + 1 = j
          BY <3>3, <3>5
        <4>2. decoding'[j - 1] = g
          BY <3>1, <3>2, <4>1
        <4> QED BY <3>3, <4>1, <4>2 DEF Range
      <3> QED BY <3>3, <3>4, <3>5
    <2> HIDE DEF f
    <2>3. ASSUME NEW i \in pending' PROVE Underway(i)'
      <3>1. Underway(i)
        BY <2>1 DEF NoneForgotten
      <3>2. CASE \E g \in Answers : g.id = i
        <4>1. PICK g \in Answers : g.id = i
          BY <3>2
        <4>2. g # f
          BY <2>1, <4>1 DEF Answers
        <4>3. g \in Answers'
          BY <2>1, <2>2, <4>1, <4>2 DEF Answers
        <4> QED BY <4>1, <4>3 DEF Underway
      <3> QED BY <2>1, <3>1, <3>2 DEF Underway
    <2> QED BY <2>3 DEF NoneForgotten
  <1>14. CASE SocketError \/ LinkDies
    BY <1>2, <1>14 DEF SocketError, LinkDies
  <1>15. CASE HeartbeatTick
    <2>1. CASE alive
      BY <1>1, <1>15, <2>1 DEF HeartbeatTick, Answers, rpcVars
    <2>2. CASE ~alive
      <3>1. sock' = LetGo(sock) /\ pending' = pending
        BY <1>15, <2>2 DEF HeartbeatTick, Terminate, rpcVars
      <3>2. CASE sock = "closed"
        BY <1>0, <1>2, <3>1, <3>2 DEF Plumbing
      <3>3. CASE sock # "closed"
        <4>1. sock' = "closing"
          BY <1>0, <3>1, <3>3 DEF LetGo
        <4> QED BY <1>2, <4>1
      <3> QED BY <3>2, <3>3
    <2> QED BY <2>1, <2>2
  <1>16. ASSUME NEW g \in Frames, wire' = Append(wire, g), decoding' = decoding
         PROVE  Answers \subseteq Answers' /\ (g.kind = "answer" => g \in Answers')
    <2>1. Range(wire') = Range(wire) \cup {g}
      BY <1>0, <1>16, AppendFacts
    <2> QED BY <1>16, <2>1 DEF Answers
  <1>17. ASSUME NEW r \in owed, AgentAnswers(r) PROVE NoneForgotten'
    <2>1. PICK v \in AnswersTo(r) : wire' = Append(wire, Frame("answer", r.id, v))
      BY <1>17 DEF AgentAnswers
    <2>2. /\ owed' = owed \ {r} /\ UNCHANGED <<sock, link, decoding, pending>>
      BY <1>17 DEF AgentAnswers, rpcVars
    <2>3. r \in Requests
      BY DEF IInv, TypeOK, TypeRpc
    <2>4. v \in Results /\ r.id \in Nat
      BY <2>1, <2>3 DEF AnswersTo, Results, Requests, AllOps
    <2> DEFINE g == Frame("answer", r.id, v)
    <2>5. g \in Frames /\ g.kind = "answer" /\ g.id = r.id
      BY <2>4 DEF Frame, Frames
    <2> HIDE DEF g
    <2>6. Answers \subseteq Answers' /\ g \in Answers'
      BY <1>16, <2>1, <2>2, <2>5 DEF g
    <2>7. ASSUME NEW i \in pending PROVE Underway(i)'
      <3>1. CASE i = r.id
        BY <2>5, <2>6, <3>1 DEF Underway
      <3>2. CASE i # r.id
        BY <2>2, <2>6, <3>2 DEF NoneForgotten, Underway
      <3> QED BY <3>1, <3>2
    <2> QED BY <2>2, <2>7 DEF NoneForgotten
  <1>18. ASSUME NEW g \in Frames, wire' = Append(wire, g),
                UNCHANGED <<sock, link, decoding, pending, owed>>
         PROVE  NoneForgotten'
    BY <1>1, <1>16, <1>18
  <1>19. ASSUME NEW i \in answered, AgentRepeats(i) PROVE NoneForgotten'
    <2>1. PICK g \in Frames : wire' = Append(wire, g)
      BY <1>19, FramesSent
    <2> QED BY <1>18, <1>19, <2>1 DEF AgentRepeats, rpcVars
  <1>20. CASE AgentUpdates
    <2>1. PICK g \in Frames : wire' = Append(wire, g)
      BY <1>20, FramesSent
    <2> QED BY <1>18, <1>20, <2>1 DEF AgentUpdates, rpcVars
  <1>21. CASE AgentAsks
    <2>1. PICK v \in {"ok", "more"} : wire' = Append(wire, Frame("ask", asked + 1, v))
      BY <1>21 DEF AgentAsks
    <2>2. asked \in Nat
      BY DEF IInv, TypeOK, TypeUser, ConstantsAssumption
    <2>3. Frame("ask", asked + 1, v) \in Frames
      BY <2>2 DEF Frame, Frames, Results
    <2> QED BY <1>18, <1>21, <2>1, <2>3 DEF AgentAsks, rpcVars
  <1> QED BY <1>6, <1>7, <1>8, <1>9, <1>10, <1>11, <1>12, <1>13, <1>14, <1>15,
             <1>17, <1>19, <1>20, <1>21 DEF Next, Connect

(* No call hangs for a reason of its own: a promise that is pending belongs*)
(* to a session that is open, and it is owed by an agent that can be heard,*)
(* or its answer is on its way and can arrive, or the close event will     *)
(* settle it, or the network is dead and an unanswered heartbeat notices   *)
(* it (node's socket only: a browser's has none). The call waits for what  *)
(* EveryCallReturns needs fairness of, and for nothing else.               *)
NothingForgotten ==
    \A i \in DOMAIN promise : promise[i].st = "pending" =>
        /\ ~closed
        /\ \/ Reachable /\ \E r \in owed : r.id = i
           \/ /\ \E f \in Answers : f.id = i
              /\ wire # <<>> => link = "up" /\ sock \in {"open", "closing"}
           \/ sock = "closing"
           \/ link = "dead" /\ sock = "open" /\ ~pinged /\ timer = NodeSocket

(* Neither a fault nor an order of events loses a request without a trace: *)
(* request() and dispatch() against every event of the socket.             *)
THEOREM NoCallForgotten == Spec => []NothingForgotten
  <1> DEFINE Inv == Plumbing /\ Uncalled /\ NoneForgotten
  <1>1. Init => Inv
    BY DEF Init, Plumbing, Uncalled, NoneForgotten, Waiting, IdleCall, Reachable
  <1>2. IInv /\ Inv /\ [Next]_vars => Inv'
    BY ConstantsAssumption, PlumbingPreserved, UncalledPreserved, ForgottenPreserved
  <1>3. IInv /\ Inv => NothingForgotten
    <2> SUFFICES ASSUME IInv, Inv, NEW i \in DOMAIN promise, promise[i].st = "pending"
                 PROVE  /\ ~closed
                        /\ \/ Reachable /\ \E r \in owed : r.id = i
                           \/ /\ \E f \in Answers : f.id = i
                              /\ wire # <<>> => link = "up" /\ sock \in {"open", "closing"}
                           \/ sock = "closing"
                           \/ link = "dead" /\ sock = "open" /\ ~pinged /\ timer = NodeSocket
      BY DEF NothingForgotten
    <2>1. i \in pending
      BY DEF IInv, PendingMap
    <2>2. ~closed /\ Underway(i)
      BY <2>1 DEF IInv, ClosedHoldsNothing, NoneForgotten
    <2>3. sock \in {"connecting", "open", "closing", "closed"} /\ link \in {"up", "dead"}
      BY DEF IInv, TypeOK, TypeSocket
    <2> QED BY <2>2, <2>3 DEF Underway, Plumbing
  <1> QED BY <1>1, <1>2, <1>3, InductiveInvariant, PTL DEF Spec
=============================================================================
