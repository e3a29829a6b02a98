----------------------------- MODULE AcpSession -----------------------------
(***************************************************************************)
(* The ACP client of packages/agentic-client/src/acp/index.ts: JSON-RPC    *)
(* over one WebSocket between a viewer and the agent in a run's sandbox.   *)
(*                                                                         *)
(* One client session, the socket under it and the agent behind it. The    *)
(* client is single-threaded JavaScript: an action is one event handler,   *)
(* or one continuation of an async method, run to its next await. The      *)
(* agent (harness-goose, or the mock stack) answers in any order and at    *)
(* any speed; its inbound leg is folded into that delay.                   *)
(*                                                                         *)
(* Left out: parsing and formatting of payloads (diffs, locations, tool    *)
(* calls), log lines, error texts and the two advertised feature flags,    *)
(* none of which any step of the class branches on.                        *)
(***************************************************************************)
EXTENDS Naturals, Sequences, FiniteSets, SequencesExt

CONSTANTS
    Calls,       \* the calls the program makes of the session's methods
    Ops,         \* the methods it calls: a subset of AllOps
    Sessions,    \* ids of agent sessions
    NoSession,   \* null
    Watchers,    \* the callbacks it registers with onClosed
    PageCap,     \* listSessions reads at most this many pages (16 in the code)
    NodeSocket,  \* the socket is node's 'ws': it has ping and on
    HasHandler,  \* callbacks.onPermissionRequest is given
    Blobs,       \* frames may arrive as Blobs, decoded asynchronously
    OneTurn,     \* the program awaits a turn before it prompts again
    Faults,      \* bound: what may go wrong, a subset of AllFaults
    MaxUpdates,  \* bound: session/update notifications sent
    MaxAsks,     \* bound: requests the agent makes of the client
    MaxCancels   \* bound: session/cancel notifications sent

AllOps == {"new", "list", "load", "prompt"}

\* A socket error; a close the client did not ask for; a link that dies
\* without a word; an answer that is sent twice; a request that is refused.
AllFaults == {"error", "drop", "dead", "repeat", "refuse"}

ASSUME ConstantsAssumption ==
    /\ Ops \subseteq AllOps
    /\ Faults \subseteq AllFaults
    /\ NoSession \notin Sessions
    /\ Sessions \cap {"ok", "more", "tooNew", "error"} = {}
    /\ PageCap \in Nat \ {0}
    /\ NodeSocket \in BOOLEAN
    /\ HasHandler \in BOOLEAN
    /\ Blobs \in BOOLEAN
    /\ OneTurn \in BOOLEAN
    /\ MaxUpdates \in Nat
    /\ MaxAsks \in Nat
    /\ MaxCancels \in Nat

VARIABLES
    sock,              \* the socket: connecting, open, closing or closed
    link,              \* the network under it: up, or dead without a word
    conn,              \* connect(): opening, initializing, connected or failed
    closed, explicitlyClosed,
    promise,           \* promise[i]: the promise made for request id i
    pending,           \* ids in the pending map
    call,              \* what became of each call of a method
    sessionId, promptActive, promptSessionId,
    closedCallbacks,   \* the watchers teardown will call
    joined, fires,     \* who called onClosed; how often each was called back
    timer, alive,      \* the heartbeat: running; a pong came since the last ping
    pinged,            \* a ping is under way to a peer that can answer it
    wire,              \* frames from the agent, not yet received
    decoding,          \* frames received, still in "await toText"
    seen,              \* the updates handed to onUpdate, in order
    ask,               \* ask[a]: what became of the agent's request a
    replies,           \* replies[a]: how often it was answered
    cancels,           \* targets of the session/cancel frames sent, in order
    owed,              \* requests the agent has received and not answered
    answered,          \* ids of requests it has answered
    live,              \* its sessions
    said, asked        \* updates and requests it has sent

netVars   == <<sock, link, conn>>
shutVars  == <<closed, explicitlyClosed>>
rpcVars   == <<promise, pending>>
turnVars  == <<sessionId, promptActive, promptSessionId>>
cbVars    == <<closedCallbacks, joined, fires>>
beatVars  == <<timer, alive, pinged>>
frameVars == <<wire, decoding>>
userVars  == <<seen, ask, replies, cancels>>
agentVars == <<answered, live, said, asked>>
vars == <<netVars, shutVars, rpcVars, call, turnVars, cbVars, beatVars,
          frameVars, userVars, owed, agentVars>>

-----------------------------------------------------------------------------
(* Data.                                                                   *)

\* What an answer carries: an error, or what the continuation looks at.
Results == {"ok", "more", "tooNew", "error"} \cup Sessions

Unsettled    == [st |-> "pending",   val |-> "ok"]
Rejected     == [st |-> "rejected",  val |-> "ok"]
Fulfilled(v) == [st |-> "fulfilled", val |-> v]
Promises     == [st : {"pending", "fulfilled", "rejected"}, val : Results]

\* A frame: the answer to request id, update number id, or the agent's
\* request number id ("ok" for session/request_permission, "more" for a
\* method this client does not know).
Frames == [kind : {"answer", "update", "ask"}, id : Nat, val : Results]
Frame(k, i, v) == [kind |-> k, id |-> i, val |-> v]

\* A call of a method: the request it awaits (0: a promise rejected without
\* a request) and, of listSessions, the page.
CallStates == [op : AllOps, sess : Sessions \cup {NoSession}, id : Nat,
               page : Nat, phase : {"idle", "waiting", "done", "failed"}]
IdleCall == [op |-> "new", sess |-> NoSession, id |-> 0, page |-> 0,
             phase |-> "idle"]

Requests == [id : Nat, op : AllOps \cup {"initialize"},
             sess : Sessions \cup {NoSession}]

Asks == 1..MaxAsks

\* Mutant: ids are taken from the size of the map.
IdFromMapSize == Cardinality(pending) + 1

nextId == Len(promise) + 1

Outcome(i) == IF i = 0 THEN Rejected ELSE promise[i]

\* The agent hears what the client sends.
Reachable == sock = "open" /\ link = "up"

Waiting(c) == call[c].phase = "waiting"

\* The promise call c awaits is settled: its continuation can run.
Ready(c) == Waiting(c) /\ Outcome(call[c].id).st # "pending"

\* The prompt turns in flight.
Turns == {c \in Calls : call[c].op = "prompt" /\ Waiting(c)}

Init ==
    /\ sock = "connecting" /\ link = "up" /\ conn = "opening"
    /\ closed = FALSE /\ explicitlyClosed = FALSE
    /\ promise = <<>> /\ pending = {}
    /\ call = [c \in Calls |-> IdleCall]
    /\ sessionId = NoSession /\ promptActive = FALSE
    /\ promptSessionId = NoSession
    /\ closedCallbacks = {} /\ joined = {} /\ fires = [k \in Watchers |-> 0]
    /\ timer = FALSE /\ alive = FALSE /\ pinged = FALSE
    /\ wire = <<>> /\ decoding = <<>>
    /\ seen = <<>> /\ cancels = <<>>
    /\ ask = [a \in Asks |-> "none"] /\ replies = [a \in Asks |-> 0]
    /\ owed = {} /\ answered = {} /\ live \in SUBSET Sessions
    /\ said = 0 /\ asked = 0

-----------------------------------------------------------------------------
(* Parts of handlers.                                                      *)

\* Mutant: rejected, but left in the map.
RejectKeepingMap ==
    /\ promise' = [i \in DOMAIN promise |->
                     IF i \in pending THEN Rejected ELSE promise[i]]
    /\ UNCHANGED pending

RejectPending ==
    /\ promise' = [i \in DOMAIN promise |->
                     IF i \in pending THEN Rejected ELSE promise[i]]
    /\ pending' = {}

\* Mutant: the interval goes on.
KeepHeartbeat == UNCHANGED timer

StopHeartbeat == timer' = FALSE

(* teardown: idempotent; the watchers hear of it unless the client closed. *)
Teardown(explicit) ==
    IF closed
    THEN UNCHANGED <<closed, timer, rpcVars, closedCallbacks, fires>>
    ELSE /\ closed' = TRUE
         /\ StopHeartbeat
         /\ RejectPending
         /\ fires' = IF explicit THEN fires
                     ELSE [k \in Watchers |-> IF k \in closedCallbacks
                                              THEN fires[k] + 1 ELSE fires[k]]
         /\ closedCallbacks' = {}

LetGo(socket) == IF socket \in {"connecting", "open"} THEN "closing" ELSE socket

\* Mutants: teardown runs before the flag is set; the socket is forgotten.
CloseTearsDownFirst ==
    /\ explicitlyClosed' = TRUE
    /\ sock' = LetGo(sock) /\ owed' = {}
    /\ Teardown(explicitlyClosed)
CloseKeepsSocket ==
    explicitlyClosed' = TRUE /\ UNCHANGED <<sock, owed>> /\ Teardown(TRUE)

(* close: the flag is set first, so that teardown stays silent.            *)
CloseBody ==
    /\ explicitlyClosed' = TRUE
    /\ sock' = LetGo(sock) /\ owed' = {}
    /\ Teardown(explicitlyClosed')

(* request, on a session that is not closed: a fresh id, an entry of the   *)
(* map, then the frame. A socket that is not open drops the frame or       *)
(* throws; a throw takes the entry back and rejects.                       *)
Issue(op, s, isOpen) ==
    \/ /\ promise' = Append(promise, Unsettled)
       /\ pending' = pending \cup {nextId}
       /\ owed' = IF isOpen /\ link = "up"
                  THEN owed \cup {[id |-> nextId, op |-> op, sess |-> s]}
                  ELSE owed
    \/ /\ ~isOpen
       /\ promise' = Append(promise, Rejected)
       /\ UNCHANGED <<pending, owed>>

Await(c, op, s, page, i) ==
    call' = [call EXCEPT ![c] = [op |-> op, sess |-> s, id |-> i,
                                 page |-> page, phase |-> "waiting"]]

(* request, from a method called as c; a closed session only rejects.      *)
Request(c, op, s, page) ==
    \/ /\ closed
       /\ Await(c, op, s, page, 0)
       /\ UNCHANGED <<rpcVars, owed>>
    \/ /\ ~closed
       /\ Await(c, op, s, page, nextId)
       /\ Issue(op, s, sock = "open")

Finish(c, phase) == call' = [call EXCEPT ![c].phase = phase]

-----------------------------------------------------------------------------
(* connect.                                                                *)

StartHeartbeat == timer' = NodeSocket /\ alive' = NodeSocket

(* The open event resolves openPromise and connect() runs on: heartbeat    *)
(* (node sockets only), then the initialize request, id 1.                 *)
StartHandshake ==
    /\ conn = "opening" /\ sock = "connecting"
    /\ sock' = "open" /\ conn' = "initializing"
    /\ StartHeartbeat
    /\ Issue("initialize", NoSession, TRUE)
    /\ UNCHANGED <<link, shutVars, call, turnVars, cbVars, pinged, frameVars,
                   userVars, agentVars>>

Initializing == conn = "initializing" /\ promise[1].st # "pending"

ConnectDone ==
    /\ Initializing
    /\ promise[1].st = "fulfilled" /\ promise[1].val # "tooNew"
    /\ conn' = "connected"
    /\ UNCHANGED <<sock, link, shutVars, rpcVars, call, turnVars, cbVars,
                   beatVars, frameVars, userVars, owed, agentVars>>

(* initialize was refused, or the connection closed before its answer.     *)
ConnectRejected ==
    /\ Initializing
    /\ promise[1].st = "rejected"
    /\ conn' = "failed"
    /\ UNCHANGED <<sock, link, shutVars, rpcVars, call, turnVars, cbVars,
                   beatVars, frameVars, userVars, owed, agentVars>>

(* The agent's protocol is newer than this client's: close, then throw.    *)
ConnectTooNew ==
    /\ Initializing
    /\ promise[1].st = "fulfilled" /\ promise[1].val = "tooNew"
    /\ conn' = "failed"
    /\ CloseBody
    /\ UNCHANGED <<link, call, turnVars, joined, alive, pinged, frameVars,
                   userVars, agentVars>>

-----------------------------------------------------------------------------
(* Methods the program calls, once connect() has given it the session.     *)

CanCall(c, op) == conn = "connected" /\ op \in Ops /\ call[c].phase = "idle"

callUnchanged == <<netVars, shutVars, cbVars, beatVars, frameVars, userVars,
                   agentVars>>

NewSession(c) ==
    /\ CanCall(c, "new")
    /\ Request(c, "new", NoSession, 0)
    /\ UNCHANGED <<callUnchanged, turnVars>>

ListSessions(c) ==
    /\ CanCall(c, "list")
    /\ Request(c, "list", NoSession, 1)
    /\ UNCHANGED <<callUnchanged, turnVars>>

LoadSession(c, s) ==
    /\ CanCall(c, "load")
    /\ Request(c, "load", s, 0)
    /\ UNCHANGED <<callUnchanged, turnVars>>

(* The turn's session is pinned before the request.                        *)
Prompt(c) ==
    /\ CanCall(c, "prompt")
    /\ OneTurn => Turns = {}
    /\ sessionId # NoSession
    /\ promptSessionId' = sessionId
    /\ promptActive' = TRUE
    /\ Request(c, "prompt", sessionId, 0)
    /\ UNCHANGED <<callUnchanged, sessionId>>

PromptWithoutSession(c) ==
    /\ CanCall(c, "prompt")
    /\ sessionId = NoSession
    /\ call' = [call EXCEPT ![c] = [IdleCall EXCEPT !.op = "prompt",
                                                    !.phase = "failed"]]
    /\ UNCHANGED <<callUnchanged, turnVars, rpcVars, owed>>

\* Mutant: the pinned session is not looked at.
CancelCurrent == sessionId

CancelTarget ==
    IF promptActive /\ promptSessionId # NoSession
    THEN promptSessionId ELSE sessionId

(* cancel: a notification; a send that throws changes nothing.             *)
Cancel ==
    /\ conn = "connected" /\ Len(cancels) < MaxCancels
    /\ CancelTarget # NoSession /\ ~closed
    /\ cancels' = Append(cancels, CancelTarget)
    /\ UNCHANGED <<netVars, shutVars, rpcVars, call, turnVars, cbVars,
                   beatVars, frameVars, seen, ask, replies, owed, agentVars>>

Close ==
    /\ conn = "connected"
    /\ CloseBody
    /\ UNCHANGED <<link, conn, call, turnVars, joined, alive, pinged,
                   frameVars, userVars, agentVars>>

\* Mutant: it always waits for teardown.
NeverAtOnce == FALSE

CallBackAtOnce == closed /\ ~explicitlyClosed

(* onClosed: kept for teardown, or called back at once after a drop.       *)
OnClosed(k) ==
    /\ conn = "connected" /\ k \notin joined
    /\ joined' = joined \cup {k}
    /\ closedCallbacks' = IF closed THEN closedCallbacks
                          ELSE closedCallbacks \cup {k}
    /\ fires' = IF CallBackAtOnce
                THEN [fires EXCEPT ![k] = @ + 1] ELSE fires
    /\ UNCHANGED <<netVars, shutVars, rpcVars, call, turnVars, beatVars,
                   frameVars, userVars, owed, agentVars>>

-----------------------------------------------------------------------------
(* Continuations: a method runs on when its request's promise is settled.  *)

resumeUnchanged == <<callUnchanged, rpcVars, owed>>

Result(c) == Outcome(call[c].id).val

Resumes(c, op) ==
    /\ Ready(c)
    /\ call[c].op = op
    /\ Outcome(call[c].id).st = "fulfilled"

ResumeNew(c) ==
    /\ Resumes(c, "new")
    /\ sessionId' = Result(c)
    /\ Finish(c, "done")
    /\ UNCHANGED <<resumeUnchanged, promptActive, promptSessionId>>

ResumeLoad(c) ==
    /\ Resumes(c, "load")
    /\ sessionId' = call[c].sess
    /\ Finish(c, "done")
    /\ UNCHANGED <<resumeUnchanged, promptActive, promptSessionId>>

\* Mutant: one page too many.
OneMorePage(c) == Result(c) = "more" /\ call[c].page <= PageCap

NextPage(c) == Result(c) = "more" /\ call[c].page < PageCap

(* A next cursor asks for the next page, up to the cap.                    *)
ResumeList(c) ==
    /\ Resumes(c, "list")
    /\ IF NextPage(c)
       THEN Request(c, "list", NoSession, call[c].page + 1)
       ELSE Finish(c, "done") /\ UNCHANGED <<rpcVars, owed>>
    /\ UNCHANGED <<callUnchanged, turnVars>>

\* Mutant: only the session is unpinned.
EndPromptUnpins ==
    promptSessionId' = NoSession /\ UNCHANGED <<promptActive, sessionId>>

(* The finally clause of prompt().                                         *)
EndPrompt ==
    /\ promptActive' = FALSE
    /\ promptSessionId' = NoSession
    /\ UNCHANGED sessionId

ResumePrompt(c) ==
    /\ Resumes(c, "prompt")
    /\ EndPrompt
    /\ Finish(c, "done")
    /\ UNCHANGED resumeUnchanged

ResumeRejected(c) ==
    /\ Ready(c)
    /\ Outcome(call[c].id).st = "rejected"
    /\ IF call[c].op = "prompt" THEN EndPrompt ELSE UNCHANGED turnVars
    /\ Finish(c, "failed")
    /\ UNCHANGED resumeUnchanged

Continuation(c) ==
    \/ ResumeNew(c) \/ ResumeLoad(c) \/ ResumeList(c)
    \/ ResumePrompt(c) \/ ResumeRejected(c)

-----------------------------------------------------------------------------
(* Frames from the agent.                                                  *)

(* The message event. A closed session drops the frame here, and only      *)
(* here: it is not looked at again once the frame has been decoded.        *)
FrameArrives ==
    /\ wire # <<>> /\ link = "up" /\ sock \in {"open", "closing"}
    /\ wire' = Tail(wire)
    /\ decoding' = IF closed THEN decoding ELSE Append(decoding, Head(wire))
    /\ UNCHANGED <<netVars, shutVars, rpcVars, call, turnVars, cbVars,
                   beatVars, userVars, owed, agentVars>>

\* Mutant: whichever is ready first.
DecodedAnyhow(k) == k \in DOMAIN decoding

(* toText: text is ready in order of arrival, Blobs when they are.         *)
Decoded(k) == k \in DOMAIN decoding /\ (k = 1 \/ Blobs)

dispatchUnchanged == <<netVars, shutVars, call, turnVars, cbVars, beatVars,
                       wire, cancels, owed, agentVars>>

\* Mutant: the map is not consulted.
AnyId(i) == TRUE

Awaited(i) == i \in pending

\* Mutants: an error resolves the promise; an error leaves it as it is.
ErrorResolves(f) == Fulfilled(f.val)
ErrorForgotten(f) == IF f.val = "error" THEN Unsettled ELSE Fulfilled(f.val)

Settlement(f) == IF f.val = "error" THEN Rejected ELSE Fulfilled(f.val)

(* settle: an id that is not in the map is ignored.                        *)
Settle(f) ==
    /\ f.kind = "answer"
    /\ pending' = pending \ {f.id}
    /\ promise' = IF Awaited(f.id)
                  THEN [promise EXCEPT ![f.id] = Settlement(f)] ELSE promise
    /\ UNCHANGED <<seen, ask, replies>>

HandleNotification(f) ==
    /\ f.kind = "update"
    /\ seen' = Append(seen, f.id)
    /\ UNCHANGED <<rpcVars, ask, replies>>

\* Mutant: closed is not checked.
ReplyRegardless(a) == replies' = [replies EXCEPT ![a] = @ + 1]

(* One message back to the agent, unless the session is closed.            *)
Reply(a) ==
    replies' = IF closed THEN replies ELSE [replies EXCEPT ![a] = @ + 1]

\* Mutant: no return after the refusal.
RefuseAndAsk(a) == ask' = [ask EXCEPT ![a] = "deciding"] /\ Reply(a)

Refuse(a) == ask' = [ask EXCEPT ![a] = "over"] /\ Reply(a)

(* handleServerRequest: an unknown method is refused at once, and so is    *)
(* a permission nobody is there to give; the rest waits for the callback.  *)
HandleServerRequest(f) ==
    /\ f.kind = "ask"
    /\ IF f.val = "ok" /\ HasHandler
       THEN ask' = [ask EXCEPT ![f.id] = "deciding"] /\ UNCHANGED replies
       ELSE Refuse(f.id)
    /\ UNCHANGED <<rpcVars, seen>>

Dispatch(k) ==
    /\ Decoded(k)
    /\ decoding' = RemoveAt(decoding, k)
    /\ \/ Settle(decoding[k])
       \/ HandleNotification(decoding[k])
       \/ HandleServerRequest(decoding[k])
    /\ UNCHANGED dispatchUnchanged

(* onPermissionRequest returns an outcome, or throws: an error goes back.  *)
HandlerAnswers(a) ==
    /\ ask[a] = "deciding"
    /\ ask' = [ask EXCEPT ![a] = "over"]
    /\ Reply(a)
    /\ UNCHANGED <<netVars, shutVars, rpcVars, call, turnVars, cbVars,
                   beatVars, frameVars, seen, cancels, owed, agentVars>>

-----------------------------------------------------------------------------
(* The socket, the network and the heartbeat.                              *)

sockUnchanged == <<call, turnVars, joined, pinged, seen, ask, replies,
                   cancels, agentVars>>

(* An error event: connect() fails; a close event always follows.          *)
SocketError ==
    /\ "error" \in Faults
    /\ sock \in {"connecting", "open"}
    /\ sock' = "closing"
    /\ conn' = IF conn = "opening" THEN "failed" ELSE conn
    /\ owed' = {}
    /\ UNCHANGED <<sockUnchanged, link, shutVars, rpcVars, closedCallbacks,
                   fires, timer, alive, frameVars>>

(* The close event, whoever closed.                                        *)
SocketClose ==
    /\ \/ sock = "closing"
       \/ sock \in {"connecting", "open"} /\ "drop" \in Faults
    /\ sock' = "closed"
    /\ conn' = IF conn = "opening" THEN "failed" ELSE conn
    /\ owed' = {} /\ wire' = <<>>
    /\ Teardown(explicitlyClosed)
    /\ UNCHANGED <<sockUnchanged, link, explicitlyClosed, alive, decoding>>

(* The far side goes away and no event tells: pod gone, tunnel cut.        *)
LinkDies ==
    /\ "dead" \in Faults
    /\ Reachable
    /\ link' = "dead"
    /\ owed' = {} /\ wire' = <<>> /\ pinged' = FALSE
    /\ UNCHANGED <<sock, conn, shutVars, rpcVars, call, turnVars, cbVars,
                   timer, alive, decoding, userVars, agentVars>>

\* Mutant: a missed pong is only waited for.
KeepWaiting == UNCHANGED <<sock, owed>>

Terminate == sock' = LetGo(sock) /\ owed' = {}

(* Every interval: no pong since the last ping, terminate; else ping.      *)
HeartbeatTick ==
    /\ timer
    /\ IF alive
       THEN /\ alive' = FALSE
            /\ pinged' = Reachable
            /\ UNCHANGED <<sock, owed>>
       ELSE /\ Terminate
            /\ UNCHANGED <<alive, pinged>>
    /\ UNCHANGED <<link, conn, shutVars, rpcVars, call, turnVars, cbVars,
                   timer, frameVars, userVars, agentVars>>

Pong ==
    /\ pinged /\ Reachable
    /\ pinged' = FALSE /\ alive' = TRUE
    /\ UNCHANGED <<netVars, shutVars, rpcVars, call, turnVars, cbVars, timer,
                   frameVars, userVars, owed, agentVars>>

-----------------------------------------------------------------------------
(* The agent at the other end.                                             *)

agentUnchanged == <<netVars, shutVars, rpcVars, call, turnVars, cbVars,
                    beatVars, decoding, userVars>>

\* Loading a session the agent does not have is an error, fault or not.
AnswersTo(r) ==
    LET granted == CASE r.op = "initialize" -> {"ok"}
                     [] r.op = "new"        -> Sessions \ live
                     [] r.op = "load"       -> {"ok"}
                     [] r.op = "list"       -> {"ok", "more"}
                     [] r.op = "prompt"     -> {"ok"}
        refused == IF "refuse" \in Faults
                   THEN {"error"} \cup (IF r.op = "initialize" THEN {"tooNew"} ELSE {})
                   ELSE IF granted = {} THEN {"error"} ELSE {}
    IN  IF r.op = "load" /\ r.sess \notin live
        THEN {"error"} ELSE granted \cup refused

AgentAnswers(r) ==
    /\ Reachable /\ r \in owed
    /\ owed' = owed \ {r}
    /\ answered' = answered \cup {r.id}
    /\ \E v \in AnswersTo(r) :
          /\ wire' = Append(wire, Frame("answer", r.id, v))
          /\ live' = IF v \in Sessions THEN live \cup {v} ELSE live
    /\ UNCHANGED <<agentUnchanged, said, asked>>

(* An answer sent twice; an error, so that taking it would show. Bound: no *)
(* answer is under way when it is (one that overtakes it may follow).      *)
AgentRepeats(i) ==
    /\ "repeat" \in Faults
    /\ Reachable /\ i \in answered
    /\ \A f \in Range(wire) \cup Range(decoding) : f.kind # "answer"
    /\ wire' = Append(wire, Frame("answer", i, "error"))
    /\ UNCHANGED <<agentUnchanged, owed, agentVars>>

AgentUpdates ==
    /\ Reachable /\ said < MaxUpdates /\ 1 \in answered
    /\ said' = said + 1
    /\ wire' = Append(wire, Frame("update", said', "ok"))
    /\ UNCHANGED <<agentUnchanged, owed, answered, live, asked>>

AgentAsks ==
    /\ Reachable /\ asked < MaxAsks /\ 1 \in answered
    /\ asked' = asked + 1
    /\ \E v \in {"ok", "more"} : wire' = Append(wire, Frame("ask", asked', v))
    /\ UNCHANGED <<agentUnchanged, owed, answered, live, said>>

-----------------------------------------------------------------------------
Connect == StartHandshake \/ ConnectDone \/ ConnectRejected \/ ConnectTooNew

UserCalls(c) ==
    \/ NewSession(c) \/ ListSessions(c) \/ Prompt(c) \/ PromptWithoutSession(c)
    \/ \E s \in Sessions : LoadSession(c, s)

Next ==
    \/ Connect
    \/ \E c \in Calls : UserCalls(c) \/ Continuation(c)
    \/ Cancel \/ Close
    \/ \E k \in Watchers : OnClosed(k)
    \/ FrameArrives
    \/ \E k \in DOMAIN decoding : Dispatch(k)
    \/ \E a \in Asks : HandlerAnswers(a)
    \/ SocketError \/ SocketClose \/ LinkDies \/ HeartbeatTick \/ Pong
    \/ \E r \in owed : AgentAnswers(r)
    \/ \E i \in answered : AgentRepeats(i)
    \/ AgentUpdates \/ AgentAsks

Spec == Init /\ [][Next]_vars

(* What the runtime does without being asked: events are delivered, settled*)
(* promises run their continuations, timers tick, a closing socket closes. *)
Fairness ==
    /\ WF_vars(Connect)
    /\ \A c \in Calls : WF_vars(Continuation(c))
    /\ WF_vars(FrameArrives)
    /\ WF_vars(\E k \in DOMAIN decoding : Dispatch(k))
    /\ WF_vars(HeartbeatTick)
    /\ WF_vars(sock = "closing" /\ SocketClose)

FairSpec == Spec /\ Fairness

(* The agent, too, answers whatever reaches it.                            *)
AgentFairness == \A i \in 1..(1 + PageCap * Cardinality(Calls)) :
    WF_vars(\E r \in owed : r.id = i /\ AgentAnswers(r))

FairAgentSpec == FairSpec /\ AgentFairness

-----------------------------------------------------------------------------
(* Properties.                                                             *)

\* The answers on their way to a promise.
Answers == {f \in Range(wire) \cup Range(decoding) : f.kind = "answer"}

TypeSocket ==
    /\ sock \in {"connecting", "open", "closing", "closed"}
    /\ link \in {"up", "dead"}
    /\ conn \in {"opening", "initializing", "connected", "failed"}
    /\ closed \in BOOLEAN /\ explicitlyClosed \in BOOLEAN
    /\ timer \in BOOLEAN /\ alive \in BOOLEAN /\ pinged \in BOOLEAN
    /\ closedCallbacks \subseteq joined /\ joined \subseteq Watchers
    /\ fires \in [Watchers -> Nat]

TypeRpc ==
    /\ promise \in Seq(Promises) /\ pending \subseteq DOMAIN promise
    /\ call \in [Calls -> CallStates]
    /\ \A c \in Calls : call[c].id <= Len(promise)
    /\ owed \subseteq Requests /\ \A r \in owed : r.id \in DOMAIN promise
    /\ answered \subseteq DOMAIN promise

TypeFrames ==
    /\ wire \in Seq(Frames) /\ decoding \in Seq(Frames)
    /\ \A f \in Answers : f.id \in answered

TypeUser ==
    /\ {sessionId, promptSessionId} \subseteq Sessions \cup {NoSession}
    /\ promptActive \in BOOLEAN
    /\ seen \in Seq(Nat) /\ cancels \in Seq(Sessions)
    /\ ask \in [Asks -> {"none", "deciding", "over"}]
    /\ replies \in [Asks -> Nat]
    /\ live \subseteq Sessions
    /\ said \in 0..MaxUpdates /\ asked \in 0..MaxAsks

(* Every variable keeps to its type.                                       *)
TypeOK == TypeSocket /\ TypeRpc /\ TypeFrames /\ TypeUser

(* The pending map holds exactly the unsettled promises: none is lost from *)
(* it (it would never settle), none stays behind (request, settle and      *)
(* teardown each keep the map and the promises in step).                   *)
PendingMap == pending = {i \in DOMAIN promise : promise[i].st = "pending"}

(* A closed session holds nothing: no pending request, no heartbeat timer, *)
(* no callback (whichever of close(), the close event or a failed connect  *)
(* came first).                                                            *)
ClosedHoldsNothing ==
    closed => pending = {} /\ ~timer /\ closedCallbacks = {}

(* An answer v, if it is not an error, is one that call k can go on with.  *)
Fits(k, v) ==
    \/ v = "error"
    \/ k.op = "new" /\ v \in live
    \/ k.op = "load" /\ k.sess \in live
    \/ k.op \in {"list", "prompt"}

(* An answer belongs to the call that awaits its id, from the request the  *)
(* agent holds to the settled promise: ids are never reused, so a late,    *)
(* repeated or overtaken answer cannot reach another call.                 *)
Correlated ==
    /\ \A r \in owed, c \in Calls :
          call[c].id = r.id => call[c].op = r.op /\ call[c].sess = r.sess
    /\ \A f \in Answers, c \in Calls : call[c].id = f.id => Fits(call[c], f.val)
    /\ \A c \in Calls :
          Outcome(call[c].id).st = "fulfilled" =>
             Fits(call[c], Result(c)) /\ Result(c) # "error"

\* What the caller of each request has.
MappedState == [i \in DOMAIN promise |-> promise[i].st]

(* The session keeps JSON-RPC's promise: settled once, by the own answer   *)
(* or by teardown, all at once on closing.                                 *)
Rpc == INSTANCE RpcRequests WITH state <- MappedState, open <- ~closed

RpcSpec == Rpc!Spec

(* The current session and the prompting session are sessions the agent    *)
(* has: a refused or unanswered session/new or session/load selects none.  *)
SessionLives == {sessionId, promptSessionId} \subseteq live \cup {NoSession}

(* The pinned session is never that of a turn that is over, however many   *)
(* turns share the two fields; while a program awaits each turn, they also *)
(* tell whether one is in flight (isPromptActive()).                       *)
TurnVisible ==
    /\ promptActive => \E c \in Turns : promptSessionId = call[c].sess
    /\ OneTurn /\ Turns # {} => promptActive

(* cancel() reaches a turn in flight, if turns are awaited or none ended   *)
(* since the last began: a loadSession meanwhile does not retarget it (the *)
(* comment in prompt()).                                                   *)
CancelReachesTurn ==
    [][cancels' # cancels /\ Turns # {} /\ (OneTurn \/ promptActive) =>
         \E c \in Turns : Last(cancels') = call[c].sess]_vars

(* The agent gets one reply to each request it makes, never two, and none  *)
(* is forgotten while the session is open.                                 *)
OneReply ==
    \A a \in Asks :
       /\ replies[a] <= 1
       /\ replies[a] = 1 => ask[a] = "over"
       /\ ask[a] = "over" /\ ~closed => replies[a] = 1

(* After teardown nothing is sent and no frame is taken in: what still     *)
(* reaches the callbacks was being decoded when the session closed.        *)
QuietAfterClose ==
    [][closed => /\ UNCHANGED <<cancels, replies, promise>>
                 /\ Len(decoding') <= Len(decoding)]_vars

(* onClosed's contract: at most once, only when closed, and a watcher is   *)
(* left uncalled on a closed session only if the client closed it.         *)
WatchersTold ==
    \A k \in Watchers :
       /\ fires[k] <= 1
       /\ fires[k] = 1 => closed
       /\ k \in joined /\ closed /\ fires[k] = 0 => explicitlyClosed

(* An explicit close() calls nobody back, then or later.                   *)
ExplicitCloseIsSilent == [][explicitlyClosed' => UNCHANGED fires]_vars

(* connect() that throws leaves the socket to no one only where the agent  *)
(* refused initialize: a protocol too new closes it, as do socket events.  *)
FailedConnectLetsGo ==
    conn = "failed" /\ sock = "open" =>
       promise[1].st = "rejected" /\ ~explicitlyClosed

(* Text frames reach onUpdate in the order the agent sent them, none       *)
(* skipped, although each waits in an await of its own.                    *)
UpdatesInOrder == ~Blobs => \A j \in DOMAIN seen : seen[j] = j

(* listSessions stops at the cap, and before it only on a last page.       *)
ListStopsAtCap ==
    \A c \in Calls : call[c].op = "list" =>
       /\ call[c].page <= PageCap
       /\ call[c].phase = "done" /\ Result(c) = "more" => call[c].page = PageCap

(* A dead network under a node socket is noticed by the heartbeat.         *)
DeadLinkNoticed == link = "dead" ~> closed

(* With a node socket and an agent that answers, every call comes back,    *)
(* those of a session that has closed or closes as well; and so does       *)
(* connect(), once the socket was open.                                    *)
EveryCallReturns ==
    /\ conn = "initializing" ~> conn # "initializing"
    /\ \A c \in Calls : Waiting(c) ~> ~Waiting(c)
=============================================================================
