--------------------------- MODULE PrivateSession ---------------------------
(***************************************************************************)
(* One upgraded socket of the mock hub that nothing streams to: speakAcp   *)
(* of hack/mock-inventory-stack.mjs for a run without a tee. The client's  *)
(* frames reach it as bytes in chunks of any size; what it answers at once *)
(* and what it answers by timers. A "flaky" run drops the socket 8 s after *)
(* session/new.                                                            *)
(*                                                                         *)
(* Left out: the wording of answers; their length stands for it.           *)
(***************************************************************************)
EXTENDS WsFrames, SequencesExt, FiniteSets

CONSTANTS
    ClientFrames,  \* what a client may send: [op, payload]
    Mask,          \* the mask it uses: four bytes
    MaxFrames,     \* bound: how many frames it sends
    Method,        \* Method[p]: what the payload p asks for
    Written        \* Written[kind]: the payload of an answer

(* Numbers that Xor takes for bytes; masking twice changes nothing. No     *)
(* length needs more bytes than the longest form has, and an answer fits   *)
(* the two of the mock's frames ("lengths up to 64 KiB are plenty").       *)
ASSUME SessionAssumption ==
    /\ Mask \in Seq(Nat) /\ Len(Mask) = 4
    /\ \A f \in ClientFrames :
          /\ f = [op |-> f.op, payload |-> f.payload]
          /\ f.op \in 0..15 /\ f.payload \in Seq(Nat)
          /\ Upper(Len(f.payload))[Wide] = 0
          /\ f.op = PING => Len(f.payload) < Base * Base
          /\ \A i \in DOMAIN f.payload, j \in DOMAIN Mask :
                /\ Xor(f.payload[i], Mask[j]) \in Nat
                /\ Xor(Xor(f.payload[i], Mask[j]), Mask[j]) = f.payload[i]
    /\ \A kind \in {"chunk", "reply", "result", "error", "close"} :
          Written[kind] \in Seq(Nat) /\ Len(Written[kind]) < Base * Base

VARIABLES
    flaky,      \* behavior === "flaky"
    sent,       \* the frames the client has sent
    pipe,       \* their bytes that have not arrived
    buf,        \* those that have, and are of no complete frame yet
    taken,      \* history: the frames the data handler has taken
    chunkDue,   \* prompts whose 300 ms timer has not fired, oldest first
    replyDue,   \* prompts whose 600 ms timer has not fired
    dropsDue,   \* the number of drop timers set
    told,       \* what was written: [op, payload, kind, to]
    state       \* of the socket: open, ended (by the mock) or closed

sessionVars == <<flaky, sent, pipe, buf, taken, chunkDue, replyDue, dropsDue, told, state>>

Init ==
    /\ flaky \in BOOLEAN
    /\ sent = <<>> /\ pipe = <<>> /\ buf = <<>> /\ taken = <<>>
    /\ chunkDue = <<>> /\ replyDue = <<>> /\ dropsDue = 0
    /\ told = <<>> /\ state = "open"

-----------------------------------------------------------------------------
(* What is written goes nowhere once the socket has ended ("write after    *)
(* end" is an error event, which the upgrade handler ignores).             *)

Text(kind, to) ==
    [op |-> TEXT, payload |-> Written[kind], kind |-> kind, to |-> to]

Control(op, payload) == [op |-> op, payload |-> payload, kind |-> "control", to |-> 0]

Tell(s, frame) == IF s.open THEN [s EXCEPT !.told = Append(@, frame)] ELSE s

(* handle. A request is known by its place among the frames, from.         *)
Handle(s, method, from) ==
    IF method = "session/prompt" THEN
            [Tell(s, Text("chunk", from)) EXCEPT
                !.chunkDue = Append(@, from), !.replyDue = Append(@, from)]
    ELSE IF method = "session/new" THEN
            [Tell(s, Text("result", from)) EXCEPT !.drops = IF flaky THEN @ + 1 ELSE @]
    ELSE IF method = "initialize" THEN Tell(s, Text("result", from))
    ELSE IF method \in {"session/load", "session/steer", "unknown"} THEN
            Tell(s, Text("error", from))
    ELSE s  \* session/cancel, a notification it does not know, no JSON

\* One turn of the data handler's loop. A close ends the loop.
Take(s, f) ==
    LET t == [s EXCEPT !.taken = Append(@, f)] IN
    IF s.stop THEN s
    ELSE IF f.op = CLOSE THEN [Tell(t, Control(CLOSE, Written["close"])) EXCEPT
                                  !.stop = TRUE, !.open = FALSE]
    ELSE IF f.op = PING THEN Tell(t, Control(PONG, f.payload))
    ELSE IF f.op = TEXT THEN Handle(t, Method[f.payload], Len(t.taken))
    ELSE t

\* The whole loop over the frames of a chunk.
TakeAll(s, frames) ==
    LET turn[i \in 0..Len(frames)] == IF i = 0 THEN s ELSE Take(turn[i - 1], frames[i])
    IN  turn[Len(frames)]

\* Mutant: the bytes after a complete frame are forgotten.
RestOfNone(p) == IF p.frames = <<>> THEN p.rest ELSE <<>>

RestOf(p) == p.rest

(* A data event with the first k bytes under way.                          *)
Data(k) ==
    LET p == wsParse(buf \o SubSeq(pipe, 1, k))
        s == TakeAll([taken |-> taken, told |-> told, chunkDue |-> chunkDue,
                      replyDue |-> replyDue, drops |-> dropsDue,
                      open |-> state = "open", stop |-> FALSE], p.frames)
    IN  /\ state # "closed"
        /\ pipe' = SubSeq(pipe, k + 1, Len(pipe))
        /\ buf' = RestOf(p)
        /\ taken' = s.taken /\ told' = s.told
        /\ chunkDue' = s.chunkDue /\ replyDue' = s.replyDue /\ dropsDue' = s.drops
        /\ state' = IF s.open THEN "open" ELSE "ended"
        /\ UNCHANGED <<flaky, sent>>

\* A timer's write.
Late(kind, to) ==
    told' = IF state = "open" THEN Append(told, Text(kind, to)) ELSE told

(* The timers of a prompt; of timers of one length the oldest fires first. *)
ChunkTimer ==
    /\ chunkDue # <<>>
    /\ Late("chunk", Head(chunkDue))
    /\ chunkDue' = Tail(chunkDue)
    /\ UNCHANGED <<flaky, sent, pipe, buf, taken, replyDue, dropsDue, state>>

\* Mutant: the two timers are set for one time, or the wrong way round.
AnyTime(id) == TRUE

\* 600 ms after a prompt its 300 ms are over.
ChunkFired(id) == \A i \in DOMAIN chunkDue : chunkDue[i] # id

ReplyTimer ==
    /\ replyDue # <<>>
    /\ ChunkFired(Head(replyDue))
    /\ Late("reply", Head(replyDue))
    /\ replyDue' = Tail(replyDue)
    /\ UNCHANGED <<flaky, sent, pipe, buf, taken, chunkDue, dropsDue, state>>

(* A flaky run ends the socket without a close frame.                      *)
DropTimer ==
    /\ dropsDue > 0 /\ state # "closed"
    /\ dropsDue' = dropsDue - 1
    /\ state' = "ended"
    /\ UNCHANGED <<flaky, sent, pipe, buf, taken, chunkDue, replyDue, told>>

(* The socket is closed: by the client, or after an end. The drop timer is *)
(* cleared (one that an earlier session/new set is not, but it would end   *)
(* the socket once more and no more); the prompts' timers go on.           *)
SocketCloses ==
    /\ state # "closed" /\ state' = "closed"
    /\ UNCHANGED <<flaky, sent, pipe, buf, taken, chunkDue, replyDue, dropsDue, told>>

(* The client sends a frame; none after a close, nor when it sees the end. *)
ClientSends(f) ==
    /\ state = "open" /\ Len(sent) < MaxFrames
    /\ \A i \in DOMAIN sent : sent[i].op # CLOSE
    /\ sent' = Append(sent, f)
    /\ pipe' = pipe \o Masked(f.op, f.payload, Mask)
    /\ UNCHANGED <<flaky, buf, taken, chunkDue, replyDue, dropsDue, told, state>>

Next ==
    \/ \E f \in ClientFrames : ClientSends(f)
    \/ \E k \in 1..Len(pipe) : Data(k)
    \/ ChunkTimer \/ ReplyTimer \/ DropTimer \/ SocketCloses

(* Timers fire.                                                            *)
Fairness == WF_sessionVars(ChunkTimer) /\ WF_sessionVars(ReplyTimer)

FairSpec == Init /\ [][Next]_sessionVars /\ Fairness

-----------------------------------------------------------------------------
(* Properties.                                                             *)

Stream(frames) ==
    FlattenSeq([i \in DOMAIN frames |-> Masked(frames[i].op, frames[i].payload, Mask)])

\* The number of frames all of whose bytes have arrived.
Arrived ==
    Cardinality({i \in DOMAIN sent :
        Len(Stream(SubSeq(sent, 1, i))) + Len(pipe) <= Len(Stream(sent))})

Output == FlattenSeq([i \in DOMAIN told |-> wsFrame(told[i].op, told[i].payload)])

(* However the bytes are cut into chunks, the frames taken are those the   *)
(* client sent, each when its last byte is there, none twice and none      *)
(* early; and what the mock writes comes apart into the frames it meant.   *)
FramesArrive ==
    /\ taken = SubSeq(sent, 1, Arrived)
    /\ LET p == wsParse(Output) IN
       /\ p.rest = <<>>
       /\ p.frames = [i \in DOMAIN told |-> [op |-> told[i].op, payload |-> told[i].payload]]

IsPrompt(i) ==
    i \in DOMAIN taken /\ taken[i].op = TEXT /\ Method[taken[i].payload] = "session/prompt"

\* The turn of prompt i was streamed and then ended.
Ended(i) ==
    \E a, b, c \in DOMAIN told :
       /\ a < b /\ b < c
       /\ told[a].kind = "chunk" /\ told[b].kind = "chunk" /\ told[c].kind = "reply"
       /\ \A x \in {a, b, c} : told[x].to = i

(* A prompt is answered, after the two pieces of its reply, whatever comes *)
(* in the meantime; unless the socket ends first.                          *)
PromptsEnd ==
    \A i \in 1..MaxFrames : IsPrompt(i) ~> Ended(i) \/ state # "open"
=============================================================================
