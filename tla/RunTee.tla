------------------------------- MODULE RunTee -------------------------------
(***************************************************************************)
(* The tee's side of a live run, as hack/mock-inventory-stack.mjs plays    *)
(* it: one run of STEER_RUNS, its turn, the questions the agent asks, and  *)
(* the viewers who watch, steer, answer and cancel.                        *)
(*                                                                         *)
(* The server is single-threaded: an action is one frame handled or one    *)
(* timer fired. A timer is a flag (or a queue, where several of the same   *)
(* delay may run), and fires when it likes; of the delays only the order   *)
(* of equal ones is kept. A viewer is one connection. It sees what it is   *)
(* sent in order, so "told" it and "it knows" are one; what it sends may   *)
(* be late, so it may send what it once had reason to.                     *)
(*                                                                         *)
(* Left out: texts, usage and notices; the viewer's private session, which *)
(* shares no state with the run; refusals that change nothing (an empty or *)
(* stale run id is modelled by what its answer gives away).                *)
(***************************************************************************)
EXTENDS Naturals, Sequences, FiniteSets

CONSTANTS
    Viewers,      \* connections to the run's ACP endpoint
    Variant,      \* when the run id is announced, or steering "off"
    AskRun,       \* the run asks two scripted questions (ask-run)
    Transcript,   \* its cues, kinds of update; <<>>: the endless ticker
    Patient,      \* viewers who stay
    MaxTicks,     \* bound: steps of the ticker
    MaxSteers,    \* bound: steers accepted
    MaxCancels    \* bound: cancels sent

Cues == {"says", "calls", "end"}

ASSUME RunAssumption ==
    /\ Variant \in {"early", "late", "off"}
    /\ AskRun \in BOOLEAN
    /\ Patient \subseteq Viewers
    /\ Transcript \in Seq(Cues)
    /\ \A i \in DOMAIN Transcript : Transcript[i] = "end" <=> i = Len(Transcript)
    /\ MaxTicks \in Nat /\ MaxSteers \in Nat /\ MaxCancels \in Nat

VARIABLES
    active,       \* the turn is under way
    phase,        \* runOverrides: the phase the run's status was set to
    conn,         \* conn[v]: fresh, attached (in st.viewers) or gone
    turns, tick, cue,
    ticker,       \* the ticker's interval runs
    toolOpen,     \* the last tick's tool call is not completed yet
    pendingAsks, askSeq, askFollowUps, paused,
    askTimer,     \* none; first or second: what it will ask; spent
    completed,    \* completed[q]: how often question q was reported answered
    steers,       \* steers accepted and not picked up, in order
    picked,       \* the number picked up
    cancels, cancelled,   \* cancel timers running; cancels received
    pushing,      \* the final push is under way
    announce,     \* viewers to be told the run id
    \* What the viewers see:
    told,         \* told[v]: the last activeRunId announced to v
    knows,        \* viewers who have the run id, from wherever
    plan,         \* plan[v]: the last ladder sent to v
    shown         \* shown[v][q]: how often v was asked q

turnVars   == <<active, phase>>
streamVars == <<turns, tick, cue, ticker, toolOpen>>
askVars    == <<pendingAsks, askSeq, askFollowUps, paused, askTimer, completed>>
steerVars  == <<steers, picked>>
cancelVars == <<cancels, cancelled>>
seenVars   == <<told, knows, plan, shown>>
vars == <<turnVars, conn, streamVars, askVars, steerVars, cancelVars, pushing,
          announce, seenVars>>

viewers == {v \in Viewers : conn[v] = "attached"}

\* Two scripted questions, and one for each steer that asks for a pause.
Questions == 1..(2 + MaxSteers)

\* A ladder: the agent's rung, the turns used, the push's rung.
PLAN(agent, n, push) == [agent |-> agent, turns |-> n, push |-> push]

Init ==
    /\ active = TRUE /\ phase = "none"
    /\ conn = [v \in Viewers |-> "fresh"]
    /\ turns = 0 /\ tick = 0 /\ cue = 0 /\ ticker = FALSE /\ toolOpen = FALSE
    /\ pendingAsks = {} /\ askSeq = 0 /\ askFollowUps = {} /\ paused = FALSE
    /\ askTimer = "none" /\ completed = [q \in Questions |-> 0]
    /\ steers = <<>> /\ picked = 0
    /\ cancels = 0 /\ cancelled = 0 /\ pushing = FALSE /\ announce = {}
    /\ told = [v \in Viewers |-> "nothing"] /\ knows = {}
    /\ plan = [v \in Viewers |-> PLAN("pending", 0, "pending")]
    /\ shown = [v \in Viewers |-> [q \in Questions |-> 0]]

-----------------------------------------------------------------------------
(* Parts of handlers.                                                      *)

\* runUpdate with a ladder: to every viewer attached.
SendPlan(p) == plan' = [v \in Viewers |-> IF v \in viewers THEN p ELSE plan[v]]

\* Mutant: the guard of askHuman is gone.
AlwaysAsks == TRUE

MayAsk == active

(* askHuman: the question goes to everyone, and the stream stops.          *)
AskHuman ==
    IF ~MayAsk THEN UNCHANGED <<askSeq, pendingAsks, paused, shown>>
    ELSE /\ askSeq' = askSeq + 1
         /\ pendingAsks' = pendingAsks \cup {askSeq'}
         /\ paused' = TRUE
         /\ shown' = [v \in Viewers |-> IF v \in viewers
                        THEN [shown[v] EXCEPT ![askSeq'] = @ + 1] ELSE shown[v]]

OutcomeOf(reason) ==
    IF reason = "finished" THEN "Succeeded"
    ELSE IF reason = "cancelled" THEN "Failed" ELSE phase

MayEnd == active

(* endRunTurn, after n turns; disarming askTimer is left to its callers.   *)
EndTurn(reason, n) ==
    IF ~MayEnd
    THEN UNCHANGED <<turnVars, ticker, pendingAsks, askFollowUps, paused, told,
                     plan, pushing>>
    ELSE /\ active' = FALSE
         /\ ticker' = FALSE
         /\ pendingAsks' = {} /\ askFollowUps' = {} /\ paused' = FALSE
         /\ told' = [v \in Viewers |-> IF v \in viewers THEN "null" ELSE told[v]]
         /\ SendPlan(PLAN("completed", n, "in_progress"))
         /\ pushing' = TRUE
         /\ phase' = OutcomeOf(reason)

\* clearTimeout, which leaves st.askTimer set.
Disarmed == IF askTimer = "none" THEN "none" ELSE "spent"

-----------------------------------------------------------------------------
(* Viewers come and go.                                                    *)

\* Mutants: each viewer starts the script; the ladder is the first one; open
\* questions are not replayed.
FirstAskForEach == AskRun /\ active
FirstLadder == PLAN("in_progress", 0, "pending")
NotReplayed(q) == FALSE

FirstAskDue == AskRun /\ askSeq = 0 /\ askTimer = "none" /\ active

Ladder == IF active THEN PLAN("in_progress", turns, "pending")
          ELSE PLAN("completed", turns, "completed")

Replayed(q) == q \in pendingAsks

(* attachRunStream: where the run stands, the open questions, the timers.  *)
Attach(v) ==
    /\ conn[v] = "fresh"
    /\ conn' = [conn EXCEPT ![v] = "attached"]
    /\ plan' = [plan EXCEPT ![v] = Ladder]
    /\ shown' = [shown EXCEPT ![v] =
                   [q \in Questions |-> IF Replayed(q) THEN @[q] + 1 ELSE @[q]]]
    /\ askTimer' = IF FirstAskDue THEN "first" ELSE askTimer
    /\ announce' = IF Variant = "early" /\ active THEN announce \cup {v}
                   ELSE announce
    /\ ticker' = (ticker \/ active)
    /\ UNCHANGED <<turnVars, turns, tick, cue, toolOpen, pendingAsks, askSeq,
                   askFollowUps, paused, completed, steerVars, cancelVars,
                   pushing, told, knows>>

(* The socket's close event. Patient viewers stay.                         *)
Detach(v) ==
    /\ conn[v] = "attached" /\ v \notin Patient
    /\ conn' = [conn EXCEPT ![v] = "gone"]
    /\ UNCHANGED <<turnVars, streamVars, askVars, steerVars, cancelVars, pushing,
                   announce, seenVars>>

(* 800 ms after v attached to a live turn: the run id, if v is still there.*)
Announce(v) ==
    /\ v \in announce
    /\ announce' = announce \ {v}
    /\ told' = IF v \in viewers THEN [told EXCEPT ![v] = "run"] ELSE told
    /\ knows' = IF v \in viewers THEN knows \cup {v} ELSE knows
    /\ UNCHANGED <<turnVars, conn, streamVars, askVars, steerVars, cancelVars,
                   pushing, plan, shown>>

-----------------------------------------------------------------------------
(* The agent's stream.                                                     *)

\* Mutant: the stream does not wait for answers.
StreamsOn == ticker /\ active /\ viewers # {}

Streaming == ticker /\ active /\ ~paused /\ viewers # {}

streamUnchanged == <<conn, askSeq, completed, steerVars, cancelVars, announce,
                     knows, shown>>

(* The endless ticker: a chunk, a tool call, a turn. It is the slower one  *)
(* (6 s), the tool call's completion (1.2 s) is always in between.         *)
Tick ==
    /\ Transcript = <<>> /\ Streaming /\ ~toolOpen /\ tick < MaxTicks
    /\ tick' = tick + 1 /\ toolOpen' = TRUE
    /\ turns' = turns + 1
    /\ SendPlan(PLAN("in_progress", turns', "pending"))
    /\ UNCHANGED <<streamUnchanged, turnVars, cue, ticker, pendingAsks,
                   askFollowUps, paused, askTimer, pushing, told>>

ToolCompleted ==
    /\ toolOpen
    /\ toolOpen' = FALSE
    /\ UNCHANGED <<turnVars, conn, turns, tick, cue, ticker, askVars, steerVars,
                   cancelVars, pushing, announce, seenVars>>

CallsPlayed(k) == Cardinality({i \in (cue + 1)..k : Transcript[i] = "calls"})

(* The transcript's ticker plays the cues that are due, up to k; a "calls" *)
(* advances the turn, and the last cue ends it.                            *)
PlayCues(k) ==
    /\ Streaming /\ k > cue
    /\ cue' = k
    /\ turns' = turns + CallsPlayed(k)
    /\ IF Transcript[k] = "end"
       THEN EndTurn("finished", turns') /\ askTimer' = Disarmed
       ELSE /\ IF turns' > turns THEN SendPlan(PLAN("in_progress", turns', "pending"))
                                 ELSE UNCHANGED plan
            /\ UNCHANGED <<turnVars, ticker, pendingAsks, askFollowUps, paused,
                           askTimer, told, pushing>>
    /\ UNCHANGED <<streamUnchanged, tick, toolOpen>>

(* 700 ms after the end: the push is done.                                 *)
PushCompleted ==
    /\ pushing
    /\ pushing' = FALSE
    /\ SendPlan(PLAN("completed", turns, "completed"))
    /\ UNCHANGED <<turnVars, conn, streamVars, askVars, steerVars, cancelVars,
                   announce, told, knows, shown>>

-----------------------------------------------------------------------------
(* Questions.                                                              *)

(* The scripted questions: the first is followed up by the second.         *)
ScriptedAsk ==
    /\ askTimer \in {"first", "second"}
    /\ askTimer' = "spent"
    /\ AskHuman
    /\ askFollowUps' = IF active /\ askTimer = "first"
                       THEN askFollowUps \cup {askSeq'} ELSE askFollowUps
    /\ UNCHANGED <<turnVars, conn, streamVars, completed, steerVars, cancelVars,
                   pushing, announce, told, knows, plan>>

\* Mutants: a late answer counts; one answer is taken for all; none is enough.
AnyAsk(q) == TRUE
NobodyAsked(open) == FALSE
StaysPaused(open) == TRUE

Asked(q) == q \in pendingAsks

StillPaused(open) == open # {}

Forget(q) == askFollowUps \ {q}

(* resolveAsk: viewer v answers a question it was shown; an answer that is *)
(* late or a duplicate is ignored. "stop" ends the turn, and the follow-up *)
(* is armed all the same.                                                  *)
ResolveAsk(v, q, answer) ==
    /\ v \in viewers /\ shown[v][q] > 0 /\ Asked(q)
    /\ completed' = [completed EXCEPT ![q] = @ + 1]
    /\ IF answer = "stop"
       THEN /\ EndTurn("stopped", turns)
            /\ askTimer' = IF q \in askFollowUps THEN "second" ELSE Disarmed
       ELSE /\ pendingAsks' = pendingAsks \ {q}
            /\ paused' = StillPaused(pendingAsks')
            /\ askFollowUps' = Forget(q)
            /\ askTimer' = IF q \in askFollowUps THEN "second" ELSE askTimer
            /\ UNCHANGED <<turnVars, ticker, pushing, told, plan>>
    /\ UNCHANGED <<conn, turns, tick, cue, toolOpen, askSeq, steerVars,
                   cancelVars, announce, knows, shown>>

-----------------------------------------------------------------------------
(* Steering and cancelling.                                                *)

CanSteer(v) == v \in viewers /\ Variant # "off" /\ active

(* interceptRunFrame, steer with the run id: accepted and queued; every    *)
(* viewer is told, run id included.                                        *)
Steer(v, text) ==
    /\ CanSteer(v) /\ v \in knows
    /\ Len(steers) + picked < MaxSteers
    /\ steers' = Append(steers, text)
    /\ knows' = knows \cup viewers
    /\ UNCHANGED <<turnVars, conn, streamVars, askVars, picked, cancelVars,
                   pushing, announce, told, plan, shown>>

(* A steer with another id is refused, and the refusal names the run's.    *)
SteerStale(v) ==
    /\ CanSteer(v)
    /\ knows' = knows \cup {v}
    /\ UNCHANGED <<turnVars, conn, streamVars, askVars, steerVars, cancelVars,
                   pushing, announce, told, plan, shown>>

(* 3 s later the agent picks it up, or the turn is over. A pause becomes a *)
(* question.                                                               *)
PickUp ==
    /\ steers # <<>>
    /\ steers' = Tail(steers)
    /\ picked' = IF active THEN picked + 1 ELSE picked
    /\ IF active /\ Head(steers) = "pause" THEN AskHuman
       ELSE UNCHANGED <<askSeq, pendingAsks, paused, shown>>
    /\ UNCHANGED <<turnVars, conn, streamVars, askFollowUps, askTimer, completed,
                   cancelVars, pushing, announce, told, knows, plan>>

(* session/cancel for the run session: dropped when steering is off.       *)
Cancel(v) ==
    /\ v \in viewers /\ Variant # "off" /\ cancelled < MaxCancels
    /\ cancels' = cancels + 1 /\ cancelled' = cancelled + 1
    /\ UNCHANGED <<turnVars, conn, streamVars, askVars, steerVars, pushing,
                   announce, seenVars>>

(* 500 ms later.                                                           *)
CancelTurn ==
    /\ cancels > 0
    /\ cancels' = cancels - 1
    /\ EndTurn("cancelled", turns)
    /\ askTimer' = IF active THEN Disarmed ELSE askTimer
    /\ UNCHANGED <<conn, turns, tick, cue, toolOpen, askSeq, completed,
                   steerVars, cancelled, announce, knows, shown>>

-----------------------------------------------------------------------------
Timers ==
    \/ \E v \in Viewers : Announce(v)
    \/ Tick \/ ToolCompleted \/ (\E k \in DOMAIN Transcript : PlayCues(k))
    \/ PushCompleted \/ ScriptedAsk \/ PickUp \/ CancelTurn

Answers(v) == \E q \in Questions, answer \in {"accept", "decline", "stop"} :
                 ResolveAsk(v, q, answer)

FromViewer(v) ==
    \/ Attach(v) \/ Detach(v) \/ Answers(v)
    \/ \E text \in {"redirect", "pause"} : Steer(v, text)
    \/ SteerStale(v) \/ Cancel(v)

Next == Timers \/ \E v \in Viewers : FromViewer(v)

Spec == Init /\ [][Next]_vars

(* Timers fire; patient viewers come, and answer what they are asked.      *)
Fairness ==
    /\ \A v \in Viewers : WF_vars(Announce(v))
    /\ WF_vars(Tick) /\ WF_vars(ToolCompleted)
    /\ WF_vars(\E k \in DOMAIN Transcript : PlayCues(k))
    /\ WF_vars(PushCompleted) /\ WF_vars(ScriptedAsk) /\ WF_vars(PickUp)
    /\ WF_vars(CancelTurn)
    /\ \A v \in Patient : WF_vars(Attach(v)) /\ WF_vars(Answers(v))

FairSpec == Spec /\ Fairness

-----------------------------------------------------------------------------
(* Properties.                                                             *)

Ladders == [agent : {"pending", "in_progress", "completed"}, turns : Nat,
            push : {"pending", "in_progress", "completed"}]

TypeFlags ==
    /\ active \in BOOLEAN /\ ticker \in BOOLEAN /\ toolOpen \in BOOLEAN
    /\ paused \in BOOLEAN /\ pushing \in BOOLEAN

TypeTurn ==
    /\ phase \in {"none", "Succeeded", "Failed"}
    /\ turns \in Nat /\ tick \in 0..MaxTicks /\ cue \in 0..Len(Transcript)
    /\ steers \in Seq({"redirect", "pause"}) /\ picked \in Nat
    /\ cancels \in Nat /\ cancelled \in 0..MaxCancels

TypeAsks ==
    /\ askSeq \in Nat
    /\ pendingAsks \subseteq 1..askSeq /\ askFollowUps \subseteq pendingAsks
    /\ askTimer \in {"none", "first", "second", "spent"}
    /\ completed \in [Questions -> Nat]

TypeViewers ==
    /\ conn \in [Viewers -> {"fresh", "attached", "gone"}]
    /\ announce \subseteq Viewers /\ knows \subseteq Viewers
    /\ told \in [Viewers -> {"nothing", "run", "null"}]
    /\ plan \in [Viewers -> Ladders]
    /\ shown \in [Viewers -> [Questions -> Nat]]

(* Every variable keeps to its type.                                       *)
TypeOK == TypeFlags /\ TypeTurn /\ TypeAsks /\ TypeViewers

(* The stream is paused exactly while a question is open: with several     *)
(* open at once, neither does one answer resume it nor does the last one   *)
(* leave it blocked; ending the turn unblocks it.                          *)
PausedWhileAsking == paused <=> pendingAsks # {}

(* Every viewer, whenever it attached, has every open question before it,  *)
(* and no question twice.                                                  *)
EveryViewerAsked ==
    \A v \in Viewers, q \in Questions :
       /\ shown[v][q] <= 1
       /\ v \in viewers /\ q \in pendingAsks => shown[v][q] = 1

(* Of the answers several viewers give to a question one counts; an open   *)
(* question has had none.                                                  *)
ResolvedOnce ==
    \A q \in Questions :
       /\ completed[q] <= 1
       /\ q \in pendingAsks => completed[q] = 0

(* A finished turn has no open question, nothing to follow up, no ticker   *)
(* and no pause, whoever attaches afterwards.                              *)
EndedHoldsNothing ==
    ~active => pendingAsks = {} /\ askFollowUps = {} /\ ~paused /\ ~ticker

(* Timers that outlive the turn do nothing: no question, step or pick-up   *)
(* after its end, and its outcome stands although cancels still arrive.    *)
EndIsFinal ==
    [][~active => UNCHANGED <<turnVars, askSeq, picked, turns, tick, cue>>]_vars

(* However many viewers come, the script's two questions are put once; the *)
(* others each answer a steer.                                             *)
ScriptAskedOnce == askSeq <= 2 + picked

(* While the turn runs every viewer has the same ladder, the current one.  *)
LadderInStep ==
    \A v \in viewers : active => plan[v] = PLAN("in_progress", turns, "pending")

(* The run implements RunTurn: no work while a question is open, each      *)
(* question closed once, one end and one outcome.                          *)
Turn == INSTANCE RunTurn WITH
           work <- tick + cue, asked <- askSeq, open <- pendingAsks,
           outcome <- phase

TurnSpec == Turn!Spec

(* If one viewer stays and answers, the stream gets through its pauses: a  *)
(* transcript to its end, the endless one as far as the bound lets it.     *)
StreamGoesOn ==
    Patient # {} => <>(~active \/ (Transcript = <<>> /\ tick = MaxTicks))
=============================================================================
