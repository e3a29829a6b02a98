---------------------------- MODULE RunTeeProofs ----------------------------
(***************************************************************************)
(* What RunTee guarantees for every number of viewers, steers, cancels and *)
(* ticks, every variant and every transcript.                              *)
(*                                                                         *)
(* The inductive invariant IInv adds to the properties what makes them     *)
(* hold: a question that was not put yet has left no trace (Unasked), and  *)
(* the script's two questions are spent one by one (Script), whatever      *)
(* questions steers put in between. Going, at the end, keeps the stream    *)
(* going through every pause.                                              *)
(***************************************************************************)
EXTENDS RunTee, FiniteSetTheorems, TLAPS

\* A question not yet put was shown to nobody and answered by nobody; a
\* connection not yet made was shown nothing.
Unasked ==
    /\ \A q \in Questions : q > askSeq =>
          completed[q] = 0 /\ \A v \in Viewers : shown[v][q] = 0
    /\ \A v \in Viewers : conn[v] = "fresh" => \A q \in Questions : shown[v][q] = 0

\* What the script has left, and what it took: only its first question is
\* followed up, once it has been put.
Script ==
    /\ askTimer \in {"none", "first"} => askSeq <= picked /\ askFollowUps = {}
    /\ askTimer = "second" => askSeq <= picked + 1 /\ askFollowUps = {}
    /\ askFollowUps # {} => askSeq <= picked + 1
    /\ askSeq <= picked + 2
    /\ \A p, q \in askFollowUps : p = q

\* The outcome is settled by the end of the turn, and the push begins then.
OutcomeOpen == active => phase = "none" /\ ~pushing

IInv == /\ TypeOK /\ PausedWhileAsking /\ EndedHoldsNothing /\ OutcomeOpen
        /\ EveryViewerAsked /\ ResolvedOnce /\ Unasked /\ Script /\ LadderInStep

-----------------------------------------------------------------------------
LEMMA CallsPlayedNat ==
    ASSUME cue \in Nat, NEW k \in Nat PROVE CallsPlayed(k) \in Nat
<1>1. IsFiniteSet((cue + 1)..k)
  BY FS_Interval
<1>2. IsFiniteSet({i \in (cue + 1)..k : Transcript[i] = "calls"})
  BY <1>1, FS_Subset
<1>3. QED  BY <1>2, FS_CardinalityType DEF CallsPlayed

(* The steps, one by one.                                                  *)
LEMMA Steps ==
    ASSUME Next
    PROVE  \/ \E v \in Viewers : Announce(v) \/ Attach(v) \/ Detach(v)
           \/ Tick \/ ToolCompleted \/ (\E k \in DOMAIN Transcript : PlayCues(k))
           \/ PushCompleted \/ ScriptedAsk \/ PickUp \/ CancelTurn
           \/ \E v \in Viewers, q \in Questions,
                 answer \in {"accept", "decline", "stop"} : ResolveAsk(v, q, answer)
           \/ \E v \in Viewers, text \in {"redirect", "pause"} : Steer(v, text)
           \/ \E v \in Viewers : SteerStale(v) \/ Cancel(v)
  BY DEF Next, Timers, FromViewer, Answers

(* A question put by AskHuman.                                             *)
LEMMA AskHumanTypes ==
    ASSUME TypeAsks, TypeViewers, AskHuman
    PROVE  shown' \in [Viewers -> [Questions -> Nat]]
<1>1. CASE active
  BY <1>1 DEF TypeAsks, TypeViewers, AskHuman, MayAsk
<1>2. CASE ~active
  BY <1>2 DEF TypeViewers, AskHuman, MayAsk
<1>3. QED  BY <1>1, <1>2

LEMMA TypePreserved == ASSUME IInv, Next PROVE TypeOK'
<1> USE DEF IInv, TypeOK
<1>1. ASSUME NEW v \in Viewers, Announce(v) \/ Attach(v) \/ Detach(v) PROVE  TypeOK'
  <2>1. TypeFlags'
    BY <1>1 DEF TypeFlags, Announce, Attach, Detach, turnVars, streamVars,
       steerVars, cancelVars, FirstAskDue, askVars
  <2>2. TypeTurn'
    BY <1>1, RunAssumption DEF TypeTurn, Announce, Attach, Detach, turnVars,
       streamVars, steerVars, cancelVars
  <2>3. TypeAsks'
    BY <1>1 DEF TypeAsks, Announce, Attach, Detach, FirstAskDue, askVars
  <2>4. TypeViewers'
    <3>1. CASE Announce(v)
      BY <3>1 DEF TypeViewers, Announce
    <3>2. CASE Detach(v)
      BY <3>2 DEF TypeViewers, Detach, seenVars
    <3>3. CASE Attach(v)
      <4>1. Ladder \in Ladders
        BY DEF Ladder, Ladders, PLAN, TypeTurn
      <4>2. plan' \in [Viewers -> Ladders] /\ conn' \in [Viewers -> {"fresh", "attached", "gone"}]
        BY <3>3, <4>1 DEF TypeViewers, Attach
      <4>3. shown' \in [Viewers -> [Questions -> Nat]]
        BY <3>3 DEF TypeViewers, Attach
      <4>4. QED
        BY <3>3, <4>2, <4>3 DEF TypeViewers, Attach
    <3>4. QED  BY <1>1, <3>1, <3>2, <3>3
  <2>5. QED  BY <2>1, <2>2, <2>3, <2>4
<1>2. CASE Tick \/ ToolCompleted \/ PushCompleted
  <2>1. TypeFlags'
    BY <1>2 DEF TypeFlags, Tick, ToolCompleted, PushCompleted,
       streamUnchanged, turnVars, streamVars, steerVars, cancelVars, askVars
  <2>2. TypeTurn'
    <3>1. CASE Tick
      BY <3>1, RunAssumption DEF TypeTurn, Tick, streamUnchanged, turnVars,
         steerVars, cancelVars
    <3>2. CASE ToolCompleted \/ PushCompleted
      BY <3>2 DEF TypeTurn, ToolCompleted, PushCompleted, turnVars, streamVars,
         steerVars, cancelVars
    <3>3. QED  BY <1>2, <3>1, <3>2
  <2>3. TypeAsks'
    BY <1>2 DEF TypeAsks, Tick, ToolCompleted, PushCompleted,
       streamUnchanged, askVars
  <2>4. TypeViewers'
    BY <1>2 DEF TypeViewers, Tick, ToolCompleted, PushCompleted, SendPlan,
       PLAN, Ladders, viewers, streamUnchanged, seenVars, TypeTurn
  <2>5. QED  BY <2>1, <2>2, <2>3, <2>4
<1>3. ASSUME NEW k \in DOMAIN Transcript, PlayCues(k) PROVE  TypeOK'
  <2>a. k \in Nat /\ k \in 0..Len(Transcript) /\ cue \in Nat
    BY RunAssumption DEF TypeTurn
  <2>0. CallsPlayed(k) \in Nat /\ k \in 0..Len(Transcript)
    BY <2>a, CallsPlayedNat
  <2>1. TypeFlags'
    BY <1>3, <2>0 DEF TypeFlags, PlayCues, EndTurn, MayEnd, OutcomeOf,
       streamUnchanged, turnVars, steerVars, cancelVars, Disarmed, askVars
  <2>2. TypeTurn'
    BY <1>3, <2>0, RunAssumption DEF TypeTurn, PlayCues, EndTurn, MayEnd,
       OutcomeOf, streamUnchanged, turnVars, steerVars, cancelVars
  <2>3. TypeAsks'
    BY <1>3, <2>0 DEF TypeAsks, PlayCues, EndTurn, MayEnd, Disarmed,
       streamUnchanged
  <2>4. TypeViewers'
    BY <1>3, <2>0 DEF TypeViewers, PlayCues, EndTurn, MayEnd, SendPlan,
       PLAN, Ladders, viewers, streamUnchanged, TypeTurn
  <2>5. QED  BY <2>1, <2>2, <2>3, <2>4
<1>4. CASE ScriptedAsk
  <2>1. TypeFlags'
    BY <1>4 DEF TypeFlags, ScriptedAsk, turnVars, streamVars, steerVars,
       cancelVars, AskHuman, MayAsk, askVars
  <2>2. TypeTurn'
    BY <1>4, RunAssumption DEF TypeTurn, ScriptedAsk, turnVars, streamVars,
       steerVars, cancelVars
  <2>3. TypeAsks'
    BY <1>4 DEF TypeAsks, ScriptedAsk, AskHuman, MayAsk
  <2>4. TypeViewers'
    BY <1>4 DEF TypeViewers, ScriptedAsk, AskHuman, MayAsk, viewers
  <2>5. QED  BY <2>1, <2>2, <2>3, <2>4
<1>5. CASE PickUp
  <2>1. TypeFlags'
    BY <1>5 DEF TypeFlags, PickUp, turnVars, streamVars, cancelVars,
       AskHuman, MayAsk, askVars
  <2>2. TypeTurn'
    BY <1>5, RunAssumption DEF TypeTurn, PickUp, turnVars, streamVars,
       cancelVars
  <2>3. TypeAsks'
    BY <1>5 DEF TypeAsks, PickUp, AskHuman, MayAsk
  <2>4. TypeViewers'
    <3>1. CASE AskHuman
      BY <1>5, <3>1, AskHumanTypes DEF TypeViewers, PickUp
    <3>2. CASE UNCHANGED shown
      BY <1>5, <3>2 DEF TypeViewers, PickUp
    <3>3. QED  BY <1>5, <3>1, <3>2 DEF PickUp
  <2>5. QED  BY <2>1, <2>2, <2>3, <2>4
<1>6. CASE CancelTurn
  <2>1. TypeFlags'
    BY <1>6 DEF TypeFlags, CancelTurn, EndTurn, MayEnd, OutcomeOf, turnVars,
       steerVars, Disarmed, askVars
  <2>2. TypeTurn'
    BY <1>6, RunAssumption DEF TypeTurn, CancelTurn, EndTurn, MayEnd,
       OutcomeOf, turnVars, steerVars
  <2>3. TypeAsks'
    BY <1>6 DEF TypeAsks, CancelTurn, EndTurn, MayEnd, Disarmed
  <2>4. TypeViewers'
    BY <1>6 DEF TypeViewers, CancelTurn, EndTurn, MayEnd, SendPlan, PLAN,
       Ladders, viewers, TypeTurn
  <2>5. QED  BY <2>1, <2>2, <2>3, <2>4
<1>7. ASSUME NEW v \in Viewers, NEW q \in Questions,
             NEW answer \in {"accept", "decline", "stop"}, ResolveAsk(v, q, answer)
      PROVE  TypeOK'
  <2>1. TypeFlags'
    BY <1>7 DEF TypeFlags, ResolveAsk, EndTurn, MayEnd, OutcomeOf, turnVars,
       steerVars, cancelVars, Asked, Disarmed, StillPaused, Forget,
       EndedHoldsNothing, askVars
  <2>2. TypeTurn'
    BY <1>7, RunAssumption DEF TypeTurn, ResolveAsk, EndTurn, MayEnd,
       OutcomeOf, turnVars, steerVars, cancelVars
  <2>3. TypeAsks'
    <3>1. CASE answer = "stop"
      <4>1. active
        BY <1>7 DEF ResolveAsk, Asked, EndedHoldsNothing
      <4>2. QED
        BY <1>7, <3>1, <4>1 DEF TypeAsks, ResolveAsk, EndTurn, MayEnd, Disarmed
    <3>2. CASE answer # "stop"
      <4>1. askTimer' \in {"none", "first", "second", "spent"}
        BY <1>7, <3>2 DEF TypeAsks, ResolveAsk
      <4>2. completed' \in [Questions -> Nat] /\ askSeq' = askSeq
        BY <1>7, <3>2 DEF TypeAsks, ResolveAsk
      <4>3. pendingAsks' = pendingAsks \ {q} /\ askFollowUps' = askFollowUps \ {q}
        BY <1>7, <3>2 DEF ResolveAsk, Forget
      <4>4. QED  BY <4>1, <4>2, <4>3 DEF TypeAsks
    <3>3. QED  BY <3>1, <3>2
  <2>4. TypeViewers'
    <3>1. CASE answer = "stop"
      BY <1>7, <3>1 DEF TypeViewers, ResolveAsk, EndTurn, MayEnd, SendPlan, PLAN,
         Ladders, TypeTurn
    <3>2. CASE answer # "stop"
      BY <1>7, <3>2 DEF TypeViewers, ResolveAsk
    <3>3. QED  BY <3>1, <3>2
  <2>5. QED  BY <2>1, <2>2, <2>3, <2>4
<1>8. ASSUME NEW v \in Viewers, NEW text \in {"redirect", "pause"}, Steer(v, text)
      PROVE  TypeOK'
  <2>1. TypeFlags'
    BY <1>8 DEF TypeFlags, Steer, turnVars, streamVars, cancelVars, askVars
  <2>2. TypeTurn'
    BY <1>8, RunAssumption DEF TypeTurn, Steer, turnVars, streamVars,
       cancelVars
  <2>3. TypeAsks'
    BY <1>8 DEF TypeAsks, Steer, askVars
  <2>4. TypeViewers'
    BY <1>8 DEF TypeViewers, Steer, viewers
  <2>5. QED  BY <2>1, <2>2, <2>3, <2>4
<1>9. ASSUME NEW v \in Viewers, SteerStale(v) \/ Cancel(v) PROVE  TypeOK'
  <2>1. TypeFlags'
    BY <1>9 DEF TypeFlags, SteerStale, Cancel, turnVars, streamVars,
       steerVars, cancelVars, askVars
  <2>2. TypeTurn'
    BY <1>9, RunAssumption DEF TypeTurn, SteerStale, Cancel, turnVars,
       streamVars, steerVars, cancelVars
  <2>3. TypeAsks'
    BY <1>9 DEF TypeAsks, SteerStale, Cancel, askVars
  <2>4. TypeViewers'
    BY <1>9 DEF TypeViewers, SteerStale, Cancel, seenVars
  <2>5. QED  BY <2>1, <2>2, <2>3, <2>4
<1> HIDE DEF IInv, TypeOK
<1>10. QED  BY Steps, <1>1, <1>2, <1>3, <1>4, <1>5, <1>6, <1>7, <1>8, <1>9

\* A pause, an end and an outcome go with the questions that are open.
TurnInv == PausedWhileAsking /\ EndedHoldsNothing /\ OutcomeOpen

LEMMA TurnPreserved == ASSUME IInv, Next PROVE TurnInv'
<1> USE DEF IInv, TurnInv, PausedWhileAsking, EndedHoldsNothing, OutcomeOpen
<1>1. ASSUME NEW v \in Viewers, Announce(v) \/ Attach(v) \/ Detach(v) PROVE TurnInv'
  <2>1. UNCHANGED <<active, phase, pushing, paused, pendingAsks, askFollowUps>>
    BY <1>1 DEF Announce, Attach, Detach, turnVars, streamVars, askVars
  <2>2. ~active /\ ~ticker => ~ticker'
    BY <1>1 DEF Announce, Attach, Detach, streamVars
  <2>3. QED  BY <2>1, <2>2
<1>2. CASE Tick \/ ToolCompleted \/ PushCompleted
  BY <1>2 DEF Tick, ToolCompleted, PushCompleted, turnVars, streamVars, askVars
<1>3. ASSUME NEW k \in DOMAIN Transcript, PlayCues(k) PROVE TurnInv'
  BY <1>3 DEF PlayCues, EndTurn, MayEnd, turnVars
<1>4. CASE ScriptedAsk
  BY <1>4 DEF ScriptedAsk, AskHuman, MayAsk, turnVars, streamVars
<1>5. CASE PickUp
  BY <1>5 DEF PickUp, AskHuman, MayAsk, turnVars, streamVars
<1>6. CASE CancelTurn
  BY <1>6 DEF CancelTurn, EndTurn, MayEnd, turnVars
<1>7. ASSUME NEW v \in Viewers, NEW q \in Questions,
             NEW answer \in {"accept", "decline", "stop"}, ResolveAsk(v, q, answer)
      PROVE  TurnInv'
  BY <1>7 DEF ResolveAsk, Asked, EndTurn, MayEnd, StillPaused, Forget, turnVars
<1>8. ASSUME NEW v \in Viewers, NEW text \in {"redirect", "pause"}, Steer(v, text)
      PROVE  TurnInv'
  BY <1>8 DEF Steer, turnVars, streamVars, askVars
<1>9. ASSUME NEW v \in Viewers, SteerStale(v) \/ Cancel(v) PROVE TurnInv'
  BY <1>9 DEF SteerStale, Cancel, turnVars, streamVars, askVars
<1>10. QED  BY Steps, <1>1, <1>2, <1>3, <1>4, <1>5, <1>6, <1>7, <1>8, <1>9

\* Who was asked what, and which questions were answered.
AskedInv == EveryViewerAsked /\ ResolvedOnce /\ Unasked

(* A new question: its number is fresh, everyone attached is asked.        *)
LEMMA AskHumanStep ==
    ASSUME TypeOK, AskedInv, AskHuman, UNCHANGED <<conn, completed>>
    PROVE  AskedInv'
<1>1. CASE ~active
  BY <1>1 DEF AskHuman, MayAsk, AskedInv, EveryViewerAsked, ResolvedOnce, Unasked,
     viewers
<1>2. CASE active
  <2>1. /\ askSeq' = askSeq + 1 /\ pendingAsks' = pendingAsks \cup {askSeq'}
        /\ shown' = [v \in Viewers |-> IF v \in viewers
                       THEN [shown[v] EXCEPT ![askSeq'] = @ + 1] ELSE shown[v]]
    BY <1>2 DEF AskHuman, MayAsk
  <2>2. askSeq \in Nat /\ pendingAsks \subseteq 1..askSeq
        /\ shown \in [Viewers -> [Questions -> Nat]]
    BY DEF TypeOK, TypeAsks, TypeViewers
  <2>3. viewers' = viewers /\ conn' = conn /\ completed' = completed
    BY DEF viewers
  <2>4. ASSUME NEW v \in Viewers, NEW q \in Questions
        PROVE  shown'[v][q] = IF v \in viewers /\ q = askSeq'
                              THEN shown[v][q] + 1 ELSE shown[v][q]
    BY <2>1, <2>2
  <2>5. EveryViewerAsked'
    <3> SUFFICES ASSUME NEW v \in Viewers, NEW q \in Questions
                 PROVE  /\ shown'[v][q] <= 1
                        /\ v \in viewers /\ q \in pendingAsks' => shown'[v][q] = 1
      BY <2>3 DEF EveryViewerAsked
    <3>1. CASE q = askSeq'
      <4>1. shown[v][q] = 0
        BY <3>1, <2>1, <2>2 DEF AskedInv, Unasked
      <4>2. QED  BY <4>1, <3>1, <2>4
    <3>2. CASE q # askSeq'
      BY <3>2, <2>1, <2>4 DEF AskedInv, EveryViewerAsked
    <3>3. QED  BY <3>1, <3>2
  <2>6. ResolvedOnce'
    <3> SUFFICES ASSUME NEW q \in Questions
                 PROVE  completed[q] <= 1 /\ (q \in pendingAsks' => completed[q] = 0)
      BY <2>3 DEF ResolvedOnce
    <3>1. q = askSeq' => completed[q] = 0
      BY <2>1, <2>2 DEF AskedInv, Unasked
    <3>2. QED  BY <3>1, <2>1 DEF AskedInv, ResolvedOnce
  <2>7. Unasked'
    <3>1. ASSUME NEW q \in Questions, q > askSeq'
          PROVE  completed'[q] = 0 /\ \A v \in Viewers : shown'[v][q] = 0
      <4>1. q \in Nat /\ q > askSeq /\ q # askSeq'
        BY <3>1, <2>1, <2>2, RunAssumption DEF Questions
      <4>2. QED  BY <4>1, <2>3, <2>4 DEF AskedInv, Unasked
    <3>2. ASSUME NEW v \in Viewers, conn'[v] = "fresh", NEW q \in Questions
          PROVE  shown'[v][q] = 0
      <4>1. v \notin viewers
        BY <3>2, <2>3 DEF viewers
      <4>2. QED  BY <4>1, <3>2, <2>3, <2>4 DEF AskedInv, Unasked
    <3>3. QED  BY <3>1, <3>2 DEF Unasked
  <2>8. QED  BY <2>5, <2>6, <2>7 DEF AskedInv
<1>3. QED  BY <1>1, <1>2

(* No question put and none answered: at most some were dropped.           *)
LEMMA AskedStutters ==
    ASSUME AskedInv, UNCHANGED <<conn, shown, completed, askSeq>>,
           pendingAsks' \subseteq pendingAsks
    PROVE  AskedInv'
  BY DEF AskedInv, EveryViewerAsked, ResolvedOnce, Unasked, viewers

LEMMA AskedPreserved == ASSUME IInv, Next PROVE AskedInv'
<1>a. AskedInv /\ TypeOK
  BY DEF IInv, AskedInv
<1>1. ASSUME NEW v \in Viewers, Announce(v) PROVE AskedInv'
  BY <1>1, <1>a, AskedStutters DEF Announce, askVars
<1>2. ASSUME NEW v \in Viewers, Detach(v) PROVE AskedInv'
  BY <1>2, <1>a DEF Detach, askVars, seenVars, AskedInv, EveryViewerAsked,
     ResolvedOnce, Unasked, viewers, TypeOK, TypeViewers
<1>3. ASSUME NEW w \in Viewers, Attach(w) PROVE AskedInv'
  <2>1. /\ completed' = completed /\ pendingAsks' = pendingAsks /\ askSeq' = askSeq
        /\ conn[w] = "fresh" /\ conn' = [conn EXCEPT ![w] = "attached"]
    BY <1>3 DEF Attach
  <2>2. ASSUME NEW v \in Viewers, NEW q \in Questions
        PROVE  shown'[v][q] = IF v = w /\ q \in pendingAsks
                              THEN shown[v][q] + 1 ELSE shown[v][q]
    BY <1>3, <1>a DEF Attach, Replayed, TypeOK, TypeViewers
  <2>3. \A q \in Questions : shown[w][q] = 0
    BY <1>a, <2>1 DEF AskedInv, Unasked
  <2>4. \A v \in Viewers \ {w} : conn'[v] = conn[v]
    BY <1>a, <2>1 DEF TypeOK, TypeViewers
  <2>5. EveryViewerAsked'
    BY <1>a, <2>1, <2>2, <2>3, <2>4 DEF AskedInv, EveryViewerAsked, viewers
  <2>6. ResolvedOnce'
    BY <1>a, <2>1 DEF AskedInv, ResolvedOnce
  <2>7. conn'[w] = "attached"
    BY <1>a, <2>1 DEF TypeOK, TypeViewers
  <2>8. \A q \in Questions : q > askSeq => q \notin pendingAsks
    BY <1>a, RunAssumption DEF TypeOK, TypeAsks, Questions
  <2>9. Unasked'
    BY <1>a, <2>1, <2>2, <2>4, <2>7, <2>8 DEF AskedInv, Unasked
  <2>10. QED  BY <2>5, <2>6, <2>9 DEF AskedInv
<1>4. CASE Tick \/ ToolCompleted \/ PushCompleted
  BY <1>4, <1>a, AskedStutters DEF Tick, ToolCompleted, PushCompleted,
     streamUnchanged, askVars, seenVars
<1>5. ASSUME NEW k \in DOMAIN Transcript, PlayCues(k) PROVE AskedInv'
  BY <1>5, <1>a, AskedStutters DEF PlayCues, EndTurn, MayEnd, streamUnchanged
<1>6. CASE ScriptedAsk
  BY <1>6, <1>a, AskHumanStep DEF ScriptedAsk
<1>7. CASE PickUp
  <2>1. CASE AskHuman
    BY <1>7, <2>1, <1>a, AskHumanStep DEF PickUp
  <2>2. CASE UNCHANGED <<askSeq, pendingAsks, paused, shown>>
    BY <1>7, <2>2, <1>a, AskedStutters DEF PickUp
  <2>3. QED  BY <1>7, <2>1, <2>2 DEF PickUp
<1>8. CASE CancelTurn
  BY <1>8, <1>a, AskedStutters DEF CancelTurn, EndTurn, MayEnd
<1>9. ASSUME NEW w \in Viewers, NEW p \in Questions,
             NEW answer \in {"accept", "decline", "stop"}, ResolveAsk(w, p, answer)
      PROVE  AskedInv'
  <2>1. /\ p \in pendingAsks /\ completed' = [completed EXCEPT ![p] = @ + 1]
        /\ UNCHANGED <<conn, shown, askSeq>>
    BY <1>9 DEF ResolveAsk, Asked
  <2>2. pendingAsks' \subseteq pendingAsks \ {p}
    <3>1. active
      BY <2>1 DEF IInv, EndedHoldsNothing
    <3>2. QED  BY <1>9, <3>1 DEF ResolveAsk, EndTurn, MayEnd
  <2>3. completed[p] = 0 /\ p <= askSeq
    BY <1>a, <2>1, RunAssumption DEF AskedInv, ResolvedOnce, TypeOK, TypeAsks,
       Questions
  <2>4. EveryViewerAsked'
    BY <1>a, <2>1, <2>2 DEF AskedInv, EveryViewerAsked, viewers
  <2>5. ResolvedOnce'
    BY <1>a, <2>1, <2>2, <2>3 DEF AskedInv, ResolvedOnce, TypeOK, TypeAsks
  <2>6. \A q \in Questions : q > askSeq => completed'[q] = completed[q]
    <3>1. \A q \in Questions : q > askSeq => q # p
      BY <1>a, <2>3, RunAssumption DEF Questions, TypeOK, TypeAsks
    <3>2. QED  BY <1>a, <2>1, <3>1 DEF TypeOK, TypeAsks
  <2>7. Unasked'
    BY <1>a, <2>1, <2>6 DEF AskedInv, Unasked
  <2>8. QED  BY <2>4, <2>5, <2>7 DEF AskedInv
<1>10. ASSUME NEW v \in Viewers, NEW text \in {"redirect", "pause"}, Steer(v, text)
       PROVE  AskedInv'
  BY <1>10, <1>a, AskedStutters DEF Steer, askVars
<1>11. ASSUME NEW v \in Viewers, SteerStale(v) \/ Cancel(v) PROVE AskedInv'
  BY <1>11, <1>a, AskedStutters DEF SteerStale, Cancel, askVars, seenVars
<1>12. QED
  BY Steps, <1>1, <1>2, <1>3, <1>4, <1>5, <1>6, <1>7, <1>8, <1>9, <1>10, <1>11

-----------------------------------------------------------------------------
LEMMA ScriptStutters ==
    ASSUME Script, UNCHANGED <<askTimer, askFollowUps, askSeq, picked>>
    PROVE  Script'
  BY DEF Script

LEMMA ScriptPreserved == ASSUME IInv, Next PROVE Script'
<1>a. Script /\ picked \in Nat /\ askSeq \in Nat
  BY DEF IInv, TypeOK, TypeTurn, TypeAsks
<1>1. ASSUME NEW v \in Viewers, Announce(v) \/ Detach(v) PROVE Script'
  BY <1>1, <1>a, ScriptStutters DEF Announce, Detach, askVars, steerVars
<1>2. ASSUME NEW v \in Viewers, Attach(v) PROVE Script'
  BY <1>2, <1>a DEF Attach, FirstAskDue, steerVars, Script
<1>3. CASE Tick \/ ToolCompleted \/ PushCompleted
  BY <1>3, <1>a, ScriptStutters DEF Tick, ToolCompleted, PushCompleted,
     streamUnchanged, askVars, steerVars
<1>4. ASSUME NEW k \in DOMAIN Transcript, PlayCues(k) PROVE Script'
  <2>1. askSeq' = askSeq /\ picked' = picked
    BY <1>4 DEF PlayCues, streamUnchanged, steerVars
  <2>2. CASE Transcript[k] = "end"
    BY <1>4, <1>a, <2>1, <2>2 DEF PlayCues, EndTurn, MayEnd, Disarmed, Streaming,
       Script
  <2>3. CASE Transcript[k] # "end"
    BY <1>4, <1>a, <2>1, <2>3 DEF PlayCues, Script
  <2>4. QED  BY <2>2, <2>3
<1>5. CASE ScriptedAsk
  <2>1. picked' = picked /\ askTimer' = "spent" /\ askTimer \in {"first", "second"}
    BY <1>5 DEF ScriptedAsk, steerVars
  <2>2. CASE active
    <3>1. askSeq' = askSeq + 1
      BY <1>5, <2>2 DEF ScriptedAsk, AskHuman, MayAsk
    <3>2. askFollowUps = {}
      BY <1>a, <2>1 DEF Script
    <3>3. askFollowUps' = IF askTimer = "first" THEN {askSeq'} ELSE {}
      BY <1>5, <2>2, <3>2 DEF ScriptedAsk
    <3>4. QED  BY <1>a, <2>1, <3>1, <3>3 DEF Script
  <2>3. CASE ~active
    BY <1>5, <1>a, <2>1, <2>3 DEF ScriptedAsk, AskHuman, MayAsk, Script
  <2>4. QED  BY <2>2, <2>3
<1>6. CASE PickUp
  <2>1. askTimer' = askTimer /\ askFollowUps' = askFollowUps
    BY <1>6 DEF PickUp
  <2>2. CASE active
    <3>1. picked' = picked + 1 /\ askSeq' \in {askSeq, askSeq + 1}
      BY <1>6, <2>2 DEF PickUp, AskHuman, MayAsk
    <3>2. QED  BY <1>a, <2>1, <3>1 DEF Script
  <2>3. CASE ~active
    BY <1>6, <1>a, <2>1, <2>3 DEF PickUp, Script
  <2>4. QED  BY <2>2, <2>3
<1>7. CASE CancelTurn
  <2>1. askSeq' = askSeq /\ picked' = picked
    BY <1>7 DEF CancelTurn, steerVars
  <2>2. QED
    BY <1>7, <1>a, <2>1 DEF CancelTurn, EndTurn, MayEnd, Disarmed, Script
<1>8. ASSUME NEW w \in Viewers, NEW q \in Questions,
             NEW answer \in {"accept", "decline", "stop"}, ResolveAsk(w, q, answer)
      PROVE  Script'
  <2>1. askSeq' = askSeq /\ picked' = picked
    BY <1>8 DEF ResolveAsk, steerVars
  <2>2. active
    BY <1>8 DEF IInv, EndedHoldsNothing, ResolveAsk, Asked
  <2>3. askFollowUps' \subseteq askFollowUps \ {q}
    BY <1>8, <2>2 DEF ResolveAsk, EndTurn, MayEnd, Forget
  <2>4. CASE q \in askFollowUps
    <3>1. askTimer' = "second"
      BY <1>8, <2>4 DEF ResolveAsk
    <3>2. askFollowUps' = {} /\ askSeq <= picked + 1
      BY <1>a, <2>3, <2>4 DEF Script
    <3>3. QED  BY <1>a, <2>1, <3>1, <3>2 DEF Script
  <2>5. CASE q \notin askFollowUps
    <3>1. askTimer' \in {askTimer, Disarmed}
      BY <1>8, <2>5 DEF ResolveAsk
    <3>2. QED  BY <1>a, <2>1, <2>3, <3>1 DEF Script, Disarmed
  <2>6. QED  BY <2>4, <2>5
<1>9. ASSUME NEW v \in Viewers, NEW text \in {"redirect", "pause"}, Steer(v, text)
      PROVE  Script'
  BY <1>9, <1>a, ScriptStutters DEF Steer, askVars
<1>10. ASSUME NEW v \in Viewers, SteerStale(v) \/ Cancel(v) PROVE Script'
  BY <1>10, <1>a, ScriptStutters DEF SteerStale, Cancel, askVars, steerVars
<1>11. QED
  BY Steps, <1>1, <1>2, <1>3, <1>4, <1>5, <1>6, <1>7, <1>8, <1>9, <1>10

-----------------------------------------------------------------------------
LEMMA LadderStutters ==
    ASSUME LadderInStep, UNCHANGED <<conn, plan, turns>>, active' => active
    PROVE  LadderInStep'
  BY DEF LadderInStep, viewers

LEMMA LadderPreserved == ASSUME IInv, Next PROVE LadderInStep'
<1>a. LadderInStep /\ TypeTurn /\ TypeViewers
  BY DEF IInv, TypeOK
<1>1. ASSUME NEW v \in Viewers, Announce(v) PROVE LadderInStep'
  BY <1>1, <1>a, LadderStutters DEF Announce, turnVars, streamVars
<1>2. ASSUME NEW v \in Viewers, Detach(v) PROVE LadderInStep'
  BY <1>2, <1>a DEF Detach, turnVars, streamVars, seenVars, LadderInStep, viewers,
     TypeViewers
<1>3. ASSUME NEW v \in Viewers, Attach(v) PROVE LadderInStep'
  <2>1. active' = active /\ turns' = turns
    BY <1>3 DEF Attach, turnVars
  <2>2. \A w \in Viewers \ {v} : conn'[w] = conn[w] /\ plan'[w] = plan[w]
    BY <1>3, <1>a DEF Attach, TypeViewers
  <2>3. plan'[v] = Ladder
    BY <1>3, <1>a DEF Attach, TypeViewers
  <2>4. QED
    BY <1>a, <2>1, <2>2, <2>3 DEF LadderInStep, Ladder, viewers
<1>4. CASE Tick
  <2>1. conn' = conn /\ SendPlan(PLAN("in_progress", turns', "pending"))
    BY <1>4 DEF Tick, streamUnchanged
  <2>2. QED  BY <2>1 DEF SendPlan, LadderInStep, viewers
<1>5. CASE ToolCompleted
  BY <1>5, <1>a, LadderStutters DEF ToolCompleted, turnVars, seenVars
<1>6. CASE PushCompleted
  BY <1>6 DEF IInv, OutcomeOpen, PushCompleted, turnVars, LadderInStep
<1>7. ASSUME NEW k \in DOMAIN Transcript, PlayCues(k) PROVE LadderInStep'
  <2>1. conn' = conn
    BY <1>7 DEF PlayCues, streamUnchanged
  <2>2. CASE Transcript[k] = "end"
    BY <1>7, <2>2 DEF PlayCues, EndTurn, MayEnd, Streaming, LadderInStep
  <2>3. CASE Transcript[k] # "end"
    <3>1. turns' = turns + CallsPlayed(k)
      BY <1>7 DEF PlayCues
    <3>2. CallsPlayed(k) \in Nat
      <4>1. cue \in Nat /\ k \in Nat
        BY <1>a, RunAssumption DEF TypeTurn
      <4>2. QED  BY <4>1, CallsPlayedNat
    <3>3. CASE turns' > turns
      <4>1. SendPlan(PLAN("in_progress", turns', "pending"))
        BY <1>7, <2>3, <3>3 DEF PlayCues
      <4>2. QED  BY <2>1, <4>1 DEF SendPlan, LadderInStep, viewers
    <3>4. CASE ~(turns' > turns)
      <4>1. turns' = turns
        BY <1>a, <3>1, <3>2, <3>4 DEF TypeTurn
      <4>2. plan' = plan /\ active' = active
        BY <1>7, <2>3, <3>4 DEF PlayCues, turnVars
      <4>3. QED  BY <1>a, <2>1, <4>1, <4>2, LadderStutters
    <3>5. QED  BY <3>3, <3>4
  <2>4. QED  BY <2>2, <2>3
<1>8. CASE ScriptedAsk
  BY <1>8, <1>a, LadderStutters DEF ScriptedAsk, turnVars, streamVars
<1>9. CASE PickUp
  BY <1>9, <1>a, LadderStutters DEF PickUp, turnVars, streamVars
<1>10. CASE CancelTurn
  <2>1. ~active'
    BY <1>10 DEF CancelTurn, EndTurn, MayEnd, turnVars
  <2>2. QED  BY <2>1 DEF LadderInStep
<1>11. ASSUME NEW v \in Viewers, NEW q \in Questions,
              NEW answer \in {"accept", "decline", "stop"}, ResolveAsk(v, q, answer)
       PROVE  LadderInStep'
  <2>1. CASE answer = "stop"
    BY <1>11, <2>1 DEF ResolveAsk, EndTurn, MayEnd, LadderInStep, turnVars
  <2>2. CASE answer # "stop"
    BY <1>11, <1>a, <2>2, LadderStutters DEF ResolveAsk, turnVars
  <2>3. QED  BY <2>1, <2>2
<1>12. ASSUME NEW v \in Viewers, NEW text \in {"redirect", "pause"}, Steer(v, text)
       PROVE  LadderInStep'
  BY <1>12, <1>a, LadderStutters DEF Steer, turnVars, streamVars
<1>13. ASSUME NEW v \in Viewers, SteerStale(v) \/ Cancel(v) PROVE LadderInStep'
  BY <1>13, <1>a, LadderStutters DEF SteerStale, Cancel, turnVars, streamVars,
     seenVars
<1>14. QED
  BY Steps, <1>1, <1>2, <1>3, <1>4, <1>5, <1>6, <1>7, <1>8, <1>9, <1>10, <1>11,
     <1>12, <1>13

-----------------------------------------------------------------------------
(* The strengthened invariant holds in every state.                        *)
THEOREM InductiveInvariant == Spec => []IInv
<1>1. Init => IInv
  <2> SUFFICES ASSUME Init PROVE IInv
    OBVIOUS
  <2>1. TypeFlags /\ TypeViewers
    <3>1. PLAN("pending", 0, "pending") \in Ladders
      BY DEF PLAN, Ladders
    <3>2. QED  BY <3>1 DEF Init, TypeFlags, TypeViewers
  <2>2. TypeTurn
    BY RunAssumption DEF Init, TypeTurn
  <2>3. TypeAsks
    BY DEF Init, TypeAsks
  <2>4. TurnInv
    BY DEF Init, TurnInv, PausedWhileAsking, EndedHoldsNothing, OutcomeOpen
  <2>5. AskedInv
    BY DEF Init, AskedInv, EveryViewerAsked, ResolvedOnce, Unasked
  <2>6. Script
    BY DEF Init, Script
  <2>7. LadderInStep
    BY DEF Init, LadderInStep, viewers
  <2>8. QED
    BY <2>1, <2>2, <2>3, <2>4, <2>5, <2>6, <2>7 DEF IInv, TypeOK, TurnInv, AskedInv
<1>2. IInv /\ [Next]_vars => IInv'
  <2> SUFFICES ASSUME IInv, [Next]_vars PROVE IInv'
    OBVIOUS
  <2>1. CASE Next
    BY <2>1, TypePreserved, TurnPreserved, AskedPreserved, ScriptPreserved,
       LadderPreserved DEF IInv, TurnInv, AskedInv
  <2>2. CASE UNCHANGED vars
    <3>1. TypeOK'
      BY <2>2 DEF IInv, TypeOK, TypeFlags, TypeTurn, TypeAsks, TypeViewers, vars,
         turnVars, streamVars, askVars, steerVars, cancelVars, seenVars
    <3>2. TurnInv' /\ Script'
      BY <2>2 DEF IInv, TurnInv, PausedWhileAsking, EndedHoldsNothing, OutcomeOpen,
         Script, vars, turnVars, streamVars, askVars, steerVars
    <3>3. AskedInv' /\ LadderInStep'
      BY <2>2, AskedStutters, LadderStutters DEF IInv, AskedInv, vars, turnVars,
         streamVars, askVars, seenVars
    <3>4. QED  BY <3>1, <3>2, <3>3 DEF IInv, TurnInv, AskedInv
  <2>3. QED  BY <2>1, <2>2
<1>3. QED  BY <1>1, <1>2, PTL DEF Spec

(* Every variable keeps to its type.                                       *)
THEOREM TypeCorrect == Spec => []TypeOK
  BY InductiveInvariant, PTL DEF IInv

(* The stream is paused exactly while a question is open.                  *)
THEOREM PauseCorrect == Spec => []PausedWhileAsking
  BY InductiveInvariant, PTL DEF IInv

(* Every viewer is asked every open question, and none twice.              *)
THEOREM EveryoneAsked == Spec => []EveryViewerAsked
  BY InductiveInvariant, PTL DEF IInv

(* Of all answers to a question one counts.                                *)
THEOREM OneAnswerCounts == Spec => []ResolvedOnce
  BY InductiveInvariant, PTL DEF IInv

(* The script's two questions are put once, however many viewers come.     *)
THEOREM ScriptCorrect == Spec => []ScriptAskedOnce
<1>1. IInv => ScriptAskedOnce
  BY DEF IInv, Script, ScriptAskedOnce, TypeOK, TypeTurn
<1>2. QED  BY <1>1, InductiveInvariant, PTL

(* A finished turn holds no question, pause or ticker.                     *)
THEOREM EndCorrect == Spec => []EndedHoldsNothing
  BY InductiveInvariant, PTL DEF IInv

(* All viewers see the current ladder while the turn runs.                 *)
THEOREM LadderCorrect == Spec => []LadderInStep
  BY InductiveInvariant, PTL DEF IInv

-----------------------------------------------------------------------------
(* After the end of the turn no timer, answer or cancel has any effect on  *)
(* it: it asks nothing, does nothing and keeps its outcome.                *)
THEOREM EndStands == Spec => EndIsFinal
<1> DEFINE Still == UNCHANGED <<turnVars, askSeq, picked, turns, tick, cue>>
<1>1. ASSUME IInv, ~active, Next PROVE Still
  <2>a. pendingAsks = {}
    BY <1>1 DEF IInv, EndedHoldsNothing
  <2>1. ASSUME NEW v \in Viewers, Announce(v) \/ Attach(v) \/ Detach(v) PROVE Still
    BY <2>1 DEF Announce, Attach, Detach, streamVars, askVars, steerVars
  <2>2. ~Tick /\ \A k \in DOMAIN Transcript : ~PlayCues(k)
    BY <1>1 DEF Tick, PlayCues, Streaming
  <2>3. CASE ToolCompleted \/ PushCompleted
    BY <2>3 DEF ToolCompleted, PushCompleted, streamVars, askVars, steerVars
  <2>4. CASE ScriptedAsk
    BY <1>1, <2>4 DEF ScriptedAsk, AskHuman, MayAsk, streamVars, steerVars
  <2>5. CASE PickUp
    BY <1>1, <2>5 DEF PickUp, streamVars
  <2>6. CASE CancelTurn
    BY <1>1, <2>6 DEF CancelTurn, EndTurn, MayEnd, steerVars
  <2>7. \A v \in Viewers, q \in Questions, answer \in {"accept", "decline", "stop"} :
           ~ResolveAsk(v, q, answer)
    BY <2>a DEF ResolveAsk, Asked
  <2>8. \A v \in Viewers, text \in {"redirect", "pause"} : ~Steer(v, text)
    BY <1>1 DEF Steer, CanSteer
  <2>9. ASSUME NEW v \in Viewers, SteerStale(v) \/ Cancel(v) PROVE Still
    BY <2>9 DEF SteerStale, Cancel, streamVars, askVars, steerVars
  <2>10. QED
    BY <1>1, Steps, <2>1, <2>2, <2>3, <2>4, <2>5, <2>6, <2>7, <2>8, <2>9
<1>2. ASSUME UNCHANGED vars PROVE Still
  BY <1>2 DEF vars, streamVars, askVars, steerVars
<1>3. IInv /\ [Next]_vars => [~active => Still]_vars
  BY <1>1, <1>2
<1>4. QED  BY <1>3, InductiveInvariant, PTL DEF Spec, EndIsFinal

-----------------------------------------------------------------------------
(* The run implements RunTurn.                                             *)

turnUnchanged == UNCHANGED <<turnVars, tick, cue, askSeq, pendingAsks>>

LEMMA TurnStutters == ASSUME turnUnchanged PROVE [Turn!Next]_(Turn!vars)
  BY DEF turnUnchanged, turnVars, Turn!vars

LEMMA AskRefines ==
    ASSUME AskHuman, UNCHANGED <<turnVars, tick, cue>>
    PROVE  [Turn!Next]_(Turn!vars)
<1>1. CASE active
  <2>1. Turn!Ask
    BY <1>1 DEF AskHuman, MayAsk, turnVars, Turn!Ask
  <2>2. QED  BY <2>1 DEF Turn!Next
<1>2. CASE ~active
  <2>1. turnUnchanged
    BY <1>2 DEF AskHuman, MayAsk, turnUnchanged
  <2>2. QED  BY <2>1, TurnStutters
<1>3. QED  BY <1>1, <1>2

LEMMA StepRefines == ASSUME IInv, Next PROVE [Turn!Next]_(Turn!vars)
<1>1. ASSUME NEW v \in Viewers, Announce(v) \/ Attach(v) \/ Detach(v)
      PROVE  turnUnchanged
  BY <1>1 DEF Announce, Attach, Detach, streamVars, askVars, turnUnchanged
<1>2. CASE Tick
  <2>1. tick + cue \in Nat /\ tick' + cue' \in Nat /\ tick' + cue' > tick + cue
    BY <1>2, RunAssumption DEF Tick, IInv, TypeOK, TypeTurn
  <2>2. pendingAsks = {} /\ active
    BY <1>2 DEF Tick, Streaming, IInv, PausedWhileAsking
  <2>3. phase = "none"
    BY <2>2 DEF IInv, OutcomeOpen
  <2>4. active' = active /\ phase' = phase /\ askSeq' = askSeq /\ pendingAsks' = pendingAsks
    BY <1>2 DEF Tick, turnVars, streamUnchanged
  <2>5. Turn!Work
    BY <2>1, <2>2, <2>3, <2>4 DEF Turn!Work
  <2>6. QED  BY <2>5 DEF Turn!Next
<1>3. CASE ToolCompleted \/ PushCompleted
  <2>1. turnUnchanged
    BY <1>3 DEF ToolCompleted, PushCompleted, streamVars, askVars, turnUnchanged
  <2>2. QED  BY <2>1, TurnStutters
<1>4. ASSUME NEW k \in DOMAIN Transcript, PlayCues(k)
      PROVE  [Turn!Next]_(Turn!vars)
  <2>1. tick' = tick /\ cue' = k /\ k > cue /\ askSeq' = askSeq
    BY <1>4 DEF PlayCues, streamUnchanged
  <2>2. tick' + cue' \in Nat /\ tick' + cue' > tick + cue
    BY <2>1, RunAssumption DEF IInv, TypeOK, TypeTurn
  <2>3. pendingAsks = {} /\ active
    BY <1>4 DEF PlayCues, Streaming, IInv, PausedWhileAsking
  <2>4. phase = "none"
    BY <2>3 DEF IInv, OutcomeOpen
  <2>5. pendingAsks' = {}
    BY <1>4, <2>3 DEF PlayCues, EndTurn, MayEnd
  <2>6. \/ active' = FALSE /\ phase' = "Succeeded"
        \/ active' = TRUE /\ phase' = "none"
    BY <1>4, <2>3, <2>4 DEF PlayCues, EndTurn, MayEnd, OutcomeOf, turnVars,
       IInv, TypeOK, TypeFlags
  <2>7. Turn!Work
    BY <2>1, <2>2, <2>3, <2>5, <2>6 DEF Turn!Work
  <2>8. QED  BY <2>7 DEF Turn!Next
<1>5. CASE ScriptedAsk
  BY <1>5, AskRefines DEF ScriptedAsk, streamVars
<1>6. CASE PickUp
  <2>1. UNCHANGED <<turnVars, tick, cue>>
    BY <1>6 DEF PickUp, streamVars
  <2>2. CASE UNCHANGED <<askSeq, pendingAsks, paused, shown>>
    BY <2>1, <2>2, TurnStutters DEF turnUnchanged
  <2>3. QED  BY <1>6, <2>1, <2>2, AskRefines DEF PickUp
<1>7. CASE CancelTurn
  <2>1. UNCHANGED <<tick, cue, askSeq>>
    BY <1>7 DEF CancelTurn
  <2>2. CASE active
    <3>1. Turn!Stop
      BY <1>7, <2>1, <2>2 DEF CancelTurn, EndTurn, MayEnd, OutcomeOf, Turn!Stop
    <3>2. QED  BY <3>1 DEF Turn!Next
  <2>3. CASE ~active
    BY <1>7, <2>1, <2>3, TurnStutters DEF CancelTurn, EndTurn, MayEnd, turnUnchanged
  <2>4. QED  BY <2>2, <2>3
<1>8. ASSUME NEW v \in Viewers, NEW q \in Questions,
             NEW answer \in {"accept", "decline", "stop"}, ResolveAsk(v, q, answer)
      PROVE  [Turn!Next]_(Turn!vars)
  <2>1. UNCHANGED <<tick, cue, askSeq>> /\ q \in pendingAsks
    BY <1>8 DEF ResolveAsk, Asked
  <2>2. active /\ phase = "none"
    BY <2>1 DEF IInv, EndedHoldsNothing, OutcomeOpen
  <2>3. CASE answer = "stop"
    <3>1. Turn!Stop
      BY <1>8, <2>1, <2>2, <2>3 DEF ResolveAsk, EndTurn, MayEnd, OutcomeOf, Turn!Stop
    <3>2. QED  BY <3>1 DEF Turn!Next
  <2>4. CASE answer # "stop"
    <3>1. Turn!Answer(q)
      BY <1>8, <2>1, <2>4 DEF ResolveAsk, turnVars, Turn!Answer
    <3>2. QED  BY <2>1, <3>1 DEF Turn!Next
  <2>5. QED  BY <2>3, <2>4
<1>9. ASSUME NEW v \in Viewers, NEW text \in {"redirect", "pause"}, Steer(v, text)
      PROVE  turnUnchanged
  BY <1>9 DEF Steer, streamVars, askVars, turnUnchanged
<1>10. ASSUME NEW v \in Viewers, SteerStale(v) \/ Cancel(v) PROVE turnUnchanged
  BY <1>10 DEF SteerStale, Cancel, streamVars, askVars, turnUnchanged
<1>11. QED
  BY Steps, TurnStutters, <1>1, <1>2, <1>3, <1>4, <1>5, <1>6, <1>7, <1>8, <1>9, <1>10

(* The run keeps the promise of RunTurn: no work while a question is open, *)
(* each question closed once, one end and one outcome.                     *)
THEOREM Refinement == Spec => TurnSpec
<1>1. Init => Turn!Init
  BY DEF Init, Turn!Init
<1>2. IInv /\ [Next]_vars => [Turn!Next]_(Turn!vars)
  <2>1. ASSUME UNCHANGED vars PROVE turnUnchanged
    BY <2>1 DEF vars, streamVars, askVars, turnUnchanged
  <2>2. QED  BY <2>1, StepRefines, TurnStutters
<1>3. QED  BY <1>1, <1>2, InductiveInvariant, PTL DEF Spec, TurnSpec, Turn!Spec

-----------------------------------------------------------------------------
(* The stream is never stuck.                                              *)

\* Whoever attached to a live turn started its ticker, a turn that has played
\* its last cue is over, and every steer keeps within the bound.
Going ==
    /\ active /\ viewers # {} => ticker
    /\ active /\ Transcript # <<>> => cue < Len(Transcript)
    /\ Len(steers) + picked <= MaxSteers

LEMMA GoingStutters ==
    ASSUME Going, UNCHANGED <<ticker, cue, steers, picked>>, active' => active,
           viewers' \subseteq viewers
    PROVE  Going'
  BY DEF Going

LEMMA GoingPreserved == ASSUME IInv, Going, Next PROVE Going'
<1>a. /\ steers \in Seq({"redirect", "pause"}) /\ picked \in Nat
      /\ cue \in 0..Len(Transcript) /\ active \in BOOLEAN
  BY DEF IInv, TypeOK, TypeTurn, TypeFlags
<1>b. MaxSteers \in Nat /\ Transcript \in Seq(Cues)
  BY RunAssumption
<1>1. ASSUME NEW v \in Viewers, Announce(v) \/ SteerStale(v) \/ Cancel(v) PROVE Going'
  <2>1. conn' = conn /\ UNCHANGED <<ticker, cue, steers, picked, active>>
    BY <1>1 DEF Announce, SteerStale, Cancel, turnVars, streamVars, steerVars
  <2>2. QED  BY <2>1, GoingStutters DEF viewers
<1>2. ASSUME NEW v \in Viewers, Attach(v) PROVE Going'
  <2>1. UNCHANGED <<cue, steers, picked, active>> /\ ticker' = (ticker \/ active)
    BY <1>2 DEF Attach, turnVars, steerVars
  <2>2. QED  BY <2>1 DEF Going
<1>3. ASSUME NEW v \in Viewers, Detach(v) PROVE Going'
  <2>1. UNCHANGED <<ticker, cue, steers, picked, active>>
    BY <1>3 DEF Detach, turnVars, streamVars, steerVars
  <2>2. viewers' \subseteq viewers
    BY <1>3 DEF Detach, viewers, IInv, TypeOK, TypeViewers
  <2>3. QED  BY <2>1, <2>2, GoingStutters
<1>4. CASE Tick \/ ToolCompleted \/ PushCompleted
  <2>1. UNCHANGED <<conn, ticker, cue, steers, picked, active>>
    BY <1>4 DEF Tick, ToolCompleted, PushCompleted, streamUnchanged, turnVars,
       streamVars, steerVars
  <2>2. QED  BY <2>1, GoingStutters DEF viewers
<1>5. ASSUME NEW k \in DOMAIN Transcript, PlayCues(k) PROVE Going'
  <2>1. UNCHANGED <<conn, steers, picked>> /\ cue' = k /\ active
    BY <1>5 DEF PlayCues, streamUnchanged, steerVars, Streaming
  <2>2. CASE Transcript[k] = "end"
    <3>1. active' = FALSE
      BY <1>5, <2>1, <2>2 DEF PlayCues, EndTurn, MayEnd
    <3>2. QED  BY <2>1, <3>1 DEF Going
  <2>3. CASE Transcript[k] # "end"
    <3>1. UNCHANGED <<active, ticker>>
      BY <1>5, <2>3 DEF PlayCues, turnVars
    <3>2. k \in 1..Len(Transcript) /\ k # Len(Transcript)
      BY <1>b, <2>3, RunAssumption
    <3>3. k < Len(Transcript)
      BY <1>b, <3>2
    <3>4. viewers' = viewers
      BY <2>1 DEF viewers
    <3>5. QED  BY <2>1, <3>1, <3>3, <3>4 DEF Going
  <2>4. QED  BY <2>2, <2>3
<1>6. CASE ScriptedAsk
  <2>1. UNCHANGED <<conn, ticker, cue, steers, picked, active>>
    BY <1>6 DEF ScriptedAsk, turnVars, streamVars, steerVars
  <2>2. QED  BY <2>1, GoingStutters DEF viewers
<1>7. CASE PickUp
  <2>1. /\ UNCHANGED <<conn, ticker, cue, active>>
        /\ steers # <<>> /\ steers' = Tail(steers)
        /\ picked' \in {picked, picked + 1}
    BY <1>7 DEF PickUp, turnVars, streamVars
  <2>2. Len(steers') = Len(steers) - 1 /\ Len(steers) \in Nat
    BY <1>a, <2>1
  <2>3. Len(steers') + picked' <= MaxSteers
    BY <1>a, <1>b, <2>1, <2>2 DEF Going
  <2>4. viewers' = viewers
    BY <2>1 DEF viewers
  <2>5. QED  BY <2>1, <2>3, <2>4 DEF Going
<1>8. CASE CancelTurn
  <2>1. UNCHANGED <<conn, cue, steers, picked>>
    BY <1>8 DEF CancelTurn, steerVars
  <2>2. ~active'
    BY <1>8, <1>a DEF CancelTurn, EndTurn, MayEnd, turnVars
  <2>3. QED  BY <2>1, <2>2 DEF Going
<1>9. ASSUME NEW w \in Viewers, NEW q \in Questions,
             NEW answer \in {"accept", "decline", "stop"}, ResolveAsk(w, q, answer)
      PROVE  Going'
  <2>1. UNCHANGED <<conn, cue, steers, picked>>
    BY <1>9 DEF ResolveAsk, steerVars
  <2>2. viewers' = viewers
    BY <2>1 DEF viewers
  <2>3. ~active' \/ UNCHANGED <<active, ticker>>
    BY <1>9, <1>a DEF ResolveAsk, EndTurn, MayEnd, turnVars
  <2>4. QED  BY <2>1, <2>2, <2>3 DEF Going
<1>10. ASSUME NEW v \in Viewers, NEW text \in {"redirect", "pause"}, Steer(v, text)
       PROVE  Going'
  <2>1. /\ UNCHANGED <<conn, ticker, cue, active, picked>>
        /\ Len(steers) + picked < MaxSteers /\ steers' = Append(steers, text)
    BY <1>10 DEF Steer, turnVars, streamVars
  <2>2. Len(steers') = Len(steers) + 1 /\ Len(steers) \in Nat
    BY <1>a, <2>1
  <2>3. Len(steers') + picked' <= MaxSteers
    BY <1>a, <1>b, <2>1, <2>2
  <2>4. viewers' = viewers
    BY <2>1 DEF viewers
  <2>5. QED  BY <2>1, <2>3, <2>4 DEF Going
<1>11. QED
  BY Steps, <1>1, <1>2, <1>3, <1>4, <1>5, <1>6, <1>7, <1>8, <1>9, <1>10

(* A live run with a viewer never waits for nothing: its ticker runs, and  *)
(* either a question is open, which has been put to every viewer and whose *)
(* answer, from any of them, will count; or it is not paused, and has a    *)
(* cue left to play.                                                       *)
NeverStuck ==
    active /\ viewers # {} =>
        /\ ticker
        /\ \/ \E q \in Questions :
                 /\ Asked(q) /\ completed[q] = 0
                 /\ \A v \in viewers : shown[v][q] = 1
           \/ Streaming /\ (Transcript # <<>> => cue < Len(Transcript))

(* attachRunStream, askHuman and resolveAsk keep the stream alive through  *)
(* every pause, whoever comes, goes, answers, steers or cancels.           *)
THEOREM StreamKeptAlive == Spec => []NeverStuck
<1>1. Init => Going
  <2>1. ASSUME Init, Transcript # <<>> PROVE 0 < Len(Transcript)
    BY <2>1, RunAssumption
  <2>2. QED  BY <2>1, RunAssumption DEF Init, Going, viewers
<1>2. IInv /\ Going /\ [Next]_vars => Going'
  <2>1. ASSUME Going, UNCHANGED vars PROVE Going'
    BY <2>1 DEF Going, viewers, vars, turnVars, streamVars, steerVars
  <2>2. QED  BY <2>1, GoingPreserved
<1>3. IInv /\ Going => NeverStuck
  <2> SUFFICES ASSUME IInv, Going, active, viewers # {}
               PROVE  /\ ticker
                      /\ \/ \E q \in Questions :
                               /\ Asked(q) /\ completed[q] = 0
                               /\ \A v \in viewers : shown[v][q] = 1
                         \/ Streaming /\ (Transcript # <<>> => cue < Len(Transcript))
    BY DEF NeverStuck
  <2>1. ticker /\ (Transcript # <<>> => cue < Len(Transcript))
    BY DEF Going
  <2>2. CASE pendingAsks = {}
    <3>1. Streaming
      BY <2>1, <2>2 DEF IInv, PausedWhileAsking, Streaming
    <3>2. QED  BY <2>1, <3>1
  <2>3. CASE pendingAsks # {}
    <3>1. PICK q \in pendingAsks : TRUE
      BY <2>3
    <3>2. q \in Questions
      <4>1. q \in 1..askSeq /\ askSeq \in Nat /\ askSeq <= picked + 2
        BY <3>1 DEF IInv, TypeOK, TypeAsks, Script
      <4>2. Len(steers) \in Nat /\ picked \in Nat
        BY DEF IInv, TypeOK, TypeTurn
      <4>3. picked <= MaxSteers
        BY <4>2, RunAssumption DEF Going
      <4>4. QED  BY <4>1, <4>2, <4>3, RunAssumption DEF Questions
    <3>3. completed[q] = 0
      BY <3>1, <3>2 DEF IInv, ResolvedOnce
    <3>4. \A v \in viewers : shown[v][q] = 1
      BY <3>1, <3>2 DEF IInv, EveryViewerAsked, viewers
    <3>5. QED  BY <2>1, <3>1, <3>2, <3>3, <3>4 DEF Asked
  <2>4. QED  BY <2>2, <2>3
<1>4. QED  BY <1>1, <1>2, <1>3, InductiveInvariant, PTL DEF Spec
=============================================================================
