----------------------------- MODULE WaitProofs -----------------------------
(***************************************************************************)
(* What waitForRunning guarantees for every time-out, interval and delay.  *)
(*                                                                         *)
(* The bounds follow from what the loop knows where it waits (Waiting): a  *)
(* request is made before TimeoutMs + PollMs and takes Latency at most, a  *)
(* sleep began before TimeoutMs; a signal that has aborted did so during   *)
(* the request, or during the one before the sleep. A time-out is true     *)
(* because the status it rests on was read after the request was made      *)
(* (Fresh).                                                                *)
(***************************************************************************)
EXTENDS WaitForRunning, TLAPS

Waiting ==
    /\ pc = "called" => now = 0 /\ asked = 0 /\ abortedAt = 0
    /\ pc = "getting" =>
          /\ asked < TimeoutMs + PollMs /\ now <= asked + Latency
          /\ aborted => abortedAt >= asked
    /\ pc = "sleeping" =>
          /\ wake < TimeoutMs + PollMs /\ now <= wake
          /\ aborted => wake <= abortedAt + Latency + PollMs

\* The status that arrives was right when, or after, it was asked for.
Fresh ==
    /\ pc = "getting" /\ seen # "none" /\ run # seen => since >= asked
    /\ outcome = "timeout" => now >= TimeoutMs

IInv == TypeOK /\ ListenersReleased /\ Waiting /\ Fresh /\ TimeoutIsTrue

USE WaitAssumption

-----------------------------------------------------------------------------
LEMMA Initially == ASSUME Init PROVE IInv
  BY DEF Init, IInv, TypeOK, Statuses, ListenersReleased, Waiting, Fresh, TimeoutIsTrue

LEMMA TypePreserved == ASSUME TypeOK, ListenersReleased, Next PROVE TypeOK'
<1> USE DEF TypeOK, signalVars, Settle
<1>1. ASSUME Call PROVE TypeOK'
  BY <1>1 DEF Call, Poll
<1>2. ASSUME HubReads PROVE TypeOK'
  BY <1>2 DEF HubReads, Statuses
<1>3. ASSUME GetRejects PROVE TypeOK'
  BY <1>3 DEF GetRejects
<1>4. ASSUME Wake PROVE TypeOK'
  BY <1>4 DEF Wake, Unlisten, Poll, ListenersReleased
<1>5. ASSUME Abort PROVE TypeOK'
  BY <1>5 DEF Abort, SignalAborts
<1>6. ASSUME Controller PROVE TypeOK'
  BY <1>6 DEF Controller, Becomes, Statuses
<1>7. ASSUME Tick PROVE TypeOK'
  BY <1>7 DEF Tick
<1>8. ASSUME NEW abort \in BOOLEAN, Answered(abort) PROVE TypeOK'
  <2>1. now' = now
    BY <1>8 DEF Answered
  <2>2. abortedAt' \in 0..now'
    BY <1>8, <2>1 DEF Answered, SignalAborts
  <2>3. aborted' \in BOOLEAN
    BY <1>8, Zenon DEF Answered, SignalAborts
  <2>4. Verdict(seen) \in {"none", "failed", "resolved", "timeout"}
    BY DEF Verdict
  <2>5. CASE Verdict(seen) = "none"
    BY <1>8, <2>2, <2>3, <2>5 DEF Answered, Sleep
  <2>6. CASE Verdict(seen) # "none"
    <3>1. outcome' = Verdict(seen) /\ pc' = "done"
      BY <1>8, <2>6 DEF Answered
    <3>2. UNCHANGED <<now, run, since, asked, seen, wake, listeners>>
      BY <1>8, <2>6 DEF Answered
    <3>3. QED  BY <2>2, <2>3, <2>4, <2>6, <3>1, <3>2
  <2>7. QED  BY <2>5, <2>6
<1>9. QED  BY <1>1, <1>2, <1>3, <1>4, <1>5, <1>6, <1>7, <1>8 DEF Next

(* Each step leaves the loop where its bounds hold.                        *)
LEMMA InvPreserved ==
    ASSUME IInv, Next
    PROVE  ListenersReleased' /\ Waiting' /\ Fresh' /\ TimeoutIsTrue'
<1> USE DEF IInv, TypeOK, ListenersReleased, Waiting, Fresh, TimeoutIsTrue, signalVars,
        Settle
<1> DEFINE Goal == ListenersReleased' /\ Waiting' /\ Fresh' /\ TimeoutIsTrue'
<1>1. ASSUME Call PROVE Goal
  BY <1>1 DEF Call, Poll, MustStop
<1>2. ASSUME HubReads PROVE Goal
  BY <1>2 DEF HubReads
<1>3. ASSUME GetRejects PROVE Goal
  BY <1>3 DEF GetRejects
<1>4. ASSUME Wake PROVE Goal
  BY <1>4 DEF Wake, Unlisten, Poll, MustStop, Due
<1>5. ASSUME Abort PROVE Goal
  BY <1>5 DEF Abort, SignalAborts
<1>6. ASSUME Controller PROVE Goal
  BY <1>6 DEF Controller
<1>7. ASSUME Tick PROVE Goal
  BY <1>7 DEF Tick, Due
<1>8. ASSUME NEW abort \in BOOLEAN, Answered(abort) PROVE Goal
  <2>1. CASE Verdict(seen) = "none"
    BY <1>8, <2>1 DEF Answered, SignalAborts, Verdict, Sleep
  <2>2. CASE Verdict(seen) = "timeout"
    BY <1>8, <2>2 DEF Answered, SignalAborts, Verdict
  <2>3. CASE Verdict(seen) \notin {"none", "timeout"}
    BY <1>8, <2>3 DEF Answered, SignalAborts, Verdict
  <2>4. QED  BY <2>1, <2>2, <2>3
<1>9. QED  BY <1>1, <1>2, <1>3, <1>4, <1>5, <1>6, <1>7, <1>8 DEF Next

(* The strengthened invariant holds in every state.                        *)
THEOREM InductiveInvariant == Spec => []IInv
<1>1. IInv /\ [Next]_vars => IInv'
  <2>1. ASSUME IInv, Next PROVE IInv'
    BY <2>1, TypePreserved, InvPreserved DEF IInv
  <2>2. ASSUME IInv, UNCHANGED vars PROVE IInv'
    BY <2>2 DEF IInv, vars, signalVars, TypeOK, ListenersReleased, Waiting, Fresh,
       TimeoutIsTrue
  <2>3. QED  BY <2>1, <2>2
<1>2. QED  BY Initially, <1>1, PTL DEF Spec

(* Every variable keeps to its type.                                       *)
THEOREM TypeCorrect == Spec => []TypeOK
  BY InductiveInvariant, PTL DEF IInv

(* However many times the loop goes round it holds one listener, in sleep. *)
THEOREM NoListenerLeaks == Spec => []ListenersReleased
  BY InductiveInvariant, PTL DEF IInv

(* The deadline is overrun by less than PollMs + Latency.                  *)
THEOREM DeadlineBound == Spec => []BoundedOverrun
<1>1. IInv => BoundedOverrun
  BY DEF IInv, TypeOK, Waiting, BoundedOverrun
<1>2. QED  BY <1>1, InductiveInvariant, PTL

(* An abort ends the wait within Latency + PollMs.                         *)
THEOREM AbortBound == Spec => []AbortHeard
<1>1. IInv => AbortHeard
  BY DEF IInv, TypeOK, Waiting, AbortHeard
<1>2. QED  BY <1>1, InductiveInvariant, PTL

(* A run that was connectable when the last request was made is found.     *)
THEOREM TimeoutSound == Spec => []TimeoutIsTrue
  BY InductiveInvariant, PTL DEF IInv
=============================================================================
