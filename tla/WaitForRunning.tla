--------------------------- MODULE WaitForRunning ---------------------------
(***************************************************************************)
(* waitForRunning of packages/agentic-client/src/contract/index.ts: poll a *)
(* run until it can be connected to, with a deadline and an abort signal.  *)
(*                                                                         *)
(* An action is what JavaScript runs without interruption: up to the await *)
(* of getRun, from its answer to the sleep, a timer, an abort. Time is     *)
(* counted in steps; it does not pass while a timer is due, and getRun     *)
(* answers within Latency (the code sets it no limit).                     *)
(*                                                                         *)
(* Left out: the texts of the errors, and which of sandbox and key a       *)
(* running run still lacks.                                                *)
(***************************************************************************)
EXTENDS Naturals

CONSTANTS
    TimeoutMs,    \* opts.timeoutMs
    PollMs,       \* opts.pollMs; setTimeout takes 0 for 1
    Latency,      \* getRun takes no longer
    Horizon       \* bound: the clock stops here

ASSUME WaitAssumption ==
    /\ TimeoutMs \in Nat /\ PollMs \in Nat \ {0} /\ Latency \in Nat
    /\ Horizon \in Nat /\ Horizon > TimeoutMs + PollMs + Latency

VARIABLES
    now,          \* the clock, 0 when the call is made
    run,          \* the run's status, as the hub has it
    since,        \* when run was last changed
    pc,           \* called, getting, sleeping or done
    asked,        \* when the last getRun was called
    seen,         \* the status it brings, once the hub has read it
    wake,         \* when the sleep is over
    aborted,      \* opts.signal
    abortedAt,    \* when it was
    listeners,    \* of the signal, left by sleep()
    outcome       \* of the promise: none (pending), resolved or an error

signalVars == <<aborted, abortedAt>>
vars == <<now, run, since, pc, asked, seen, wake, signalVars,
          listeners, outcome>>

\* A Running run has its sandbox and key (connectable) or lacks one.
Statuses == {"Pending", "Running", "connectable", "Failed", "Succeeded"}

Init ==
    /\ now = 0 /\ run \in Statuses /\ since = 0
    /\ pc = "called" /\ asked = 0 /\ seen = "none" /\ wake = 0
    /\ aborted \in BOOLEAN /\ abortedAt = 0 /\ listeners = 0
    /\ outcome = "none"

-----------------------------------------------------------------------------
SignalAborts == ~aborted /\ aborted' = TRUE /\ abortedAt' = now

Settle(o) == outcome' = o /\ pc' = "done"

\* Mutant: the signal is not looked at before a request.
NeverAborted == FALSE

MustStop == aborted

(* The top of the loop: throwIfAborted, then getRun.                       *)
Poll ==
    IF MustStop THEN Settle("aborted") /\ UNCHANGED <<asked, seen>>
    ELSE /\ pc' = "getting" /\ asked' = now /\ seen' = "none"
         /\ UNCHANGED outcome

Call ==
    /\ pc = "called"
    /\ Poll
    /\ UNCHANGED <<now, run, since, wake, signalVars, listeners>>

(* The hub serves the request: what it reads may be out of date when it    *)
(* arrives.                                                                *)
HubReads ==
    /\ pc = "getting" /\ seen = "none"
    /\ seen' = run
    /\ UNCHANGED <<now, run, since, pc, asked, wake, signalVars, listeners, outcome>>

\* Mutants of Verdict: the deadline is checked first, or never.
DeadlineFirst(status) ==
    IF now >= TimeoutMs THEN "timeout"
    ELSE IF status = "Failed" THEN "failed"
    ELSE IF status = "connectable" THEN "resolved" ELSE "none"
NoDeadline(status) ==
    IF status = "Failed" THEN "failed"
    ELSE IF status = "connectable" THEN "resolved" ELSE "none"

(* What a status means for the wait, in the order of the code's checks.    *)
Verdict(status) ==
    IF status = "Failed" THEN "failed"
    ELSE IF status = "connectable" THEN "resolved"
    ELSE IF now >= TimeoutMs THEN "timeout" ELSE "none"

(* sleep(): a timer, and a listener (which never fires if the signal has   *)
(* aborted before).                                                        *)
Sleep ==
    /\ pc' = "sleeping" /\ wake' = now + PollMs
    /\ listeners' = listeners + 1
    /\ UNCHANGED outcome

(* getRun resolves; onPhase, told what it brought, may abort the wait.     *)
Answered(abort) ==
    /\ pc = "getting" /\ seen # "none"
    /\ IF abort THEN SignalAborts ELSE UNCHANGED signalVars
    /\ IF Verdict(seen) = "none" THEN Sleep
       ELSE Settle(Verdict(seen)) /\ UNCHANGED <<wake, listeners>>
    /\ UNCHANGED <<now, run, since, asked, seen>>

(* getRun rejects, or onPhase throws.                                      *)
GetRejects ==
    /\ pc = "getting"
    /\ Settle("error")
    /\ UNCHANGED <<now, run, since, asked, seen, wake, signalVars, listeners>>

\* Mutants: the timer leaves its listener; it fires a step late.
KeepsListener == UNCHANGED listeners
OneLate == wake + 1

Unlisten == listeners' = listeners - 1

Due == wake

(* The timer of sleep().                                                   *)
Wake ==
    /\ pc = "sleeping" /\ now >= Due
    /\ Unlisten
    /\ Poll
    /\ UNCHANGED <<now, run, since, wake, signalVars>>

(* The caller aborts: every listener hears of it, once.                    *)
Abort ==
    /\ SignalAborts
    /\ listeners' = 0
    /\ IF pc = "sleeping" /\ listeners > 0 THEN Settle("aborted")
       ELSE UNCHANGED <<pc, outcome>>
    /\ UNCHANGED <<now, run, since, asked, seen, wake>>

-----------------------------------------------------------------------------
\* The controller: a run gets going, may lose its sandbox, and ends.
Becomes(s) ==
    CASE s = "Pending"     -> {"Running", "connectable", "Failed"}
      [] s = "Running"     -> {"connectable", "Failed", "Succeeded"}
      [] s = "connectable" -> {"Running", "Failed", "Succeeded"}
      [] OTHER             -> {}

Controller ==
    /\ run' \in Becomes(run) /\ since' = now
    /\ UNCHANGED <<now, pc, asked, seen, wake, signalVars, listeners, outcome>>

(* Time passes while nothing is due.                                       *)
Tick ==
    /\ \/ pc = "getting" /\ now < asked + Latency
       \/ pc = "sleeping" /\ now < Due
    /\ now < Horizon
    /\ now' = now + 1
    /\ UNCHANGED <<run, since, pc, asked, seen, wake, signalVars, listeners, outcome>>

Next ==
    \/ Call \/ HubReads \/ GetRejects \/ Wake \/ Abort \/ Controller \/ Tick
    \/ \E abort \in BOOLEAN : Answered(abort)

Spec == Init /\ [][Next]_vars

(* Requests are answered or fail, timers fire, time passes.                *)
Fairness ==
    /\ WF_vars(Call) /\ WF_vars(HubReads) /\ WF_vars(Wake) /\ WF_vars(Tick)
    /\ WF_vars(GetRejects \/ \E abort \in BOOLEAN : Answered(abort))

FairSpec == Spec /\ Fairness

-----------------------------------------------------------------------------
(* Properties.                                                             *)

(* Every variable keeps to its type.                                       *)
TypeOK ==
    /\ now \in 0..Horizon /\ asked \in 0..now /\ since \in 0..now
    /\ run \in Statuses /\ seen \in Statuses \cup {"none"}
    /\ pc \in {"called", "getting", "sleeping", "done"}
    /\ wake \in Nat /\ listeners \in Nat
    /\ aborted \in BOOLEAN /\ abortedAt \in 0..now
    /\ outcome \in {"none", "resolved", "failed", "timeout", "error", "aborted"}
    /\ outcome = "none" <=> pc # "done"

(* The deadline is overrun by less than one sleep and one request: the     *)
(* code looks at it only between them.                                     *)
BoundedOverrun == outcome = "none" => now < TimeoutMs + PollMs + Latency

(* An abort is heard: at once in a sleep, and otherwise before the next    *)
(* request, although the sleep before that does not hear it.               *)
AbortHeard == aborted /\ outcome = "none" => now <= abortedAt + Latency + PollMs

(* A sleep's listener does not outlive it, however often the loop goes     *)
(* round, and is there as long as an abort has somebody to wake.           *)
ListenersReleased == listeners = IF pc = "sleeping" THEN 1 ELSE 0

(* A time-out is true: a run that has been connectable since before the    *)
(* last request can have been made is found, not timed out on.             *)
TimeoutIsTrue ==
    outcome = "timeout" /\ run = "connectable" => since + Latency >= TimeoutMs

(* The wait ends, with a result or an error, whatever the run does.        *)
WaitEnds == <>(outcome # "none")

(* It rejects when the signal aborts (the comment on waitForRunning): an   *)
(* aborted wait hands out no run.                                          *)
AbortRejects == [][aborted /\ outcome = "none" => outcome' # "resolved"]_vars
=============================================================================
