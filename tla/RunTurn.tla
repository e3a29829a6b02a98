------------------------------ MODULE RunTurn ------------------------------
(***************************************************************************)
(* What a live run promises the humans who watch it: the agent does its    *)
(* work, may stop to ask questions, and ends once.                         *)
(*                                                                         *)
(* While a question is open the agent does nothing. Each question is       *)
(* closed once, by an answer or by the end of the turn; the outcome is     *)
(* settled when the turn ends and stands.                                  *)
(***************************************************************************)
EXTENDS Naturals

VARIABLES
    active,    \* the turn is under way
    work,      \* how far the agent has come
    asked,     \* questions 1..asked have been put
    open,      \* the questions that wait for an answer
    outcome    \* of the run, as its status tells

vars == <<active, work, asked, open, outcome>>

Init ==
    /\ active = TRUE
    /\ work = 0 /\ asked = 0 /\ open = {}
    /\ outcome = "none"

(* The agent gets on with it, and may be done.                             *)
Work ==
    /\ active /\ open = {}
    /\ work' \in Nat /\ work' > work
    /\ active' \in BOOLEAN
    /\ outcome' = IF active' THEN "none" ELSE "Succeeded"
    /\ UNCHANGED <<asked, open>>

Ask ==
    /\ active
    /\ asked' = asked + 1
    /\ open' = open \cup {asked'}
    /\ UNCHANGED <<active, work, outcome>>

Answer(q) ==
    /\ q \in open
    /\ open' = open \ {q}
    /\ UNCHANGED <<active, work, asked, outcome>>

(* A human ends the turn: by cancelling it, or by answering "stop".        *)
Stop ==
    /\ active
    /\ active' = FALSE
    /\ open' = {}
    /\ outcome' \in {"none", "Failed"}
    /\ UNCHANGED <<work, asked>>

Next == Work \/ Ask \/ (\E q \in open : Answer(q)) \/ Stop

Spec == Init /\ [][Next]_vars
=============================================================================
