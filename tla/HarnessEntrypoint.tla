-------------------------- MODULE HarnessEntrypoint --------------------------
(***************************************************************************)
(* The goose harness's start script (harness-goose/entrypoint.sh), in a    *)
(* pod whose container can be killed at any point and, if its restart      *)
(* policy says so, is started again over the same /workspace: the clone,   *)
(* the hints that the agent reads, and the run or the server that the      *)
(* script ends in.                                                         *)
(*                                                                         *)
(* The hints are a sequence of pieces, one for every text the script       *)
(* writes. Left out: the mapping of provider, model and keys onto goose's  *)
(* environment, which depends on nothing that changes.                     *)
(***************************************************************************)
EXTENDS Naturals, Sequences

CONSTANTS
    Pieces,       \* the texts that the script writes to .goosehints
    Foreign,      \* any other content of it: the repository's, the agent's
    AgentRuns,    \* what the controller may inject: a set of RunTypes
    MaxRestarts   \* bound: restarts of the container

\* repo: the run names a repository; ships: which has hints of its own;
\* text: the prompt, guide and instructions there are, in that order;
\* skills: the heading and the SKILL.md of each skill, in name order.
RunTypes ==
    [repo : BOOLEAN, ships : BOOLEAN, text : Seq(Pieces), skills : Seq(Pieces),
     batch : BOOLEAN, restartPolicy : {"Never", "OnFailure"}]

ASSUME HarnessAssumption ==
    AgentRuns \subseteq RunTypes /\ Foreign \notin Pieces /\ MaxRestarts \in Nat

VARIABLES
    run,        \* the run, for good
    pc,         \* how far the script is
    files,      \* what there is in /workspace, apart from .goosehints
    exists,     \* whether there is a .goosehints
    hints,      \* its pieces
    written,    \* how many of the plan's pieces this start has dealt with
    lost,       \* whether one could not be written at this start
    result,     \* the exit code of this start's `goose run`, 2 before
    phase,      \* of the pod
    restarts

hintVars == <<exists, hints, written, lost>>
podVars  == <<phase, restarts>>
vars == <<run, pc, files, hintVars, result, podVars>>

Init ==
    /\ run \in AgentRuns
    /\ pc = "start" /\ files = "none"
    /\ exists = FALSE /\ hints = <<>> /\ written = 0 /\ lost = FALSE
    /\ result = 2 /\ phase = "Running" /\ restarts = 0

-----------------------------------------------------------------------------
(* 1. Workspace.                                                           *)

EmptyWorkspace == files = "none" /\ ~exists

CloneStarts ==
    /\ pc = "start" /\ run.repo /\ EmptyWorkspace
    /\ pc' = "cloning" /\ files' = "partial"
    /\ UNCHANGED <<run, hintVars, result, podVars>>

CloneSkipped ==
    /\ pc = "start" /\ ~(run.repo /\ EmptyWorkspace)
    /\ pc' = "hints"
    /\ UNCHANGED <<run, files, hintVars, result, podVars>>

(* git removes what it fetched when a clone fails.                         *)
CloneEnds ==
    /\ pc = "cloning" /\ pc' = "hints"
    /\ \/ files' = "none" /\ UNCHANGED <<exists, hints>>
       \/ /\ files' = "repository" /\ exists' = run.ships
          /\ hints' = IF run.ships THEN <<Foreign>> ELSE <<>>
    /\ UNCHANGED <<run, written, lost, result, podVars>>

-----------------------------------------------------------------------------
(* 3. and 4. Hints.                                                        *)

Plan == run.text \o run.skills

\* Mutant: `>>` for `>`.
Kept == hints

Truncated == <<>>

(* `> .goosehints`, when there is a standing text; if the file cannot be   *)
(* opened no part of the text is written.                                  *)
OpenHints ==
    /\ pc = "hints" /\ run.text # <<>> /\ pc' = "fold"
    /\ \/ /\ exists' = TRUE /\ hints' = Truncated
          /\ UNCHANGED <<written, lost>>
       \/ /\ written' = Len(run.text) /\ lost' = TRUE
          /\ UNCHANGED <<exists, hints>>
    /\ UNCHANGED <<run, files, result, podVars>>

NoText ==
    /\ pc = "hints" /\ run.text = <<>> /\ pc' = "fold"
    /\ UNCHANGED <<run, files, hintVars, result, podVars>>

(* One printf or cat. The script goes on when it fails.                    *)
WritePiece ==
    /\ pc = "fold" /\ written < Len(Plan)
    /\ written' = written + 1
    /\ \/ /\ exists' = TRUE /\ hints' = Append(hints, Plan[written'])
          /\ UNCHANGED lost
       \/ /\ exists' \in {exists, TRUE} /\ lost' = TRUE
          /\ UNCHANGED hints
    /\ UNCHANGED <<run, pc, files, result, podVars>>

-----------------------------------------------------------------------------
(* 5. Goose.                                                               *)

StartGoose ==
    /\ pc = "fold" /\ written = Len(Plan)
    /\ pc' = "goose"
    /\ UNCHANGED <<run, files, hintVars, result, podVars>>

(* The agent changes files, its hints too.                                 *)
AgentWorks ==
    /\ pc = "goose"
    /\ files' = "worked"
    /\ \/ exists' = TRUE /\ hints' = <<Foreign>>
       \/ UNCHANGED <<exists, hints>>
    /\ UNCHANGED <<run, pc, written, lost, result, podVars>>

(* `goose run` ends; `goose serve` never does.                             *)
GooseEnds ==
    /\ pc = "goose" /\ run.batch
    /\ pc' = "ended" /\ result' \in {0, 1}
    /\ UNCHANGED <<run, files, hintVars, podVars>>

(* The container ends, and the pod with it unless it is restarted.         *)
ContainerEnds(code) ==
    /\ pc' = "exited"
    /\ phase' = IF code = 0 THEN "Succeeded"
                ELSE IF run.restartPolicy = "Never" THEN "Failed" ELSE "Running"
    /\ UNCHANGED <<run, files, hintVars, result, restarts>>

\* Mutant: the exit code of the log line that follows.
ExitOfLog == pc = "ended" /\ ContainerEnds(0)

ExitRc == pc = "ended" /\ ContainerEnds(result)

-----------------------------------------------------------------------------
(* The node.                                                               *)

Killed == pc # "exited" /\ ContainerEnds(137)

(* A new container, over the files the old one left.                       *)
Restart ==
    /\ pc = "exited" /\ phase = "Running" /\ restarts < MaxRestarts
    /\ restarts' = restarts + 1
    /\ pc' = "start" /\ written' = 0 /\ lost' = FALSE /\ result' = 2
    /\ UNCHANGED <<run, files, exists, hints, phase>>

Script ==
    \/ CloneStarts \/ CloneSkipped \/ CloneEnds
    \/ OpenHints \/ NoText \/ WritePiece
    \/ StartGoose \/ GooseEnds \/ ExitRc

Next == Script \/ AgentWorks \/ Killed \/ Restart

(* The shell goes on, git and `goose run` come to an end.                  *)
Spec == Init /\ [][Next]_vars /\ WF_vars(Script)

-----------------------------------------------------------------------------
(* Properties.                                                             *)

(* Every variable keeps to its type.                                       *)
TypeOK ==
    /\ run \in AgentRuns
    /\ pc \in {"start", "cloning", "hints", "fold", "goose", "ended", "exited"}
    /\ files \in {"none", "partial", "repository", "worked"}
    /\ exists \in BOOLEAN /\ hints \in Seq(Pieces \cup {Foreign})
    /\ written \in 0..Len(Plan) /\ lost \in BOOLEAN
    /\ result \in 0..2
    /\ phase \in {"Running", "Succeeded", "Failed"} /\ restarts \in 0..MaxRestarts

(* However often the container was killed, and whatever it left in the     *)
(* workspace, goose starts with the run's standing text and every skill at *)
(* the end of its hints, once and in order, unless a write failed; and     *)
(* with nothing else in them when there is a standing text.                *)
AgentKnows ==
    [][pc # "goose" /\ pc' = "goose" /\ ~lost =>
          LET before == Len(hints) - Len(Plan) IN
          /\ before >= 0 /\ SubSeq(hints, before + 1, Len(hints)) = Plan
          /\ run.text # <<>> => before = 0]_vars

(* The comment on batch runs: the pod of a run that may not be restarted   *)
(* completes, and succeeds only if `goose run` did.                        *)
StageEnds ==
    run.batch /\ run.restartPolicy = "Never" ~>
       [](phase = "Failed" \/ (phase = "Succeeded" /\ result = 0))
=============================================================================
