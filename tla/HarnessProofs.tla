---------------------------- MODULE HarnessProofs ----------------------------
(***************************************************************************)
(* What the harness's start script guarantees for any run, any text and    *)
(* skills, and any number of restarts. While nothing was lost, the pieces  *)
(* dealt with at this start are the last ones of the file, and with a      *)
(* standing text the only ones, because it was truncated first (Folded).   *)
(***************************************************************************)
EXTENDS HarnessEntrypoint, TLAPS

Hints == Seq(Pieces \cup {Foreign})

\* The last w elements of h are the first w of p.
EndsWith(h, p, w) ==
    /\ w <= Len(h)
    /\ \A i \in 1..w : h[Len(h) - w + i] = p[i]

\* The pieces of the plan dealt with are the last ones of the hints.
EndsWithWritten == EndsWith(hints, Plan, written)

Folded ==
    /\ pc \in {"start", "cloning", "hints"} => written = 0 /\ ~lost
    /\ pc = "fold" /\ ~lost =>
          /\ EndsWithWritten
          /\ run.text # <<>> => Len(hints) = written

IInv == TypeOK /\ Folded

USE HarnessAssumption

-----------------------------------------------------------------------------
(* The plan is a sequence of pieces.                                       *)
LEMMA PlanType ==
    ASSUME run \in AgentRuns
    PROVE  /\ run \in RunTypes /\ run.text \in Seq(Pieces)
           /\ Plan \in Seq(Pieces) /\ Plan \in Hints
           /\ Len(run.text) \in 0..Len(Plan)
<1>1. run \in RunTypes
  OBVIOUS
<1>2. run.text \in Seq(Pieces) /\ run.skills \in Seq(Pieces)
  BY <1>1 DEF RunTypes
<1>3. Plan \in Seq(Pieces) /\ Len(Plan) = Len(run.text) + Len(run.skills)
  BY <1>2 DEF Plan
<1>4. Plan \in Hints
  BY <1>3 DEF Hints
<1>5. Len(run.text) \in Nat /\ Len(run.skills) \in Nat
  BY <1>2
<1>6. Len(run.text) \in 0..Len(Plan)
  <2>1. ASSUME NEW m \in Nat, NEW n \in Nat PROVE m \in 0..(m + n)
    OBVIOUS
  <2>2. Len(run.text) \in 0..(Len(run.text) + Len(run.skills))
    BY <1>5, <2>1, Zenon
  <2>3. QED  BY <1>3, <2>2, Zenon
<1>7. QED  BY <1>1, <1>2, <1>3, <1>4, <1>6

LEMMA Initially == ASSUME Init PROVE IInv
<1>1. run \in AgentRuns
  BY DEF Init
<1>2. Len(Plan) \in Nat
  BY <1>1, PlanType
<1>3. exists \in BOOLEAN /\ lost \in BOOLEAN
  BY Zenon DEF Init
<1>4. hints \in Seq(Pieces \cup {Foreign}) /\ written \in 0..Len(Plan)
  BY <1>2 DEF Init
<1>5. TypeOK
  BY <1>1, <1>3, <1>4 DEF Init, TypeOK
<1>6. QED  BY <1>5 DEF Init, IInv, Folded

(* The two flags.                                                          *)
LEMMA FlagsPreserved ==
    ASSUME TypeOK, Next PROVE exists' \in BOOLEAN /\ lost' \in BOOLEAN
<1> USE DEF hintVars
<1>1. run.ships \in BOOLEAN /\ exists \in BOOLEAN /\ lost \in BOOLEAN
  BY PlanType DEF TypeOK, RunTypes
<1>2. CASE CloneEnds
  BY <1>1, <1>2, Zenon DEF CloneEnds
<1>3. CASE OpenHints
  BY <1>1, <1>3, Zenon DEF OpenHints
<1>4. CASE WritePiece
  BY <1>1, <1>4, Zenon DEF WritePiece
<1>5. CASE AgentWorks
  BY <1>1, <1>5, Zenon DEF AgentWorks
<1>6. CASE Restart
  BY <1>1, <1>6, Zenon DEF Restart
<1>7. CASE \/ CloneStarts \/ CloneSkipped \/ NoText \/ StartGoose
           \/ GooseEnds \/ ExitRc \/ Killed
  <2>1. exists' = exists /\ lost' = lost
    BY <1>7, Zenon DEF CloneStarts, CloneSkipped, NoText, StartGoose, GooseEnds,
                       ExitRc, Killed, ContainerEnds
  <2>2. QED  BY <1>1, <2>1
<1>8. QED
  BY <1>2, <1>3, <1>4, <1>5, <1>6, <1>7 DEF Next, Script

LEMMA TypePreserved == ASSUME TypeOK, Next PROVE TypeOK'
<1> USE DEF hintVars, podVars
<1> DEFINE Flags == exists' \in BOOLEAN /\ lost' \in BOOLEAN
           Text == /\ hints' \in Seq(Pieces \cup {Foreign})
                   /\ written' \in 0..Len(Plan) /\ run' = run
           Rest == /\ pc' \in {"start", "cloning", "hints", "fold", "goose",
                               "ended", "exited"}
                   /\ files' \in {"none", "partial", "repository", "worked"}
                   /\ result' \in 0..2
                   /\ phase' \in {"Running", "Succeeded", "Failed"}
                   /\ restarts' \in 0..MaxRestarts
<1>1. Flags
  BY FlagsPreserved
<1>2. Plan \in Seq(Pieces) /\ Len(run.text) \in 0..Len(Plan) /\ Len(Plan) \in Nat
  BY PlanType DEF TypeOK
<1>3. /\ hints \in Seq(Pieces \cup {Foreign}) /\ written \in 0..Len(Plan)
      /\ restarts \in 0..MaxRestarts
  BY DEF TypeOK
<1>0. /\ <<Foreign>> \in Seq(Pieces \cup {Foreign})
      /\ <<>> \in Seq(Pieces \cup {Foreign})
  OBVIOUS
<1>4. CASE CloneEnds
  <2>1. /\ hints' \in {hints, <<Foreign>>, <<>>}
        /\ written' = written /\ run' = run
    BY <1>4, Zenon DEF CloneEnds
  <2>2. Text
    BY <1>0, <1>3, <2>1, Zenon
  <2>3. Rest
    BY <1>4 DEF CloneEnds, TypeOK
  <2>4. QED  BY <1>1, <2>2, <2>3 DEF TypeOK, Plan
<1>5. CASE OpenHints
  <2>1. /\ hints' \in {hints, <<>>} /\ run' = run
        /\ written' \in {written, Len(run.text)}
    BY <1>5, Zenon DEF OpenHints, Truncated
  <2>2. Text
    BY <1>0, <1>2, <1>3, <2>1, Zenon
  <2>3. Rest
    BY <1>5 DEF OpenHints, TypeOK
  <2>4. QED  BY <1>1, <2>2, <2>3 DEF TypeOK, Plan
<1>6. CASE WritePiece
  <2>1. written' \in 1..Len(Plan)
    BY <1>2, <1>3, <1>6 DEF WritePiece
  <2>2. Plan[written'] \in Pieces
    BY <1>2, <2>1
  <2>3. hints' \in {hints, Append(hints, Plan[written'])} /\ run' = run
    BY <1>6, Zenon DEF WritePiece
  <2>4. Text
    BY <1>3, <2>1, <2>2, <2>3
  <2>5. Rest
    BY <1>6 DEF WritePiece, TypeOK
  <2>6. QED  BY <1>1, <2>4, <2>5 DEF TypeOK, Plan
<1>7. CASE AgentWorks
  <2>1. /\ hints' \in {hints, <<Foreign>>}
        /\ written' = written /\ run' = run
    BY <1>7, Zenon DEF AgentWorks
  <2>2. Text
    BY <1>0, <1>3, <2>1, Zenon
  <2>3. Rest
    BY <1>7 DEF AgentWorks, TypeOK
  <2>4. QED  BY <1>1, <2>2, <2>3 DEF TypeOK, Plan
<1>8. CASE Restart
  <2>1. Text
    BY <1>2, <1>3, <1>8 DEF Restart
  <2>2. Rest
    BY <1>3, <1>8 DEF Restart, TypeOK
  <2>3. QED  BY <1>1, <2>1, <2>2 DEF TypeOK, Plan
<1>9. CASE \/ CloneStarts \/ CloneSkipped \/ NoText \/ StartGoose
           \/ GooseEnds \/ ExitRc \/ Killed
  <2>1. hints' = hints /\ written' = written /\ run' = run
    BY <1>9 DEF CloneStarts, CloneSkipped, NoText, StartGoose, GooseEnds,
                ExitRc, Killed, ContainerEnds
  <2>2. Text
    BY <1>3, <2>1
  <2>3. Rest
    BY <1>9 DEF CloneStarts, CloneSkipped, NoText, StartGoose, GooseEnds,
                ExitRc, Killed, ContainerEnds, TypeOK
  <2>4. QED  BY <1>1, <2>2, <2>3 DEF TypeOK, Plan
<1>10. QED
  BY <1>4, <1>5, <1>6, <1>7, <1>8, <1>9 DEF Next, Script

(* One more piece at the end of the file.                                  *)
LEMMA OneMore ==
    ASSUME NEW h \in Hints, NEW p \in Hints, NEW w \in Nat, w < Len(p),
           EndsWith(h, p, w)
    PROVE  EndsWith(Append(h, p[w + 1]), p, w + 1)
<1> DEFINE h1 == Append(h, p[w + 1])
<1>0. w <= Len(h) /\ \A i \in 1..w : h[Len(h) - w + i] = p[i]
  BY DEF EndsWith
<1>1. p[w + 1] \in Pieces \cup {Foreign}
  BY DEF Hints
<1>2. Len(h1) = Len(h) + 1 /\ h1[Len(h) + 1] = p[w + 1]
  BY <1>1 DEF Hints
<1>3. ASSUME NEW i \in 1..w PROVE h1[Len(h1) - (w + 1) + i] = p[i]
  <2>1. Len(h) - w + i \in 1..Len(h) /\ Len(h1) - (w + 1) + i = Len(h) - w + i
    BY <1>0, <1>2 DEF Hints
  <2>2. h1[Len(h) - w + i] = h[Len(h) - w + i]
    BY <2>1, <1>1 DEF Hints
  <2>3. QED  BY <1>0, <2>1, <2>2
<1>4. Len(h1) - (w + 1) + (w + 1) = Len(h) + 1
  BY <1>2 DEF Hints
<1>5. ASSUME NEW i \in 1..(w + 1) PROVE h1[Len(h1) - (w + 1) + i] = p[i]
  <2>1. CASE i \in 1..w
    BY <1>3, <2>1
  <2>2. CASE i = w + 1
    BY <1>2, <1>4, <2>2
  <2>3. i \in 1..w \/ i = w + 1
    OBVIOUS
  <2>4. QED  BY <2>1, <2>2, <2>3, Zenon
<1>6. w + 1 <= Len(h1)
  BY <1>0, <1>2 DEF Hints
<1>7. QED  BY <1>5, <1>6 DEF EndsWith

LEMMA FoldedPreserved == ASSUME TypeOK, Folded, Next PROVE Folded'
<1> USE DEF hintVars, podVars, Folded
<1>0. Plan \in Hints /\ hints \in Hints /\ written \in Nat /\ Len(hints) \in Nat
  BY PlanType DEF TypeOK, Hints
<1>1. CASE CloneStarts \/ CloneSkipped \/ CloneEnds
  BY <1>1 DEF CloneStarts, CloneSkipped, CloneEnds
<1>2. CASE OpenHints
  <2>1. pc' = "fold" /\ run' = run /\ written = 0
    BY <1>2 DEF OpenHints
  <2>2. ~lost' => hints' = <<>> /\ written' = 0
    BY <1>2, <2>1 DEF OpenHints, Truncated
  <2>3. QED  BY <2>1, <2>2 DEF EndsWithWritten, EndsWith
<1>3. CASE NoText
  <2>1. /\ pc' = "fold" /\ run' = run /\ run.text = <<>>
        /\ written' = 0 /\ hints' = hints
    BY <1>3 DEF NoText
  <2>2. QED  BY <1>0, <2>1 DEF EndsWithWritten, EndsWith
<1>4. CASE WritePiece
  <2>1. /\ pc = "fold" /\ pc' = "fold" /\ run' = run /\ Plan' = Plan
        /\ written < Len(Plan) /\ written' = written + 1
    BY <1>4 DEF WritePiece, Plan
  <2>2. SUFFICES ASSUME ~lost'
                 PROVE  EndsWithWritten' /\ (run.text # <<>> => Len(hints') = written')
    BY <2>1
  <2>3. ~lost /\ hints' = Append(hints, Plan[written + 1])
    <3>1. ~(lost' = TRUE)
      BY <2>2, Zenon
    <3>2. hints' = Append(hints, Plan[written']) /\ lost' = lost
      BY <1>4, <3>1, Zenon DEF WritePiece
    <3>3. QED  BY <2>1, <2>2, <3>2, Zenon
  <2>4. EndsWithWritten /\ (run.text # <<>> => Len(hints) = written)
    BY <2>1, <2>3
  <2>5. EndsWithWritten'
    <3>1. EndsWith(hints, Plan, written)
      BY <2>4 DEF EndsWithWritten
    <3>2. EndsWith(Append(hints, Plan[written + 1]), Plan, written + 1)
      BY <1>0, <2>1, <3>1, OneMore
    <3>3. EndsWith(hints', Plan', written')
      BY <2>1, <2>3, <3>2, Zenon
    <3>4. QED  BY <3>3 DEF EndsWithWritten, EndsWith
  <2>6. Len(hints') = Len(hints) + 1
    BY <1>0, <2>1, <2>3 DEF Hints
  <2>7. QED  BY <2>1, <2>4, <2>5, <2>6
<1>5. CASE StartGoose \/ GooseEnds \/ AgentWorks
  BY <1>5 DEF StartGoose, GooseEnds, AgentWorks
<1>6. CASE ExitRc \/ Killed
  BY <1>6 DEF ExitRc, Killed, ContainerEnds
<1>7. CASE Restart
  BY <1>7 DEF Restart
<1>8. QED
  BY <1>1, <1>2, <1>3, <1>4, <1>5, <1>6, <1>7 DEF Next, Script

LEMMA Stutters == ASSUME IInv, UNCHANGED vars PROVE IInv'
<1> USE DEF vars, hintVars, podVars
<1>1. TypeOK'
  BY DEF IInv, TypeOK, Plan
<1>2. Folded'
  BY DEF IInv, Folded, EndsWithWritten, EndsWith, Plan
<1>3. QED  BY <1>1, <1>2 DEF IInv

-----------------------------------------------------------------------------
(* The inductive invariant: types, and what the file ends in while the     *)
(* script folds its pieces into it.                                        *)
THEOREM InductiveInvariant == Spec => []IInv
<1>1. Init => IInv
  BY Initially
<1>2. IInv /\ [Next]_vars => IInv'
  BY TypePreserved, FoldedPreserved, Stutters DEF IInv
<1>3. QED  BY <1>1, <1>2, PTL DEF Spec

(* Every variable of the script and its pod keeps to its type.             *)
THEOREM TypeCorrect == Spec => []TypeOK
<1>1. IInv => TypeOK
  BY DEF IInv
<1>2. QED  BY <1>1, InductiveInvariant, PTL

(* At the moment goose starts, the file ends with the whole plan.          *)
LEMMA StartsInformed ==
    ASSUME IInv, Next, pc # "goose", pc' = "goose", ~lost
    PROVE  LET before == Len(hints) - Len(Plan) IN
           /\ before >= 0 /\ SubSeq(hints, before + 1, Len(hints)) = Plan
           /\ run.text # <<>> => before = 0
<1> DEFINE before == Len(hints) - Len(Plan)
<1>0. /\ Plan \in Hints /\ hints \in Hints
      /\ Len(Plan) \in Nat /\ Len(hints) \in Nat
  BY PlanType DEF IInv, TypeOK, Hints
<1>1. pc = "fold" /\ written = Len(Plan)
  BY DEF Next, Script, CloneStarts, CloneSkipped, CloneEnds, OpenHints, NoText,
         WritePiece, StartGoose, GooseEnds, ExitRc, ContainerEnds, AgentWorks,
         Killed, Restart
<1>2. EndsWithWritten /\ (run.text # <<>> => Len(hints) = written)
  BY <1>1 DEF IInv, Folded
<1>3. before \in Nat /\ (run.text # <<>> => before = 0)
  BY <1>0, <1>1, <1>2 DEF EndsWithWritten, EndsWith
<1>4. \A i \in 1..Len(Plan) : hints[before + i] = Plan[i]
  BY <1>0, <1>1, <1>2 DEF EndsWithWritten, EndsWith
<1> DEFINE last == SubSeq(hints, before + 1, Len(hints))
<1>5. /\ last \in Hints /\ Len(last) = Len(Plan)
      /\ \A i \in 1..Len(Plan) : last[i] = hints[before + i]
  BY <1>0, <1>3 DEF Hints
<1>6. last = Plan
  BY <1>0, <1>4, <1>5 DEF Hints
<1>7. QED  BY <1>3, <1>6

(* Whatever the killed containers before it left, goose starts with this   *)
(* start's whole text and skills in its hints.                             *)
THEOREM HintsComplete == Spec => AgentKnows
<1> DEFINE Informed ==
      pc # "goose" /\ pc' = "goose" /\ ~lost =>
          LET before == Len(hints) - Len(Plan) IN
          /\ before >= 0 /\ SubSeq(hints, before + 1, Len(hints)) = Plan
          /\ run.text # <<>> => before = 0
<1>1. IInv /\ [Next]_vars => [Informed]_vars
  BY StartsInformed
<1>2. Spec => [][Informed]_vars
  BY <1>1, InductiveInvariant, PTL DEF Spec
<1>3. QED  BY <1>2 DEF AgentKnows
=============================================================================
