-------------------------- MODULE DrawingRefine_proofs -------------------------
(***************************************************************************)
(* Proofs about DrawingRefine, for every set of findings, threshold,       *)
(* number of rounds and of edits: the type invariant, that rounds are      *)
(* whole and quality does not fall when no cancellation lands on a commit  *)
(* or on the rollback of a worse round, and that an edit of another client *)
(* which such a rollback takes away is among the interleaved changes.      *)
(***************************************************************************)
EXTENDS DrawingRefine, FiniteSetTheorems, SequenceTheorems, TLAPS

\* Where the round's transaction is open.
InRound == pc \in {"begun", "next", "repair", "working", "repaired", "judge", "commit", "rollback", "undo"}

\* Where it still is: a commit or rollback that was left has yet to land.
Open == InRound \/ owed \in {"commit", "rollback"}

\* The round's snapshot, in a round.
Snap == stack[Len(stack)]

-------------------------------------------------------------------------------
(* Invariants *)

\* The depth of the stack, the edits left to a repair, and the watch of a guarded apply.
Shape ==
  /\ Open => Len(stack) \in 1..2
  /\ ~Open /\ pc # "done" => Len(stack) <= 1
  /\ pc = "working" => calls < MaxCalls
  /\ guarded /\ pc \notin {"idle", "check", "watch", "done"} => last \in Nat
  /\ owed # None => pc = "done" /\ status \in {"raised", "cancelled"}
  /\ owed = "begin" => Len(stack) <= 1

TypeInv == TypeOK /\ Shape

\* An edit is of a round that has begun.
Had(S) == \A e \in S : e[1] <= round

\* The drawing holds the round r whole.
WholeIn(S, r) == Made(r) \cap S = IF r \in CommittedRounds THEN Made(r) ELSE {}

\* How many rounds have an outcome.
Counted ==
  /\ pc \in {"idle", "check", "watch", "critique", "round", "last"} => Len(rounds) = round
  /\ pc \in {"begin", "committed", "rolled"} \/ Open => Len(rounds) = round - 1 /\ round > 0

\* A worker that was left has an edit of this round, and the handler waits for it,
\* unless its rollback was refused.
LateIs == late # None => /\ late[1] = round
                         /\ pc = "undo" \/ (pc = "done" /\ refused)

\* In a round: our snapshot is on top of the caller's, and is older than the round.
OpenRound ==
  Open =>
    /\ stack = Append(callers, Snap)
    /\ \A e \in Snap.edits : e[1] < round
    /\ \A r \in 1..(round - 1) : WholeIn(Snap.edits, r) /\ WholeIn(drawing.edits, r)
    /\ Made(round) \subseteq drawing.edits

\* Outside one: it is closed, whole or not yet counted.
ClosedRound ==
  ~Open /\ ~refused /\ stray = None =>
    /\ stack = callers
    /\ \A r \in 1..(IF pc = "committed" THEN round - 1 ELSE round) : WholeIn(drawing.edits, r)
    /\ (pc = "committed" => Made(round) \subseteq drawing.edits)
    /\ (pc = "begin" => \A e \in drawing.edits \cup made : e[1] < round)

\* A call of the round's own that was left ends after the request.
OwedIs == owed # None => /\ ~refused /\ late = None /\ stray = None
                         /\ owed # "rollback" => status = "raised"

\* A begin that landed so: one snapshot more, of a round that made nothing.  A commit:
\* the round is kept.
StrayRound ==
  stray # None =>
    /\ pc = "done" /\ owed = None /\ late = None /\ status = "raised" /\ ~refused
    /\ stray = "begin" => /\ callers = SubSeq(stack, 1, Len(stack) - 1)
                          /\ \A r \in 1..round : WholeIn(drawing.edits, r)
    /\ stray = "commit" => /\ stack = callers
                           /\ \A r \in 1..(round - 1) : WholeIn(drawing.edits, r)
                           /\ Made(round) \subseteq drawing.edits

\* Of every round that has begun; a refusal ends the request.
RoundParts ==
  /\ Had(drawing.edits) /\ Had(made)
  /\ refused => pc = "done"
  /\ Counted /\ LateIs /\ OwedIs /\ OpenRound /\ ClosedRound /\ StrayRound

RoundInv == TypeInv /\ RoundParts

\* Left to itself, and with critiques that covered the drawing.
Alone == others = 0 /\ blind = None

NoWorse(S) == Score(S) >= initial.score /\ ErrorsIn(S) <= initial.errors

Begins == pc \in {"idle", "check", "watch", "critique"}

\* What the issues in hand say of the drawing, or of the round's snapshot.
Quality ==
  /\ pc \in {"round", "begin"} => issues = drawing.findings
  /\ InRound \/ owed = "rollback" => Snap.findings = issues
  /\ InRound \/ owed = "rollback" \/ pc \in {"round", "begin", "committed", "rolled"} => NoWorse(issues)
  /\ pc \in {"judge", "commit", "rollback", "committed"} => after = drawing.findings
  /\ pc \in {"commit", "committed"} => ~Worse(issues, after)
  /\ pc \in {"rolled", "last"} => NoWorse(drawing.findings)
  /\ pc = "done" /\ ~refused /\ owed # "rollback" =>
       /\ NoWorse(drawing.findings)
       /\ status = "threshold_met" => Score(drawing.findings) >= min

QualityInv ==
  /\ Begins => initial = None
  /\ pc = "last" => status \in {"rolled_back", "repair_failed"}
  /\ Alone /\ ~Begins /\ initial # None => Quality

\* A change is named by an interleaved move.
Named(p) == \E move \in seen : move[1] < p[2] /\ p[2] <= move[2]

\* One from before the watch.
Old(p) == start # None /\ p[2] <= start /\ p[1] \in drawing.edits /\ (InRound => p[1] \in Snap.edits)

Unwatched == pc \in {"idle", "check", "watch"}
Watched == guarded /\ ~Unwatched

\* Another's edit between our calls is older than the watch, named, or newer than the
\* last revision the watch knows - which it is not while a watched call is under way.
WatchInv ==
  /\ \A p \in outside : p[2] <= rev
  /\ Watched /\ pc # "done" => last <= rev
  /\ Unwatched => \A p \in outside : p[1] \in drawing.edits
  /\ status # None => pc \in {"last", "done"}
  /\ pc \notin {"rolled", "last", "done"} => lost = {}
  /\ Watched /\ pc # "done" => \A p \in outside : Old(p) \/ Named(p) \/ (p[2] > last /\ ~InCall)
  /\ guarded /\ pc = "rolled" => \A p \in lost : Named(p)
  /\ guarded /\ status = "rolled_back" => \A p \in lost : Named(p)

-------------------------------------------------------------------------------
(* Types *)

\* A critique finds finitely much, and scores in percent.
LEMMA ScoreType ==
  ASSUME NEW S, S \subseteq Findings \cup {Failed}
  PROVE  Score(S) \in 0..100 /\ ErrorsIn(S) \in Nat
<1>1. IsFiniteSet(Findings \cup {Failed})
  BY RefineAssumption, FS_AddElement
<1>2. IsFiniteSet(S)
  BY <1>1, FS_Subset
<1>3. \A T : Cardinality(S \cap T) \in Nat
  <2>1. TAKE T
  <2>2. IsFiniteSet(S \cap T)
    BY <1>2, FS_Subset
  <2>3. QED
    BY <2>2, FS_CardinalityType
<1> DEFINE penalty == 25 * ErrorsIn(S) + 8 * Cardinality(S \cap Warnings) + Cardinality(S \cap Infos)
<1>4. ErrorsIn(S) \in Nat /\ Cardinality(S \cap Warnings) \in Nat /\ Cardinality(S \cap Infos) \in Nat
  BY <1>3 DEF ErrorsIn
<1>5. penalty \in Nat
  BY <1>4
<1>6. Score(S) = IF penalty > 100 THEN 0 ELSE 100 - penalty
  BY DEF Score
<1> HIDE DEF penalty
<1>7. QED
  BY <1>4, <1>5, <1>6

\* What an edit leaves is a drawing.
LEMMA EditedType ==
  ASSUME TypeOK, NEW e \in Edits, Edited(e)
  PROVE  drawing' \in Drawing /\ rev' \in Nat
BY DEF Edited, TypeOK, Drawing

\* A read is a set of findings.
LEMMA ReadsType ==
  ASSUME TypeOK, NEW S, Reads(S)
  PROVE  S \subseteq Findings \cup {Failed} /\ busy' \in BOOLEAN /\ blind' \in {"first", "later", None}
<1>1. drawing.findings \subseteq Findings
  BY DEF TypeOK, Drawing
<1>2. PICK covered \in BOOLEAN :
        /\ S \in IF covered THEN {drawing.findings} ELSE {found \cup {Failed} : found \in SUBSET drawing.findings}
        /\ busy' \in IF covered THEN {FALSE} ELSE {FALSE, "slow" \in Mishaps}
        /\ blind' = IF covered \/ blind # None THEN blind ELSE IF initial = None THEN "first" ELSE "later"
  BY DEF Reads
<1>3. S \subseteq Findings \cup {Failed}
  BY <1>1, <1>2
<1>4. busy' \in BOOLEAN
  <2>1. ("slow" \in Mishaps) \in BOOLEAN
    OBVIOUS
  <2>2. QED
    BY <1>2, <2>1
<1>5. blind' \in {"first", "later", None}
  BY <1>2 DEF TypeOK
<1>6. QED
  BY <1>3, <1>4, <1>5

\* The watch keeps its types.
LEMMA WatchType ==
  ASSUME TypeInv, pc \notin {"idle", "check", "watch", "done"}, WatchBefore \/ WatchAfter
  PROVE  start' \in Nat \cup {None} /\ last' \in Nat \cup {None} /\ seen' \subseteq Nat \X Nat /\ (guarded => last' \in Nat)
BY DEF WatchBefore, WatchAfter, watchVars, TypeInv, TypeOK, Shape

\* The stack gets one snapshot, and loses the newest.
LEMMA StackType ==
  ASSUME TypeOK
  PROVE  /\ Append(stack, drawing) \in Seq(Drawing)
         /\ Len(Append(stack, drawing)) = Len(stack) + 1
         /\ Len(stack) > 0 => /\ stack[Len(stack)] \in Drawing
                              /\ SubSeq(stack, 1, Len(stack) - 1) \in Seq(Drawing)
                              /\ Len(SubSeq(stack, 1, Len(stack) - 1)) = Len(stack) - 1
<1>1. stack \in Seq(Drawing) /\ drawing \in Drawing /\ Len(stack) \in Nat
  BY LenProperties DEF TypeOK
<1>2. Append(stack, drawing) \in Seq(Drawing) /\ Len(Append(stack, drawing)) = Len(stack) + 1
  BY <1>1, AppendProperties
<1>3. ASSUME Len(stack) > 0
      PROVE  /\ stack[Len(stack)] \in Drawing
             /\ SubSeq(stack, 1, Len(stack) - 1) \in Seq(Drawing)
             /\ Len(SubSeq(stack, 1, Len(stack) - 1)) = Len(stack) - 1
  <2>1. \A n \in 1..Len(stack) : stack[n] \in Drawing
    BY <1>1, ElementOfSeq
  <2>2. Len(stack) \in 1..Len(stack) /\ Len(stack) - 1 \in Nat
    BY <1>1, <1>3
  <2>3. \A n \in 1..(Len(stack) - 1) : stack[n] \in Drawing
    BY <1>1, <2>1
  <2>4. SubSeq(stack, 1, Len(stack) - 1) \in Seq(Drawing)
    BY <2>2, <2>3, SubSeqProperties
  <2>5. Len(SubSeq(stack, 1, Len(stack) - 1)) = Len(stack) - 1
    <3>1. Len(SubSeq(stack, 1, Len(stack) - 1)) = IF 1 <= Len(stack) - 1 THEN (Len(stack) - 1) - 1 + 1 ELSE 0
      BY <2>2, <2>3, SubSeqProperties
    <3>2. QED
      BY <3>1, <1>1, <1>3
  <2>6. QED
    BY <2>1, <2>2, <2>4, <2>5
<1>4. QED
  BY <1>2, <1>3

\* In a round there is a snapshot.
LEMMA SnapType ==
  ASSUME TypeInv, Open
  PROVE  Len(stack) > 0
<1>1. Len(stack) \in 1..2
  BY DEF TypeInv, Shape
<1>2. QED
  BY <1>1

\* What a rollback leaves is a drawing, and a stack.
LEMMA PoppedType ==
  ASSUME TypeOK, Len(stack) > 0, RolledBack
  PROVE  drawing' \in Drawing /\ rev' \in Nat /\ stack' \in Seq(Drawing) /\ Len(stack') = Len(stack) - 1
<1>1. drawing' = stack[Len(stack)] /\ stack' = SubSeq(stack, 1, Len(stack) - 1) /\ rev' = rev + 1
  BY DEF RolledBack
<1>2. rev' \in Nat
  BY <1>1 DEF TypeOK
<1>3. QED
  BY <1>1, <1>2, StackType

\* Every outcome of a round is one of three.
LEMMA OutcomeType ==
  ASSUME TypeOK, NEW how \in {"not_started", "committed", "rolled_back"}
  PROVE  Append(rounds, how) \in Seq({"not_started", "committed", "rolled_back"})
BY AppendProperties DEF TypeOK

\* The next edit of a repair is one.
LEMMA NextEdit ==
  ASSUME TypeOK
  PROVE  <<round, calls + 1>> \in Edits
BY RefineAssumption DEF TypeOK, Edits

\* No step leaves the types.
LEMMA TypeKept == TypeInv /\ [Next]_vars => TypeInv'
<1> SUFFICES ASSUME TypeInv, [Next]_vars PROVE TypeInv'
  OBVIOUS
<1>98. CASE UNCHANGED vars
  BY <1>98 DEF vars, watchVars, askVars, roundVars, engineVars, ghosts, TypeInv, TypeOK, Shape, Open, InRound
<1> USE DEF TypeInv, TypeOK, Shape, Open, InRound, watchVars, askVars, roundVars, engineVars, ghosts
<1>00. (pc # "done" => owed = None) /\ None \notin {"begin", "commit", "rollback"}
  BY RefineAssumption
<1>0. ASSUME NEW g \in BOOLEAN, NEW m \in MinScores, Apply(g, m) PROVE TypeInv'
  BY <1>0 DEF Apply
<1>1. CASE DryRun
  BY <1>1 DEF DryRun
<1>2. CASE Check
  BY <1>2 DEF Check, Ends
<1>3. CASE WatchBegins
  BY <1>3 DEF WatchBegins
<1>4. CASE FirstCritique
  <2>1. busy' \in BOOLEAN /\ blind' \in {"first", "later", None}
    BY <1>4, ReadsType DEF FirstCritique
  <2>2. issues' \subseteq Findings \cup {Failed}
    BY <1>4, ReadsType DEF FirstCritique
  <2>3. initial' \in [score : 0..100, errors : Nat]
    BY <1>4, ReadsType, ScoreType DEF FirstCritique
  <2>4. pc' \in {"done", "round"} /\ status' \in {status, "threshold_met"}
    BY <1>4 DEF FirstCritique, Ends
  <2>5. QED
    BY <1>4, <2>1, <2>2, <2>3, <2>4, SMTT(40) DEF FirstCritique
<1>5. CASE FirstCritiqueRaises
  BY <1>5 DEF FirstCritiqueRaises, Ends
<1>6. CASE RoundStarts
  <2>1. start' \in Nat \cup {None} /\ last' \in Nat \cup {None} /\ seen' \subseteq Nat \X Nat /\ (guarded => last' \in Nat)
    BY <1>6, WatchType DEF RoundStarts
  <2>2. round' \in 0..MaxRounds
    BY <1>6, RefineAssumption DEF RoundStarts, RoundsLeft
  <2>3. todo' \subseteq Repairable /\ calls' \in 0..MaxCalls
    BY <1>6, RefineAssumption DEF RoundStarts, Candidates
  <2>4. QED
    BY <1>6, <2>1, <2>2, <2>3 DEF RoundStarts
<1>7. CASE NoRound
  BY <1>7 DEF NoRound, Ends
<1>8. CASE Begin
  <2>1. Len(stack) <= 1
    BY <1>00, <1>8 DEF Begin
  <2>2. stack' \in Seq(Drawing) /\ Len(stack') = Len(stack) + 1 /\ Len(stack) \in Nat
    BY <1>8, StackType, LenProperties DEF Begin
  <2>3. Len(stack') \in 1..2
    BY <2>1, <2>2
  <2>4. QED
    BY <1>00, <1>8, <2>2, <2>3 DEF Begin
<1>9. CASE BeginRefused
  BY <1>9 DEF BeginRefused, Ends
<1>10. CASE BeginDeclined
  BY <1>10, WatchType DEF BeginDeclined, Ends
<1>11. CASE Begun
  BY <1>11, WatchType DEF Begun
<1>12. CASE RepairTurn
  BY <1>12, WatchType DEF RepairTurn
<1>13. CASE RepairCall
  BY <1>13 DEF RepairCall
<1>14. CASE RepairRaises
  BY <1>14 DEF RepairRaises
<1>15. CASE RepairLands
  <2>1. <<round, calls + 1>> \in Edits
    BY NextEdit
  <2>2. drawing' \in Drawing /\ rev' \in Nat
    BY <1>15, <2>1, EditedType DEF RepairLands
  <2>3. made' \subseteq Edits
    BY <1>15, <2>1 DEF RepairLands
  <2>4. calls' \in 0..MaxCalls
    BY <1>15, RefineAssumption DEF RepairLands
  <2>5. QED
    BY <1>15, <2>1, <2>2, <2>3, <2>4, SMTT(40) DEF RepairLands
<1>16. CASE RepairOverruns
  <2>1. late' \in Edits
    BY <1>16, NextEdit DEF RepairOverruns
  <2>2. quar' \in BOOLEAN
    BY <1>16 DEF RepairOverruns
  <2>3. QED
    BY <1>16, <2>1, <2>2 DEF RepairOverruns
<1>17. CASE Repaired
  BY <1>17, WatchType DEF Repaired
<1>18. CASE Recritique
  BY <1>18, ReadsType DEF Recritique
<1>19. CASE RecritiqueRaises
  BY <1>19 DEF RecritiqueRaises
<1>20. CASE Judge
  BY <1>20, WatchType DEF Judge
<1>21. CASE Commit
  <2>1. Len(stack) > 0
    <3>1. Open
      BY <1>21 DEF Commit
    <3>2. QED
      BY <3>1, SnapType
  <2>2. stack' \in Seq(Drawing) /\ Len(stack') = Len(stack) - 1
    BY <1>21, <2>1, StackType DEF Commit
  <2>3. QED
    BY <1>00, <1>21, <2>2 DEF Commit
<1>22. CASE Committed
  <2>1. start' \in Nat \cup {None} /\ last' \in Nat \cup {None} /\ seen' \subseteq Nat \X Nat /\ (guarded => last' \in Nat)
    BY <1>22, WatchType DEF Committed
  <2>2. rounds' \in Seq({"not_started", "committed", "rolled_back"})
    BY <1>22, OutcomeType DEF Committed
  <2>3. pc' \in {"done", "round"} /\ status' \in {status, "threshold_met", "no_progress"}
    BY <1>22 DEF Committed, Ends
  <2>4. QED
    BY <1>22, <2>1, <2>2, <2>3 DEF Committed
<1>23. CASE Rollback
  <2>0. Len(stack) > 0
    <3>1. Open
      BY <1>23 DEF Rollback
    <3>2. QED
      BY <3>1, SnapType
  <2>1. drawing' \in Drawing /\ rev' \in Nat /\ stack' \in Seq(Drawing) /\ Len(stack') = Len(stack) - 1
    <3>1. RolledBack
      BY <1>23 DEF Rollback
    <3>2. QED
      BY <2>0, <3>1, PoppedType
  <2>2. lost' \subseteq outside
    BY <1>23 DEF Rollback, RolledBack
  <2>3. QED
    BY <1>00, <1>23, <2>1, <2>2 DEF Rollback
<1>24. CASE Rolled
  BY <1>24, WatchType DEF Rolled
<1>25. CASE CloseRefused
  BY <1>25 DEF CloseRefused, Ends
<1>26. CASE Undo
  <2>0. Len(stack) > 0
    <3>1. Open
      BY <1>26 DEF Undo
    <3>2. QED
      BY <3>1, SnapType
  <2>1. drawing' \in Drawing /\ rev' \in Nat /\ stack' \in Seq(Drawing) /\ Len(stack') = Len(stack) - 1
    <3>1. RolledBack
      BY <1>26 DEF Undo
    <3>2. QED
      BY <2>0, <3>1, PoppedType
  <2>2. lost' \subseteq outside
    BY <1>26 DEF Undo, RolledBack
  <2>3. pc' \in {"last", "done"} /\ status' \in {"repair_failed", "cancelled"}
    BY <1>26 DEF Undo, Ends
  <2>4. rounds' = rounds \/ rounds' = Append(rounds, "rolled_back")
    BY <1>26 DEF Undo
  <2>5. rounds' \in Seq({"not_started", "committed", "rolled_back"})
    BY <2>4, OutcomeType
  <2>6. /\ UNCHANGED <<askVars, issues, after, initial, round, todo, calls, watchVars, cancelled, leaving>>
        /\ UNCHANGED <<engineVars, refused, others, callers, blind, made, outside, stray>>
        /\ pc = "undo" /\ owed = None /\ (pc' = "last" \/ pc' = "done")
    BY <1>00, <1>26, <2>3 DEF Undo
  <2>7. TypeOK'
    BY <2>1, <2>2, <2>3, <2>5, <2>6, SMTT(40)
  <2>8. Shape'
    BY <1>00, <2>1, <2>6
  <2>9. QED
    BY <2>7, <2>8
<1>27. CASE UndoRefused
  BY <1>27 DEF UndoRefused, Ends
<1>28. CASE LastCritique
  BY <1>28, ReadsType DEF LastCritique
<1>29. CASE LastCritiqueRaises
  BY <1>29 DEF LastCritiqueRaises, Ends
<1>30. CASE Cancel
  <2>1. cancelled' \in BOOLEAN
    BY <1>30 DEF Cancel, Leaves, Ends
  <2>2. late' \in Edits \cup {None}
    BY <1>30, NextEdit DEF Cancel
  <2>3. pc' \in {"begin", "undo", "done"} /\ leaving' \in {leaving, "cancel"} /\ status' \in {status, "cancelled"}
    BY <1>30 DEF Cancel, Leaves, Ends
  <2>4. pc' = pc \/ pc' = "done" \/ (pc' = "undo" /\ Open)
    BY <1>30 DEF Cancel, Leaves, Ends
  <2>5. /\ owed' \in {"commit", "rollback", None}
        /\ owed' # None => Open /\ pc' = "done" /\ status' = "cancelled"
    <3>1. pc # "done"
      BY <1>30, RefineAssumption DEF Cancel
    <3>2. QED
      BY <1>00, <1>30, <3>1 DEF Cancel, Leaves, Ends
  <2>6. QED
    BY <1>00, <1>30, <2>1, <2>2, <2>3, <2>4, <2>5, SMTT(40) DEF Cancel
<1>31. CASE LateEnds
  <2>1. quar' \in BOOLEAN
    BY <1>31 DEF LateEnds
  <2>2. drawing' \in Drawing /\ rev' \in Nat
    BY <1>31, EditedType DEF LateEnds
  <2>3. made' \subseteq Edits
    BY <1>31 DEF LateEnds
  <2>4. QED
    BY <1>31, <2>1, <2>2, <2>3 DEF LateEnds
<1>32. CASE LateOverruns
  BY <1>32 DEF LateOverruns
<1>36. CASE OwnOverruns
  <2>1. /\ pc' = "done" /\ status' \in {"raised", "cancelled"} /\ quar' \in BOOLEAN
        /\ owed' \in {"begin", "commit", "rollback"} /\ (owed' = "begin" => pc = "begin")
    BY <1>36 DEF OwnOverruns, Ends
  <2>2. owed' # "begin" => Open
    BY <1>36 DEF OwnOverruns
  <2>3. QED
    BY <1>00, <1>36, <2>1, <2>2 DEF OwnOverruns
<1>37. CASE OwedEnds
  <2>1. /\ pc = "done" /\ pc' = "done" /\ owed' = None /\ stray' \in {"begin", "commit", None}
        /\ quar' \in BOOLEAN
    BY <1>00, <1>37 DEF OwedEnds
  <2>2. drawing' \in Drawing /\ rev' \in Nat /\ lost' \subseteq outside
        /\ stack' \in Seq(Drawing) /\ Len(stack') <= 2
    <3>1. CASE owed = "begin"
      <4>1. stack' = stack \/ stack' = Append(stack, drawing)
        BY <1>37, <3>1 DEF OwedEnds
      <4>2. Len(stack) \in Nat /\ Len(stack) <= 1
        BY <3>1, LenProperties
      <4>3. stack' \in Seq(Drawing) /\ Len(stack') <= 2
        <5>1. Append(stack, drawing) \in Seq(Drawing) /\ Len(Append(stack, drawing)) = Len(stack) + 1
          BY StackType
        <5>2. Len(stack) + 1 <= 2 /\ stack \in Seq(Drawing)
          BY <4>2
        <5>3. QED
          BY <4>1, <5>1, <5>2
      <4>4. UNCHANGED <<drawing, rev, lost>>
        BY <1>37, <3>1 DEF OwedEnds
      <4>5. QED
        BY <4>3, <4>4
    <3>2. CASE owed \in {"commit", "rollback"}
      <4>1. Len(stack) \in 1..2
        BY <3>2
      <4>2. CASE stack' = SubSeq(stack, 1, Len(stack) - 1) /\ UNCHANGED <<drawing, rev, lost>>
        BY <4>1, <4>2, StackType
      <4>3. CASE RolledBack
        <5>0. Len(stack) > 0
          <6>1. \A n \in 1..2 : n > 0
            OBVIOUS
          <6>2. QED
            BY <4>1, <6>1
        <5>1. drawing' \in Drawing /\ rev' \in Nat /\ stack' \in Seq(Drawing) /\ Len(stack') = Len(stack) - 1
          BY <5>0, <4>3, PoppedType
        <5>2. lost' = lost \cup {p \in outside : p[1] \in drawing.edits \ stack[Len(stack)].edits}
          BY <4>3 DEF RolledBack
        <5>3. lost' \subseteq outside
          BY <5>2
        <5>4. QED
          BY <4>1, <5>1, <5>3
      <4>4. QED
        BY <1>37, <3>2, <4>2, <4>3 DEF OwedEnds
    <3>3. QED
      BY <1>37, <3>1, <3>2 DEF OwedEnds
  <2>3. QED
    BY <1>00, <1>37, <2>1, <2>2 DEF OwedEnds
<1>33. CASE ReadEnds
  <2>1. busy' \in BOOLEAN
    BY <1>33 DEF ReadEnds
  <2>2. QED
    BY <1>33, <2>1 DEF ReadEnds
<1>34. CASE OtherEdit
  <2>1. <<0, others + 1>> \in Edits
    BY <1>34, RefineAssumption DEF OtherEdit, Edits
  <2>2. drawing' \in Drawing /\ rev' \in Nat
    BY <1>34, <2>1, EditedType DEF OtherEdit
  <2>3. outside' \subseteq Edits \X Nat /\ outside \subseteq outside'
    <3> DEFINE e == <<0, others + 1>>
    <3>0. e \in Edits /\ rev + 1 \in Nat
      BY <2>1
    <3>1. <<e, rev + 1>> \in Edits \X Nat
      <4> HIDE DEF e
      <4>1. QED
        BY <3>0
    <3>2. outside' = outside \/ outside' = outside \cup {<<<<0, others + 1>>, rev + 1>>}
      BY <1>34 DEF OtherEdit
    <3>3. QED
      BY <3>1, <3>2
  <2>4. others' \in 0..MaxOthers
    BY <1>34, RefineAssumption DEF OtherEdit
  <2>5. QED
    BY <1>34, <2>1, <2>2, <2>3, <2>4 DEF OtherEdit
<1>35. QED
  BY <1>0, <1>1, <1>2, <1>3, <1>4, <1>5, <1>6, <1>7, <1>8, <1>9, <1>10, <1>11, <1>12, <1>13,
     <1>14, <1>15, <1>16, <1>17, <1>18, <1>19, <1>20, <1>21, <1>22, <1>23, <1>24, <1>25, <1>26,
     <1>27, <1>28, <1>29, <1>30, <1>31, <1>32, <1>33, <1>34, <1>36, <1>37, <1>98 DEF Next

\* A request starts with the types.
LEMMA InitTypes == Init => TypeInv
<1> SUFFICES ASSUME Init PROVE TypeInv
  OBVIOUS
<1>1. drawing \in Drawing /\ stack \in Seq(Drawing) /\ Len(stack) <= 1
  <2>1. PICK S \in SUBSET Findings : drawing = [edits |-> {}, findings |-> S]
    BY DEF Init
  <2>2. drawing \in Drawing
    BY <2>1 DEF Drawing
  <2>3. [edits |-> {}, findings |-> {}] \in Drawing
    BY DEF Drawing
  <2>4. CASE stack = <<>>
    BY <2>2, <2>4
  <2>5. CASE stack = <<[edits |-> {}, findings |-> {}]>>
    BY <2>2, <2>3, <2>5
  <2>6. QED
    BY <2>4, <2>5 DEF Init
<1>2. cancelled \in BOOLEAN /\ quar \in BOOLEAN /\ busy \in BOOLEAN /\ refused \in BOOLEAN /\ guarded \in BOOLEAN
  BY DEF Init
<1>3. rounds \in Seq({"not_started", "committed", "rolled_back"}) /\ callers \in Seq(Drawing)
  BY <1>1 DEF Init
<1>4. QED
  BY <1>1, <1>2, <1>3, RefineAssumption DEF Init, TypeInv, TypeOK, Shape, Open, InRound

\* The types hold of every request, in every state.
THEOREM TypeCorrect == Spec => []TypeOK
BY InitTypes, TypeKept, PTL DEF Spec, TypeInv
-------------------------------------------------------------------------------
(* Rounds *)

\* A request that is closed where it is cancelled only by its own handler.
ClosesAlone == CancelAt \cap {"commit", "rollback"} = {}

\* Before the end nothing of the round's own is left to another.
LEMMA StillOwn ==
  ASSUME RoundInv, pc # "done"
  PROVE  owed = None /\ stray = None /\ (Open <=> InRound)
BY RefineAssumption DEF RoundInv, TypeInv, Shape, RoundParts, StrayRound, Open

\* Popping the stack in a round leaves the caller's transactions.
LEMMA Popped ==
  ASSUME RoundInv, Open
  PROVE  SubSeq(stack, 1, Len(stack) - 1) = callers
<1>1. stack \in Seq(Drawing) /\ callers \in Seq(Drawing) /\ Len(callers) \in Nat
  BY LenProperties DEF RoundInv, TypeInv, TypeOK
<1>2. Len(stack) > 0
  BY SnapType DEF RoundInv
<1>3. Snap \in Drawing
  BY <1>2, StackType DEF Snap, RoundInv, TypeInv
<1>4. stack = Append(callers, Snap)
  BY DEF RoundInv, RoundParts, OpenRound
<1>5. Len(stack) = Len(callers) + 1 /\ \A i \in 1..Len(callers) : stack[i] = callers[i]
  BY <1>1, <1>3, <1>4, AppendProperties
<1> DEFINE popped == SubSeq(stack, 1, Len(stack) - 1)
<1>6. popped \in Seq(Drawing) /\ Len(popped) = Len(stack) - 1
  BY <1>2, StackType DEF RoundInv, TypeInv
<1>7. \A i \in 1..Len(popped) : popped[i] = callers[i]
  <2>1. Len(stack) - 1 = Len(callers)
    BY <1>1, <1>5
  <2>2. \A i \in 1..(Len(stack) - 1) : stack[i] \in Drawing
    BY <1>1, <1>5, <2>1, ElementOfSeq
  <2>3. Len(stack) - 1 \in Int
    BY <1>1, <2>1
  <2>4. \A i \in 1..(Len(stack) - 1 - 1 + 1) : popped[i] = stack[1 + i - 1]
    BY <2>2, <2>3, SubSeqProperties
  <2>5. \A i \in 1..Len(callers) : popped[i] = stack[i]
    BY <1>1, <2>1, <2>4
  <2>6. QED
    BY <1>5, <1>6, <2>1, <2>5
<1>8. Len(popped) = Len(callers)
  BY <1>1, <1>5, <1>6
<1>9. popped = callers
  <2> HIDE DEF popped
  <2>1. QED
    BY <1>1, <1>6, <1>7, <1>8, SeqEqual
<1>10. QED
  BY <1>9

\* Opening a transaction puts the drawing on top of the stack.
LEMMA Pushed ==
  ASSUME TypeOK, stack' = Append(stack, drawing)
  PROVE  stack'[Len(stack')] = drawing
BY AppendProperties, LenProperties DEF TypeOK

\* And popping it gives what was below.
LEMMA AppendedPops ==
  ASSUME TypeOK
  PROVE  SubSeq(Append(stack, drawing), 1, Len(Append(stack, drawing)) - 1) = stack
<1>1. stack \in Seq(Drawing) /\ drawing \in Drawing /\ Len(stack) \in Nat
  BY LenProperties DEF TypeOK
<1> DEFINE more == Append(stack, drawing)
<1>2. more \in Seq(Drawing) /\ Len(more) = Len(stack) + 1 /\ \A i \in 1..Len(stack) : more[i] = stack[i]
  BY <1>1, AppendProperties
<1> HIDE DEF more
<1> DEFINE less == SubSeq(more, 1, Len(more) - 1)
<1>3. \A i \in 1..(Len(more) - 1) : more[i] \in Drawing
  BY <1>1, <1>2, ElementOfSeq
<1>4. /\ less \in Seq(Drawing)
      /\ Len(less) = Len(stack)
      /\ \A i \in 1..Len(stack) : less[i] = more[i]
  BY <1>1, <1>2, <1>3, SubSeqProperties
<1> HIDE DEF less
<1>5. less = stack
  BY <1>1, <1>2, <1>4, SeqEqual
<1>6. QED
  BY <1>5 DEF less, more

\* An outcome is counted once.
LEMMA Outcome ==
  ASSUME TypeOK, NEW how \in {"not_started", "committed", "rolled_back"}, rounds' = Append(rounds, how)
  PROVE  /\ Len(rounds') = Len(rounds) + 1
         /\ CommittedRounds' = IF how = "committed" THEN CommittedRounds \cup {Len(rounds) + 1} ELSE CommittedRounds
<1>1. rounds \in Seq({"not_started", "committed", "rolled_back"}) /\ Len(rounds) \in Nat /\ DOMAIN rounds = 1..Len(rounds)
  BY LenProperties DEF TypeOK
<1>2. /\ rounds' \in Seq({"not_started", "committed", "rolled_back"})
      /\ Len(rounds') = Len(rounds) + 1
      /\ \A r \in 1..Len(rounds) : rounds'[r] = rounds[r]
      /\ rounds'[Len(rounds) + 1] = how
  BY <1>1, AppendProperties
<1>3. DOMAIN rounds' = 1..(Len(rounds) + 1)
  BY <1>2, LenProperties
<1>4. QED
  BY <1>1, <1>2, <1>3 DEF CommittedRounds

\* A round without an outcome is not committed.
LEMMA NotYet ==
  ASSUME TypeOK, NEW r \in Nat, r > Len(rounds)
  PROVE  r \notin CommittedRounds
BY LenProperties DEF TypeOK, CommittedRounds

\* Where no round is open.
Between == {"idle", "check", "watch", "critique", "round", "last"}

\* A step that changes none of what the rounds are judged by, and stays where it was.
LEMMA Quiet ==
  ASSUME RoundInv, UNCHANGED <<drawing, stack, callers, made, round, rounds, refused, late, owed, stray>>,
         \/ InRound /\ InRound' /\ late = None
         \/ pc \in Between /\ pc' \in Between \cup {"done"}
         \/ pc = "begin" /\ pc' \in {"begin", "done"}
         \/ pc' = pc,
         pc = "done" => status' = status
  PROVE  RoundParts'
<1>1. /\ Made(round)' = Made(round)
      /\ CommittedRounds' = CommittedRounds
      /\ Snap' = Snap
      /\ \A r : Made(r)' = Made(r)
  BY DEF Made, CommittedRounds, Snap
<1>2. \A r : WholeIn(drawing.edits, r)' = WholeIn(drawing.edits, r) /\ WholeIn(Snap.edits, r)' = WholeIn(Snap.edits, r)
  BY <1>1 DEF WholeIn
<1>3. Had(drawing.edits)' /\ Had(made)'
  BY DEF RoundInv, RoundParts, Had
<1>40. pc = "done" => pc' = "done"
  BY DEF InRound, Between
<1>4. (refused => pc = "done")' /\ Counted' /\ LateIs' /\ OwedIs' /\ StrayRound'
  <2>1. CASE pc = "done"
    BY <1>1, <1>2, <1>40, <2>1 DEF RoundInv, RoundParts, Counted, LateIs, OwedIs, StrayRound, Open, InRound
  <2>2. CASE pc # "done"
    <3>1. owed = None /\ stray = None
      BY <2>2, StillOwn
    <3>2. QED
      BY <2>2, <3>1, RefineAssumption DEF RoundInv, RoundParts, Counted, LateIs, OwedIs, StrayRound, Open, InRound, Between
  <2>3. QED
    BY <2>1, <2>2
<1>5. OpenRound'
  <2>1. Open' => Open
    BY DEF Open, InRound, Between
  <2>2. QED
    BY <1>1, <1>2, <2>1 DEF RoundInv, RoundParts, OpenRound
<1>6. ClosedRound'
  <2>1. ~Open' => ~Open
    BY DEF Open, InRound, Between
  <2>2. QED
    BY <1>1, <1>2, <2>1 DEF RoundInv, RoundParts, ClosedRound, Between, Open, InRound
<1>7. QED
  BY <1>3, <1>4, <1>5, <1>6 DEF RoundParts
\* A round begins: it has made nothing.
LEMMA StartKeepsRounds == RoundInv /\ RoundStarts => RoundParts'
<1> SUFFICES ASSUME RoundInv, RoundStarts PROVE RoundParts'
  OBVIOUS
<1>1. pc = "round" /\ pc' = "begin" /\ late = None /\ owed = None /\ stray = None /\ ~refused /\ ~Open /\ ~Open'
  BY StillOwn, RefineAssumption DEF RoundStarts, RoundInv, RoundParts, LateIs, Open, InRound, engineVars, ghosts
<1>2. /\ round \in Nat /\ round' = round + 1 /\ round' \in Nat /\ Len(rounds) = round
      /\ UNCHANGED <<drawing, stack, callers, made, rounds, refused, late, owed, stray>>
  BY <1>1 DEF RoundStarts, RoundInv, RoundParts, Counted, TypeInv, TypeOK, ghosts, engineVars
<1>3. made \subseteq Edits /\ drawing.edits \subseteq Edits /\ \A e \in Edits : e[1] \in Nat
  BY RefineAssumption DEF RoundInv, TypeInv, TypeOK, Drawing, Edits
<1>4. \A e \in drawing.edits \cup made : e[1] < round'
  BY <1>2, <1>3 DEF RoundInv, RoundParts, Had
<1>5. \A r : Made(r)' = Made(r) /\ WholeIn(drawing.edits, r)' = WholeIn(drawing.edits, r)
  BY <1>2 DEF Made, WholeIn, CommittedRounds
<1>6. \A r \in 1..round : WholeIn(drawing.edits, r)
  BY <1>1 DEF RoundInv, RoundParts, ClosedRound
<1>7. WholeIn(drawing.edits, round')
  <2>1. Made(round') = {}
    BY <1>2, <1>3, <1>4 DEF Made
  <2>2. QED
    BY <2>1 DEF WholeIn
<1>8. \A r \in 1..round' : WholeIn(drawing.edits, r)'
  BY <1>2, <1>5, <1>6, <1>7
<1>9. Had(drawing.edits)' /\ Had(made)'
  BY <1>2, <1>3, <1>4 DEF Had
<1>10. stack = callers
  BY <1>1 DEF RoundInv, RoundParts, ClosedRound
<1>11. ClosedRound'
  BY <1>1, <1>2, <1>4, <1>8, <1>10 DEF ClosedRound
<1>12. Counted'
  BY <1>1, <1>2 DEF Counted
<1>13. LateIs' /\ OwedIs' /\ StrayRound' /\ OpenRound' /\ (refused => pc = "done")'
  BY <1>1, <1>2 DEF LateIs, OwedIs, StrayRound, OpenRound
<1>14. QED
  BY <1>9, <1>11, <1>12, <1>13 DEF RoundParts

\* Its transaction begins: the snapshot holds the rounds before it, whole.
LEMMA BeginKeepsRounds == RoundInv /\ Begin => RoundParts'
<1> SUFFICES ASSUME RoundInv, Begin PROVE RoundParts'
  OBVIOUS
<1>1. pc = "begin" /\ pc' = "begun" /\ late = None /\ owed = None /\ stray = None /\ ~refused /\ ~Open /\ Open'
  BY StillOwn, RefineAssumption DEF Begin, RoundInv, RoundParts, LateIs, Open, InRound, engineVars, ghosts
<1>2. UNCHANGED <<drawing, callers, made, rounds, refused, late, owed, stray, round>> /\ stack' = Append(stack, drawing)
  BY DEF Begin, ghosts, engineVars, roundVars
<1>3. Snap' = drawing
  BY <1>2, Pushed DEF Snap, RoundInv, TypeInv
<1>4. \A r : Made(r)' = Made(r) /\ WholeIn(drawing.edits, r)' = WholeIn(drawing.edits, r) /\ WholeIn(Snap.edits, r)' = WholeIn(drawing.edits, r)
  BY <1>2, <1>3 DEF Made, WholeIn, CommittedRounds
<1>5. /\ stack = callers
      /\ \A r \in 1..round : WholeIn(drawing.edits, r)
      /\ \A e \in drawing.edits \cup made : e[1] < round
  BY <1>1 DEF RoundInv, RoundParts, ClosedRound
<1>6. round \in Nat /\ round > 0 /\ Len(rounds) = round - 1
  BY <1>1 DEF RoundInv, RoundParts, Counted, TypeInv, TypeOK
<1>7. Made(round)' = {}
  BY <1>2, <1>5, <1>6 DEF Made
<1>8. OpenRound'
  <2>1. stack' = Append(callers', Snap')
    BY <1>2, <1>3, <1>5
  <2>2. \A e \in Snap'.edits : e[1] < round'
    BY <1>2, <1>3, <1>5
  <2>3. \A r \in 1..(round - 1) : r \in 1..round
    BY <1>6
  <2>4. QED
    BY <1>2, <1>4, <1>5, <1>7, <2>1, <2>2, <2>3 DEF OpenRound
<1>9. Counted' /\ LateIs' /\ OwedIs' /\ StrayRound' /\ ClosedRound' /\ (refused => pc = "done")'
  BY <1>1, <1>2, <1>6 DEF Counted, LateIs, OwedIs, StrayRound, ClosedRound
<1>10. Had(drawing.edits)' /\ Had(made)'
  BY <1>2 DEF Had, RoundInv, RoundParts
<1>11. QED
  BY <1>8, <1>9, <1>10 DEF RoundParts

\* An edit of this round lands in it, from a repair or from a worker that was left.
LEMMA EditKeepsRounds ==
  ASSUME RoundInv, InRound, InRound', NEW e \in Edits, e[1] = round, Edited(e), made' = made \cup {e},
         UNCHANGED <<stack, callers, round, rounds, refused, owed, stray>>, late' = None
  PROVE  RoundParts'
<1>0. Open /\ Open' /\ owed = None /\ stray = None /\ pc # "done"
  BY StillOwn DEF Open, InRound
<1>1. drawing'.edits = drawing.edits \cup {e}
  BY DEF Edited
<1>2. Snap' = Snap /\ CommittedRounds' = CommittedRounds
  BY DEF Snap, CommittedRounds
<1>3. round \in Nat /\ round > 0
  BY <1>0 DEF RoundInv, RoundParts, Counted, TypeInv, TypeOK
<1>4. \A r \in 1..(round - 1) : e[1] # r
  BY <1>3
<1>5. \A r \in 1..(round - 1) : Made(r)' = Made(r)
  BY <1>4 DEF Made
<1>6. \A r \in 1..(round - 1) : WholeIn(drawing.edits, r) /\ WholeIn(Snap.edits, r)
  BY <1>0 DEF RoundInv, RoundParts, OpenRound
<1>7. \A r \in 1..(round - 1) : e \notin Made(r)
  BY <1>4 DEF Made
<1>8. \A r \in 1..(round - 1) : WholeIn(drawing.edits, r)' /\ WholeIn(Snap.edits, r)'
  <2>1. TAKE r \in 1..(round - 1)
  <2>2. Made(r)' \cap drawing'.edits = Made(r) \cap drawing.edits
    BY <1>1, <1>5, <1>7
  <2>3. QED
    BY <1>2, <1>5, <1>6, <2>2 DEF WholeIn
<1>9. Made(round)' \subseteq drawing'.edits
  BY <1>0, <1>1 DEF RoundInv, RoundParts, OpenRound, Made
<1>10. OpenRound'
  BY <1>0, <1>2, <1>8, <1>9 DEF OpenRound, RoundInv, RoundParts
<1>11. Had(drawing.edits)' /\ Had(made)'
  BY <1>1, <1>3 DEF Had, RoundInv, RoundParts
<1>12. Counted'
  BY <1>0, RefineAssumption DEF Counted, RoundInv, RoundParts, Open, InRound
<1>13. LateIs' /\ OwedIs' /\ StrayRound' /\ ClosedRound' /\ (refused => pc = "done")'
  BY <1>0, RefineAssumption DEF LateIs, OwedIs, StrayRound, ClosedRound, RoundInv, RoundParts, Open, InRound
<1>14. QED
  BY <1>10, <1>11, <1>12, <1>13 DEF RoundParts

\* A commit closes the transaction, and keeps what the round made.
LEMMA CommitKeepsRounds == RoundInv /\ Commit => RoundParts'
<1> SUFFICES ASSUME RoundInv, Commit PROVE RoundParts'
  OBVIOUS
<1>1. pc = "commit" /\ pc' = "committed" /\ late = None /\ owed = None /\ stray = None /\ ~refused /\ Open /\ ~Open'
  BY StillOwn, RefineAssumption DEF Commit, RoundInv, RoundParts, LateIs, Open, InRound, engineVars, ghosts
<1>2. UNCHANGED <<drawing, callers, made, rounds, refused, late, owed, stray, round>> /\ stack' = callers
  BY <1>1, Popped DEF Commit, ghosts, engineVars, roundVars
<1>3. \A r : Made(r)' = Made(r) /\ WholeIn(drawing.edits, r)' = WholeIn(drawing.edits, r)
  BY <1>2 DEF Made, WholeIn, CommittedRounds
<1>4. ClosedRound'
  <2>1. \A r \in 1..(round - 1) : WholeIn(drawing.edits, r)
    BY <1>1 DEF RoundInv, RoundParts, OpenRound
  <2>2. Made(round) \subseteq drawing.edits
    BY <1>1 DEF RoundInv, RoundParts, OpenRound
  <2>3. QED
    BY <1>1, <1>2, <1>3, <2>1, <2>2 DEF ClosedRound
<1>5. Counted' /\ LateIs' /\ OwedIs' /\ StrayRound' /\ OpenRound' /\ (refused => pc = "done")'
  BY <1>1, <1>2 DEF Counted, LateIs, OwedIs, StrayRound, OpenRound, RoundInv, RoundParts
<1>6. Had(drawing.edits)' /\ Had(made)'
  BY <1>2 DEF Had, RoundInv, RoundParts
<1>7. QED
  BY <1>4, <1>5, <1>6 DEF RoundParts

\* The round that was committed is counted.
LEMMA CommittedKeepsRounds == RoundInv /\ Committed => RoundParts'
<1> SUFFICES ASSUME RoundInv, Committed PROVE RoundParts'
  OBVIOUS
<1>1. pc = "committed" /\ pc' \in {"done", "round"} /\ late = None /\ owed = None /\ stray = None /\ ~refused /\ ~Open /\ ~Open'
  BY StillOwn, RefineAssumption DEF Committed, Ends, RoundInv, RoundParts, LateIs, Open, InRound, engineVars, ghosts
<1>2. UNCHANGED <<drawing, callers, made, stack, refused, late, owed, stray, round>> /\ rounds' = Append(rounds, "committed")
  BY <1>1 DEF Committed, ghosts, engineVars
<1>3. round \in Nat /\ round > 0 /\ Len(rounds) = round - 1
  BY <1>1 DEF RoundInv, RoundParts, Counted, TypeInv, TypeOK
<1>4. Len(rounds') = round /\ CommittedRounds' = CommittedRounds \cup {round}
  BY <1>2, <1>3, Outcome DEF RoundInv, TypeInv
<1>5. \A r \in 1..round : WholeIn(drawing.edits, r)'
  <2>1. TAKE r \in 1..round
  <2>2. CASE r = round
    BY <1>1, <1>2, <1>4, <2>2 DEF WholeIn, Made, RoundInv, RoundParts, ClosedRound
  <2>3. CASE r # round
    <3>1. r \in 1..(round - 1)
      BY <1>3, <2>3
    <3>2. WholeIn(drawing.edits, r)
      BY <1>1, <3>1 DEF RoundInv, RoundParts, ClosedRound
    <3>3. QED
      BY <1>2, <1>4, <2>3, <3>2 DEF WholeIn, Made
  <2>4. QED
    BY <2>2, <2>3
<1>6. ClosedRound'
  BY <1>1, <1>2, <1>5 DEF ClosedRound, RoundInv, RoundParts
<1>7. Counted' /\ LateIs' /\ OwedIs' /\ StrayRound' /\ OpenRound' /\ (refused => pc = "done")'
  BY <1>1, <1>2, <1>3, <1>4 DEF Counted, LateIs, OwedIs, StrayRound, OpenRound, Open, InRound
<1>8. Had(drawing.edits)' /\ Had(made)'
  BY <1>2 DEF Had, RoundInv, RoundParts
<1>9. QED
  BY <1>6, <1>7, <1>8 DEF RoundParts

\* A rollback leaves the snapshot: the rounds before this one, and none of this one.
LEMMA RolledBackWhole ==
  ASSUME RoundInv, Open, RolledBack, made' = made, rounds' = rounds \/ \E how \in {"not_started", "rolled_back"} : rounds' = Append(rounds, how)
  PROVE  /\ stack' = callers
         /\ \A e \in drawing'.edits : e[1] < round
         /\ \A r \in 1..round : WholeIn(drawing.edits, r)'
<1>1. drawing' = Snap /\ stack' = callers
  BY Popped DEF RolledBack, Snap
<1>2. CommittedRounds' = CommittedRounds
  BY Outcome DEF RoundInv, TypeInv, CommittedRounds
<1>3. round \in Nat /\ round > 0 /\ Len(rounds) = round - 1
  BY DEF RoundInv, RoundParts, Counted, TypeInv, TypeOK
<1>4. round \notin CommittedRounds
  BY <1>3, NotYet DEF RoundInv, TypeInv
<1>5. \A e \in drawing'.edits : e[1] < round
  BY <1>1 DEF RoundInv, RoundParts, OpenRound
<1>6. \A r : Made(r)' = Made(r)
  BY DEF Made
<1>7. ASSUME NEW r \in 1..round PROVE WholeIn(drawing.edits, r)'
  <2>1. CASE r = round
    <3>1. \A e \in Made(round) : e[1] = round
      BY DEF Made
    <3>2. \A e \in Made(round) : e \notin drawing'.edits
      BY <1>3, <1>5, <3>1
    <3>3. QED
      BY <1>2, <1>4, <1>6, <2>1, <3>2 DEF WholeIn
  <2>2. CASE r # round
    <3>1. r \in 1..(round - 1)
      BY <1>3, <2>2
    <3>2. WholeIn(Snap.edits, r)
      BY <3>1 DEF RoundInv, RoundParts, OpenRound
    <3>3. QED
      BY <1>1, <1>2, <1>6, <3>2 DEF WholeIn
  <2>3. QED
    BY <2>1, <2>2
<1>8. QED
  BY <1>1, <1>5, <1>7
\* The rollback of a round that made things worse.
LEMMA RollbackKeepsRounds == RoundInv /\ Rollback => RoundParts'
<1> SUFFICES ASSUME RoundInv, Rollback PROVE RoundParts'
  OBVIOUS
<1>1. pc = "rollback" /\ pc' = "rolled" /\ late = None /\ owed = None /\ stray = None /\ ~refused /\ Open /\ ~Open'
  BY StillOwn, RefineAssumption DEF Rollback, RoundInv, RoundParts, LateIs, Open, InRound, engineVars, ghosts
<1>2. UNCHANGED <<callers, made, rounds, refused, late, owed, stray, round>>
  BY DEF Rollback, engineVars, roundVars
<1>3. /\ stack' = callers
      /\ \A e \in drawing'.edits : e[1] < round
      /\ \A r \in 1..round : WholeIn(drawing.edits, r)'
  BY <1>1, <1>2, RolledBackWhole DEF Rollback
<1>4. round \in Nat /\ round > 0 /\ Len(rounds) = round - 1
  BY <1>1 DEF RoundInv, RoundParts, Counted, TypeInv, TypeOK
<1>5. ClosedRound'
  BY <1>1, <1>2, <1>3 DEF ClosedRound
<1>6. Had(drawing.edits)' /\ Had(made)'
  <2>1. drawing'.edits \subseteq Edits
    BY <1>1, SnapType, StackType DEF Rollback, RolledBack, Drawing, RoundInv, TypeInv
  <2>2. \A e \in Edits : e[1] \in Nat
    BY RefineAssumption DEF Edits
  <2>3. QED
    BY <1>2, <1>3, <1>4, <2>1, <2>2 DEF Had, RoundInv, RoundParts
<1>7. Counted' /\ LateIs' /\ OwedIs' /\ StrayRound' /\ OpenRound' /\ (refused => pc = "done")'
  BY <1>1, <1>2, <1>4 DEF Counted, LateIs, OwedIs, StrayRound, OpenRound
<1>8. QED
  BY <1>5, <1>6, <1>7 DEF RoundParts

\* Its outcome is counted.
LEMMA RolledKeepsRounds == RoundInv /\ Rolled => RoundParts'
<1> SUFFICES ASSUME RoundInv, Rolled PROVE RoundParts'
  OBVIOUS
<1>1. pc = "rolled" /\ pc' = "last" /\ late = None /\ owed = None /\ stray = None /\ ~refused /\ ~Open /\ ~Open'
  BY StillOwn, RefineAssumption DEF Rolled, RoundInv, RoundParts, LateIs, Open, InRound, engineVars, ghosts
<1>2. UNCHANGED <<drawing, callers, made, stack, refused, late, owed, stray, round>> /\ rounds' = Append(rounds, "rolled_back")
  BY DEF Rolled, ghosts, engineVars
<1>3. round \in Nat /\ round > 0 /\ Len(rounds) = round - 1
  BY <1>1 DEF RoundInv, RoundParts, Counted, TypeInv, TypeOK
<1>4. Len(rounds') = round /\ CommittedRounds' = CommittedRounds
  BY <1>2, <1>3, Outcome DEF RoundInv, TypeInv
<1>5. \A r : WholeIn(drawing.edits, r)' = WholeIn(drawing.edits, r)
  BY <1>2, <1>4 DEF WholeIn, Made
<1>6. ClosedRound'
  BY <1>1, <1>2, <1>5 DEF ClosedRound, RoundInv, RoundParts
<1>7. Counted' /\ LateIs' /\ OwedIs' /\ StrayRound' /\ OpenRound' /\ (refused => pc = "done")'
  BY <1>1, <1>2, <1>4 DEF Counted, LateIs, OwedIs, StrayRound, OpenRound
<1>8. Had(drawing.edits)' /\ Had(made)'
  BY <1>2 DEF Had, RoundInv, RoundParts
<1>9. QED
  BY <1>6, <1>7, <1>8 DEF RoundParts

\* The rollback of a round that raised or was cancelled.
LEMMA UndoKeepsRounds == RoundInv /\ Undo => RoundParts'
<1> SUFFICES ASSUME RoundInv, Undo PROVE RoundParts'
  OBVIOUS
<1>1. pc = "undo" /\ pc' \in {"last", "done"} /\ late = None /\ owed = None /\ stray = None /\ ~refused /\ Open /\ ~Open'
  BY StillOwn, RefineAssumption DEF Undo, Ends, Served, RoundInv, RoundParts, Open, InRound, engineVars, ghosts
<1>2. UNCHANGED <<callers, made, refused, late, owed, stray, round>>
  BY DEF Undo, engineVars
<1>3. \/ pc' = "done" /\ rounds' = rounds
      \/ pc' = "last" /\ rounds' = Append(rounds, "rolled_back")
  BY DEF Undo, Ends
<1>4. /\ stack' = callers
      /\ \A e \in drawing'.edits : e[1] < round
      /\ \A r \in 1..round : WholeIn(drawing.edits, r)'
  BY <1>1, <1>2, <1>3, RolledBackWhole DEF Undo
<1>5. round \in Nat /\ round > 0 /\ Len(rounds) = round - 1
  BY <1>1 DEF RoundInv, RoundParts, Counted, TypeInv, TypeOK
<1>6. ClosedRound'
  BY <1>1, <1>2, <1>4 DEF ClosedRound
<1>7. Had(drawing.edits)' /\ Had(made)'
  <2>1. drawing'.edits \subseteq Edits
    BY <1>1, SnapType, StackType DEF Undo, RolledBack, Drawing, RoundInv, TypeInv
  <2>2. \A e \in Edits : e[1] \in Nat
    BY RefineAssumption DEF Edits
  <2>3. QED
    BY <1>2, <1>4, <1>5, <2>1, <2>2 DEF Had, RoundInv, RoundParts
<1>8. Counted'
  <2>1. CASE pc' = "done"
    BY <1>1, <2>1 DEF Counted
  <2>2. CASE pc' = "last"
    <3>1. Len(rounds') = round
      BY <1>3, <1>5, <2>2, Outcome DEF RoundInv, TypeInv
    <3>2. QED
      BY <1>1, <1>2, <2>2, <3>1 DEF Counted
  <2>3. QED
    BY <1>1, <2>1, <2>2
<1>9. LateIs' /\ OwedIs' /\ StrayRound' /\ OpenRound' /\ (refused => pc = "done")'
  BY <1>1, <1>2 DEF LateIs, OwedIs, StrayRound, OpenRound
<1>10. QED
  BY <1>6, <1>7, <1>8, <1>9 DEF RoundParts

\* A begin that declines: no transaction, and nothing was made.
LEMMA DeclinedKeepsRounds == RoundInv /\ BeginDeclined => RoundParts'
<1> SUFFICES ASSUME RoundInv, BeginDeclined PROVE RoundParts'
  OBVIOUS
<1>1. pc = "begin" /\ pc' = "done" /\ late = None /\ owed = None /\ stray = None /\ ~refused /\ ~Open /\ ~Open'
  BY StillOwn, RefineAssumption DEF BeginDeclined, Ends, RoundInv, RoundParts, LateIs, Open, InRound, engineVars, ghosts
<1>2. /\ UNCHANGED <<drawing, callers, made, stack, refused, late, owed, stray, round>>
      /\ rounds' = rounds \/ rounds' = Append(rounds, "not_started")
  BY DEF BeginDeclined, ghosts, engineVars
<1>3. CommittedRounds' = CommittedRounds
  BY <1>2, Outcome DEF RoundInv, TypeInv, CommittedRounds
<1>4. \A r : WholeIn(drawing.edits, r)' = WholeIn(drawing.edits, r)
  BY <1>2, <1>3 DEF WholeIn, Made
<1>5. ClosedRound'
  BY <1>1, <1>2, <1>4 DEF ClosedRound, RoundInv, RoundParts
<1>6. Counted' /\ LateIs' /\ OwedIs' /\ StrayRound' /\ OpenRound' /\ (refused => pc = "done")'
  BY <1>1, <1>2 DEF Counted, LateIs, OwedIs, StrayRound, OpenRound
<1>7. Had(drawing.edits)' /\ Had(made)'
  BY <1>2 DEF Had, RoundInv, RoundParts
<1>8. QED
  BY <1>5, <1>6, <1>7 DEF RoundParts

\* A refused end of the transaction ends the request.
LEMMA RefusedKeepsRounds == RoundInv /\ (CloseRefused \/ UndoRefused) => RoundParts'
<1> SUFFICES ASSUME RoundInv, CloseRefused \/ UndoRefused PROVE RoundParts'
  OBVIOUS
<1>1. /\ pc' = "done" /\ refused' = TRUE /\ UNCHANGED <<drawing, made, round, late, owed, stray>>
      /\ owed = None /\ stray = None
  BY StillOwn DEF CloseRefused, UndoRefused, Ends, ghosts, engineVars, roundVars
<1>2. Counted' /\ LateIs' /\ OwedIs' /\ StrayRound' /\ OpenRound' /\ ClosedRound' /\ (refused => pc = "done")'
  BY <1>1, RefineAssumption DEF Counted, LateIs, OwedIs, StrayRound, OpenRound, ClosedRound, Open, InRound, RoundInv, RoundParts
<1>3. Had(drawing.edits)' /\ Had(made)'
  BY <1>1 DEF Had, RoundInv, RoundParts
<1>4. QED
  BY <1>2, <1>3 DEF RoundParts

\* A worker is left, with an edit of this round: the handler waits for it.
LEMMA LeftKeepsRounds ==
  ASSUME RoundInv, pc = "working", pc' = "undo", late' = <<round, calls + 1>>,
         UNCHANGED <<drawing, stack, callers, made, round, rounds, refused, owed, stray>>
  PROVE  RoundParts'
<1>1. Open /\ Open' /\ late'[1] = round /\ owed = None /\ stray = None
  BY StillOwn DEF Open, InRound
<1>2. \A r : Made(r)' = Made(r)
  BY DEF Made
<1>3. Snap' = Snap /\ CommittedRounds' = CommittedRounds
  BY DEF Snap, CommittedRounds
<1>4. \A r : WholeIn(drawing.edits, r)' = WholeIn(drawing.edits, r) /\ WholeIn(Snap.edits, r)' = WholeIn(Snap.edits, r)
  BY <1>2, <1>3 DEF WholeIn
<1>5. OpenRound'
  BY <1>1, <1>2, <1>3, <1>4 DEF OpenRound, RoundInv, RoundParts
<1>6. Counted' /\ LateIs' /\ OwedIs' /\ StrayRound' /\ ClosedRound' /\ (refused => pc = "done")'
  BY <1>1, RefineAssumption DEF Counted, LateIs, OwedIs, StrayRound, ClosedRound, Open, InRound, RoundInv, RoundParts
<1>7. Had(drawing.edits)' /\ Had(made)'
  BY DEF Had, RoundInv, RoundParts
<1>8. QED
  BY <1>5, <1>6, <1>7 DEF RoundParts

\* It ends.
LEMMA LateKeepsRounds == RoundInv /\ LateEnds => RoundParts'
<1> SUFFICES ASSUME RoundInv, LateEnds PROVE RoundParts'
  OBVIOUS
<1>1. late \in Edits /\ late[1] = round /\ late' = None
  BY DEF LateEnds, RoundInv, RoundParts, LateIs, OwedIs, StrayRound, TypeInv, TypeOK
<1>2. UNCHANGED <<stack, pc, callers, round, rounds, refused, owed, stray>> /\ owed = None /\ stray = None
  BY DEF LateEnds, roundVars, RoundInv, RoundParts, OwedIs, StrayRound
<1>3. pc = "undo" \/ (pc = "done" /\ refused)
  BY DEF LateEnds, RoundInv, RoundParts, LateIs, OwedIs, StrayRound
<1>4. CASE Edited(late) /\ made' = made \cup {late}
  <2>1. CASE pc = "undo"
    <3>1. InRound /\ InRound'
      BY <1>2, <2>1 DEF InRound
    <3>2. QED
      BY <1>1, <1>2, <1>4, <3>1, EditKeepsRounds
  <2>2. CASE pc = "done" /\ refused
    <3>1. ~Open /\ ~Open'
      BY <1>2, <2>2, RefineAssumption DEF Open, InRound
    <3>2. drawing'.edits = drawing.edits \cup {late}
      BY <1>4 DEF Edited
    <3>3. Had(drawing.edits)' /\ Had(made)'
      <4>1. late[1] <= round
        BY <1>1 DEF RoundInv, TypeInv, TypeOK
      <4>2. QED
        BY <1>2, <1>4, <3>2, <4>1 DEF Had, RoundInv, RoundParts
    <3>4. QED
      BY <1>1, <1>2, <2>2, <3>1, <3>3 DEF RoundParts, Counted, LateIs, OwedIs, StrayRound, OpenRound, ClosedRound
  <2>3. QED
    BY <1>3, <2>1, <2>2
<1>5. CASE UNCHANGED <<drawing, rev, made, quar>>
  <2>1. CASE pc = "undo"
    <3>1. \A r : Made(r)' = Made(r)
      BY <1>5 DEF Made
    <3>2. Snap' = Snap /\ CommittedRounds' = CommittedRounds
      BY <1>2 DEF Snap, CommittedRounds
    <3>3. \A r : WholeIn(drawing.edits, r)' = WholeIn(drawing.edits, r) /\ WholeIn(Snap.edits, r)' = WholeIn(Snap.edits, r)
      BY <1>5, <3>1, <3>2 DEF WholeIn
    <3>4. Open /\ Open'
      BY <1>2, <2>1 DEF Open, InRound
    <3>5. OpenRound'
      BY <1>2, <1>5, <3>1, <3>2, <3>3, <3>4 DEF OpenRound, RoundInv, RoundParts
    <3>6. Counted' /\ LateIs' /\ OwedIs' /\ StrayRound' /\ ClosedRound' /\ (refused => pc = "done")'
      BY <1>1, <1>2, <2>1, <3>4 DEF Counted, LateIs, OwedIs, StrayRound, ClosedRound, RoundInv, RoundParts
    <3>7. Had(drawing.edits)' /\ Had(made)'
      BY <1>2, <1>5 DEF Had, RoundInv, RoundParts
    <3>8. QED
      BY <3>5, <3>6, <3>7 DEF RoundParts
  <2>2. CASE pc = "done" /\ refused
    <3>1. ~Open'
      BY <1>2, <2>2, RefineAssumption DEF Open, InRound
    <3>2. Had(drawing.edits)' /\ Had(made)'
      BY <1>2, <1>5 DEF Had, RoundInv, RoundParts
    <3>3. QED
      BY <1>1, <1>2, <2>2, <3>1, <3>2 DEF RoundParts, Counted, LateIs, OwedIs, StrayRound, OpenRound, ClosedRound
  <2>3. QED
    BY <1>3, <2>1, <2>2
<1>6. QED
  BY <1>4, <1>5 DEF LateEnds

\* An edit of another client is of no round.
LEMMA OtherKeepsRounds == RoundInv /\ OtherEdit => RoundParts'
<1> SUFFICES ASSUME RoundInv, OtherEdit PROVE RoundParts'
  OBVIOUS
<1> DEFINE e == <<0, others + 1>>
<1>1. drawing'.edits = drawing.edits \cup {e} /\ e[1] = 0
  BY DEF OtherEdit, Edited
<1>2. /\ UNCHANGED <<stack, pc, callers, made, round, rounds, refused, late, owed, stray>>
      /\ owed = None /\ stray = None
  BY StillOwn DEF OtherEdit, roundVars, engineVars
<1> HIDE DEF e
<1>3. round \in Nat
  BY DEF RoundInv, TypeInv, TypeOK
<1>4. \A r : Made(r)' = Made(r)
  BY <1>2 DEF Made
<1>5. Snap' = Snap /\ CommittedRounds' = CommittedRounds
  BY <1>2 DEF Snap, CommittedRounds
<1>6. \A r \in 1..round : WholeIn(drawing.edits, r)' = WholeIn(drawing.edits, r) /\ WholeIn(Snap.edits, r)' = WholeIn(Snap.edits, r)
  <2>1. TAKE r \in 1..round
  <2>2. e \notin Made(r)
    BY <1>1, <1>3 DEF Made
  <2>3. Made(r) \cap drawing'.edits = Made(r) \cap drawing.edits
    BY <1>1, <2>2
  <2>4. QED
    BY <1>4, <1>5, <2>3 DEF WholeIn
<1>7. Open' = Open
  BY <1>2 DEF Open, InRound
<1>8. \A r : r \in 1..(round - 1) => r \in 1..round
  BY <1>3
<1>9. OpenRound'
  BY <1>1, <1>2, <1>4, <1>5, <1>6, <1>7, <1>8 DEF OpenRound, RoundInv, RoundParts
<1>10. ClosedRound'
  <2> SUFFICES ASSUME ~Open', ~refused' PROVE ClosedRound'
    BY DEF ClosedRound
  <2>1. ~Open /\ ~refused /\ stray = None
    BY <1>2, <1>7
  <2>2. /\ stack = callers
        /\ \A r \in 1..(IF pc = "committed" THEN round - 1 ELSE round) : WholeIn(drawing.edits, r)
        /\ (pc = "committed" => Made(round) \subseteq drawing.edits)
        /\ (pc = "begin" => \A b \in drawing.edits \cup made : b[1] < round)
    BY <2>1 DEF RoundInv, RoundParts, ClosedRound
  <2>3. \A r \in 1..(IF pc = "committed" THEN round - 1 ELSE round) : WholeIn(drawing.edits, r)'
    BY <1>6, <1>8, <2>2
  <2>4. pc = "begin" => \A b \in drawing'.edits \cup made : b[1] < round
    <3>1. pc = "begin" => e[1] < round
      BY <1>1, <1>3 DEF RoundInv, RoundParts, Counted
    <3>2. QED
      BY <1>1, <2>2, <3>1
  <2>5. QED
    BY <1>1, <1>2, <1>4, <2>2, <2>3, <2>4 DEF ClosedRound
<1>11. Counted' /\ LateIs' /\ OwedIs' /\ StrayRound' /\ (refused => pc = "done")'
  BY <1>2, <1>7 DEF Counted, LateIs, OwedIs, StrayRound, RoundInv, RoundParts
<1>12. Had(drawing.edits)' /\ Had(made)'
  BY <1>1, <1>2, <1>3 DEF Had, RoundInv, RoundParts
<1>13. QED
  BY <1>9, <1>10, <1>11, <1>12 DEF RoundParts

\* A call of the round's own is left: nothing has changed yet, and nothing waits for it.
LEMMA OwnKeepsRounds == RoundInv /\ OwnOverruns => RoundParts'
<1> SUFFICES ASSUME RoundInv, OwnOverruns PROVE RoundParts'
  OBVIOUS
<1>1. /\ pc \in {"begin", "commit", "rollback", "undo"} /\ pc' = "done" /\ owed = None /\ stray = None
      /\ late = None /\ ~refused /\ (pc = "begin" => ~Open) /\ (pc # "begin" => Open)
  BY StillOwn DEF OwnOverruns, Served, Ends, InRound, RoundInv, RoundParts
<1>2. UNCHANGED <<drawing, stack, callers, made, round, rounds, refused, late, stray>>
  BY DEF OwnOverruns, roundVars, ghosts
<1>3. /\ owed' = IF pc = "begin" THEN "begin" ELSE IF pc = "commit" THEN "commit" ELSE "rollback"
      /\ owed' # "rollback" => status' = "raised"
  BY <1>1 DEF OwnOverruns, Ends
<1>4. \A r : Made(r)' = Made(r)
  BY <1>2 DEF Made
<1>5. Snap' = Snap /\ CommittedRounds' = CommittedRounds
  BY <1>2 DEF Snap, CommittedRounds
<1>6. \A r : WholeIn(drawing.edits, r)' = WholeIn(drawing.edits, r) /\ WholeIn(Snap.edits, r)' = WholeIn(Snap.edits, r)
  BY <1>2, <1>4, <1>5 DEF WholeIn
<1>7. Open' = Open
  BY <1>1, <1>3, RefineAssumption DEF Open, InRound
<1>8. OpenRound'
  BY <1>2, <1>4, <1>5, <1>6, <1>7 DEF OpenRound, RoundInv, RoundParts
<1>9. ClosedRound'
  BY <1>1, <1>2, <1>6, <1>7 DEF ClosedRound, RoundInv, RoundParts
<1>10. Counted' /\ LateIs' /\ OwedIs' /\ StrayRound' /\ (refused => pc = "done")'
  BY <1>1, <1>2, <1>3, <1>7 DEF Counted, LateIs, OwedIs, StrayRound, RoundInv, RoundParts
<1>11. Had(drawing.edits)' /\ Had(made)'
  BY <1>2 DEF Had, RoundInv, RoundParts
<1>12. QED
  BY <1>8, <1>9, <1>10, <1>11 DEF RoundParts

\* It ends: a begin leaves its snapshot on top, a commit keeps the round, a rollback
\* takes it back.
LEMMA OwedKeepsRounds == RoundInv /\ OwedEnds => RoundParts'
<1> SUFFICES ASSUME RoundInv, OwedEnds PROVE RoundParts'
  OBVIOUS
<1>1. /\ owed \in {"begin", "commit", "rollback"} /\ owed # None /\ owed' = None
      /\ pc = "done" /\ late = None /\ stray = None /\ ~refused
      /\ owed # "rollback" => status = "raised"
  BY RefineAssumption DEF OwedEnds, RoundInv, RoundParts, OwedIs, TypeInv, Shape
<1>2. UNCHANGED <<pc, callers, made, round, rounds, refused, late, status>>
  BY DEF OwedEnds, roundVars
<1>3. ~Open' /\ Counted' /\ LateIs' /\ OwedIs' /\ OpenRound' /\ (refused => pc = "done")'
  BY <1>1, <1>2, RefineAssumption DEF Open, InRound, Counted, LateIs, OwedIs, OpenRound
<1>4. \A r : Made(r)' = Made(r)
  BY <1>2 DEF Made
<1>5. CommittedRounds' = CommittedRounds
  BY <1>2 DEF CommittedRounds
<1>6. CASE owed = "begin"
  <2>1. ~Open
    BY <1>1, <1>6 DEF Open, InRound
  <2>2. stack = callers /\ \A r \in 1..round : WholeIn(drawing.edits, r)
    BY <1>1, <2>1 DEF RoundInv, RoundParts, ClosedRound
  <2>3. drawing' = drawing
    BY <1>6 DEF OwedEnds
  <2>4. \A r \in 1..round : WholeIn(drawing.edits, r)'
    BY <1>4, <1>5, <2>2, <2>3 DEF WholeIn
  <2>5. Had(drawing.edits)' /\ Had(made)'
    BY <1>2, <2>3 DEF Had, RoundInv, RoundParts
  <2>6. CASE stack' = Append(stack, drawing) /\ stray' = owed
    <3>1. SubSeq(stack', 1, Len(stack') - 1) = stack
      BY <2>6, AppendedPops DEF RoundInv, TypeInv
    <3>2. StrayRound'
      BY <1>1, <1>2, <1>6, <2>2, <2>4, <2>6, <3>1 DEF StrayRound
    <3>3. ClosedRound'
      BY <1>1, <2>6 DEF ClosedRound
    <3>4. QED
      BY <1>3, <2>5, <3>2, <3>3 DEF RoundParts
  <2>7. CASE UNCHANGED <<stack, stray>>
    <3>1. StrayRound' /\ ClosedRound'
      BY <1>1, <1>2, <2>2, <2>4, <2>7 DEF StrayRound, ClosedRound
    <3>2. QED
      BY <1>3, <2>5, <3>1 DEF RoundParts
  <2>8. QED
    BY <1>6, <2>6, <2>7 DEF OwedEnds
<1>7. CASE owed = "commit"
  <2>1. Open
    BY <1>7 DEF Open
  <2>2. stack' = callers /\ stray' = "commit" /\ drawing' = drawing
    BY <1>7, <2>1, Popped DEF OwedEnds
  <2>3. /\ \A r \in 1..(round - 1) : WholeIn(drawing.edits, r)
        /\ Made(round) \subseteq drawing.edits
    BY <2>1 DEF RoundInv, RoundParts, OpenRound
  <2>4. \A r \in 1..(round - 1) : WholeIn(drawing.edits, r)'
    BY <1>4, <1>5, <2>2, <2>3 DEF WholeIn
  <2>5. StrayRound'
    BY <1>1, <1>2, <1>4, <1>7, <2>2, <2>3, <2>4 DEF StrayRound
  <2>6. ClosedRound'
    BY <2>2, RefineAssumption DEF ClosedRound
  <2>7. Had(drawing.edits)' /\ Had(made)'
    BY <1>2, <2>2 DEF Had, RoundInv, RoundParts
  <2>8. QED
    BY <1>3, <2>5, <2>6, <2>7 DEF RoundParts
<1>8. CASE owed = "rollback"
  <2>1. Open
    BY <1>8 DEF Open
  <2>2. RolledBack /\ stray' = stray
    BY <1>8 DEF OwedEnds
  <2>3. /\ stack' = callers
        /\ \A e \in drawing'.edits : e[1] < round
        /\ \A r \in 1..round : WholeIn(drawing.edits, r)'
    BY <1>2, <2>1, <2>2, RolledBackWhole
  <2>4. StrayRound' /\ ClosedRound'
    BY <1>1, <1>2, <2>2, <2>3 DEF StrayRound, ClosedRound
  <2>5. Had(drawing.edits)' /\ Had(made)'
    <3>1. drawing'.edits \subseteq Edits /\ round \in Nat
      BY <2>1, <2>2, SnapType, StackType DEF RolledBack, Drawing, RoundInv, TypeInv, TypeOK
    <3>2. \A e \in Edits : e[1] \in Nat
      BY RefineAssumption DEF Edits
    <3>3. QED
      BY <1>2, <2>3, <3>1, <3>2 DEF Had, RoundInv, RoundParts
  <2>6. QED
    BY <1>3, <2>4, <2>5 DEF RoundParts
<1>9. QED
  BY <1>1, <1>6, <1>7, <1>8

\* No step breaks a round.
LEMMA RoundsKept == ClosesAlone /\ RoundInv /\ [Next]_vars => RoundInv'
<1> SUFFICES ASSUME ClosesAlone, RoundInv, [Next]_vars PROVE RoundParts'
  BY TypeKept DEF RoundInv
<1>2. pc # "undo" /\ pc # "done" => late = None
  BY DEF RoundInv, RoundParts, LateIs, OwedIs, StrayRound
<1> USE DEF ghosts, engineVars, roundVars
<1>3. CASE UNCHANGED vars
  BY <1>3, Quiet DEF vars
<1>4. ASSUME NEW g \in BOOLEAN, NEW m \in MinScores, Apply(g, m) PROVE RoundParts'
  BY <1>4, Quiet DEF Apply, Between
<1>5. CASE DryRun \/ Check \/ WatchBegins
  BY <1>5, Quiet DEF DryRun, Check, WatchBegins, Ends, Between
<1>6. CASE FirstCritique \/ FirstCritiqueRaises
  BY <1>6, Quiet DEF FirstCritique, FirstCritiqueRaises, Ends, Between
<1>7. CASE NoRound
  BY <1>7, Quiet DEF NoRound, Ends, Between
<1>8. CASE BeginRefused
  BY <1>8, Quiet DEF BeginRefused, Ends
<1>9. CASE Begun \/ RepairTurn \/ RepairCall \/ RepairRaises \/ Repaired
  <2>1. InRound /\ InRound' /\ late = None /\ pc # "done"
    BY <1>2, <1>9 DEF Begun, RepairTurn, RepairCall, RepairRaises, Repaired, InRound
  <2>2. UNCHANGED <<drawing, stack, callers, made, round, rounds, refused, late, owed, stray>>
    BY <1>9 DEF Begun, RepairTurn, RepairCall, RepairRaises, Repaired
  <2>3. QED
    BY <2>1, <2>2, Quiet
<1>10. CASE Recritique \/ RecritiqueRaises \/ Judge
  <2>1. InRound /\ InRound' /\ late = None /\ pc # "done"
    BY <1>2, <1>10 DEF Recritique, RecritiqueRaises, Judge, InRound
  <2>2. UNCHANGED <<drawing, stack, callers, made, round, rounds, refused, late, owed, stray>>
    BY <1>10 DEF Recritique, RecritiqueRaises, Judge
  <2>3. QED
    BY <2>1, <2>2, Quiet
<1>11. CASE RepairLands
  <2>1. <<round, calls + 1>> \in Edits
    BY NextEdit DEF RoundInv, TypeInv
  <2>2. InRound /\ InRound' /\ late = None
    BY <1>2, <1>11 DEF RepairLands, InRound
  <2>3. QED
    BY <1>11, <2>1, <2>2, EditKeepsRounds DEF RepairLands
<1>12. CASE RepairOverruns
  BY <1>12, LeftKeepsRounds DEF RepairOverruns
<1>13. CASE LastCritique \/ LastCritiqueRaises
  BY <1>13, Quiet DEF LastCritique, LastCritiqueRaises, Ends, Between
<1>14. CASE LateOverruns \/ ReadEnds
  BY <1>14, Quiet DEF LateOverruns, ReadEnds
<1>15. CASE Cancel
  <2>1. pc \in {"critique", "begin", "next", "repair", "working", "last"}
    BY <1>15, RefineAssumption DEF Cancel, ClosesAlone
  <2>2. CASE pc = "working"
    BY <1>15, <2>2, LeftKeepsRounds DEF Cancel, Leaves
  <2>3. CASE pc # "working"
    <3>1. UNCHANGED <<drawing, stack, callers, made, round, rounds, refused, late, owed, stray>> /\ pc # "done"
      BY <1>15, <2>1, <2>3 DEF Cancel
    <3>2. CASE pc \in {"next", "repair"}
      <4>1. InRound /\ InRound' /\ late = None
        BY <1>2, <1>15, <3>2 DEF Cancel, Leaves, InRound
      <4>2. QED
        BY <3>1, <4>1, Quiet
    <3>3. CASE pc \in {"critique", "begin", "last"}
      <4>1. pc' = pc \/ pc' = "done"
        BY <1>15, <3>3 DEF Cancel, Leaves, Ends
      <4>2. QED
        BY <3>1, <3>3, <4>1, Quiet DEF Between
    <3>4. QED
      BY <2>1, <2>3, <3>2, <3>3
  <2>4. QED
    BY <2>2, <2>3
<1>16. QED
  BY OwnKeepsRounds, OwedKeepsRounds, <1>3, <1>4, <1>5, <1>6, <1>7, <1>8, <1>9, <1>10, <1>11, <1>12, <1>13, <1>14, <1>15,
     StartKeepsRounds, BeginKeepsRounds, DeclinedKeepsRounds, CommitKeepsRounds, CommittedKeepsRounds,
     RollbackKeepsRounds, RolledKeepsRounds, UndoKeepsRounds, RefusedKeepsRounds, LateKeepsRounds,
     OtherKeepsRounds DEF Next

\* When it starts there is no round.
LEMMA InitRounds == Init => RoundInv
<1> SUFFICES ASSUME Init PROVE RoundInv
  OBVIOUS
<1>1. TypeInv
  BY InitTypes
<1>2. /\ pc = "idle" /\ ~Open /\ round = 0 /\ rounds = <<>> /\ stack = callers /\ ~refused
      /\ late = None /\ owed = None /\ stray = None
  BY RefineAssumption DEF Init, Open, InRound
<1>3. drawing.edits = {} /\ made = {}
  BY DEF Init
<1>4. Len(rounds) = round /\ \A r \in 1..round : FALSE
  BY <1>2
<1>5. RoundParts
  BY <1>2, <1>3, <1>4 DEF RoundParts, Had, Counted, LateIs, OwedIs, StrayRound, OpenRound, ClosedRound
<1>6. QED
  BY <1>1, <1>5 DEF RoundInv

\* A request that is cancelled only where it has a handler keeps its rounds whole,
\* however its calls fail, overrun and interleave with other clients'.
THEOREM RoundsAreWhole ==
  ASSUME ClosesAlone
  PROVE  Spec => []RoundWhole
<1>1. RoundInv => RoundWhole
  <2> SUFFICES ASSUME RoundInv, Over PROVE RoundWhole
    BY DEF RoundWhole
  <2>1. ~Open /\ ~refused /\ pc = "done"
    BY RefineAssumption DEF Over, Open, InRound
  <2>2. CASE stray = None
    <3>1. stack = callers /\ \A r \in 1..round : WholeIn(drawing.edits, r)
      BY <2>1, <2>2 DEF RoundInv, RoundParts, ClosedRound
    <3>2. QED
      BY <2>2, <3>1, RefineAssumption DEF RoundWhole, WholeIn
  <2>3. CASE stray = "begin"
    <3>1. /\ status = "raised" /\ callers = SubSeq(stack, 1, Len(stack) - 1)
          /\ \A r \in 1..round : WholeIn(drawing.edits, r)
      BY <2>3, RefineAssumption DEF RoundInv, RoundParts, StrayRound
    <3>2. QED
      BY <2>3, <3>1 DEF RoundWhole, WholeIn
  <2>4. CASE stray = "commit"
    <3>1. /\ status = "raised" /\ stack = callers /\ round \in Nat
          /\ \A r \in 1..(round - 1) : WholeIn(drawing.edits, r)
          /\ Made(round) \subseteq drawing.edits
      BY <2>4, RefineAssumption DEF RoundInv, RoundParts, StrayRound, TypeInv, TypeOK
    <3>2. \A r \in 1..round : r = round \/ r \in 1..(round - 1)
      BY <3>1
    <3>3. \A r \in 1..round : Made(r) \cap drawing.edits = IF r \in CommittedRounds \/ r = round THEN Made(r) ELSE {}
      BY <3>1, <3>2 DEF WholeIn
    <3>4. QED
      BY <2>4, <3>1, <3>3 DEF RoundWhole
  <2>5. QED
    BY <2>2, <2>3, <2>4 DEF RoundInv, TypeInv, TypeOK
<1>2. RoundInv /\ [Next]_vars => RoundInv'
  BY RoundsKept
<1>3. QED
  BY <1>1, <1>2, InitRounds, PTL DEF Spec
-------------------------------------------------------------------------------
(* The watch *)

\* What the types say of the changes between our calls.
LEMMA ChangeTypes ==
  ASSUME TypeInv
  PROVE  /\ \A p \in outside : p[2] \in Nat
         /\ lost \subseteq outside /\ rev \in Nat
         /\ Watched /\ pc # "done" => last \in Nat
BY DEF TypeInv, TypeOK, Shape, Watched, Unwatched

\* A step that the watch does not take, and that takes nothing away.
LEMMA WatchQuiet ==
  ASSUME TypeInv, WatchInv, UNCHANGED <<outside, lost, guarded, start, seen, last, stack>>,
         drawing.edits \subseteq drawing'.edits, rev' \in Nat, rev <= rev',
         InRound' => InRound, InCall' => InCall, Unwatched' => Unwatched, Watched' => Watched,
         pc' # "done" => pc # "done",
         pc' \notin {"rolled", "last", "done"} => pc \notin {"rolled", "last", "done"},
         pc' = "rolled" => pc = "rolled",
         status' = "rolled_back" => status = "rolled_back",
         status' # None => pc' \in {"last", "done"}
  PROVE  WatchInv'
<1>1. \A p \in outside : p[2] \in Nat
  BY ChangeTypes
<1>2. \A p : (Named(p)' <=> Named(p)) /\ (Old(p) => Old(p)')
  BY DEF Named, Old, Snap
<1>3. \A p \in outside' : p[2] <= rev'
  BY <1>1, ChangeTypes DEF WatchInv
<1>4. Watched' /\ pc' # "done" => last' <= rev'
  BY ChangeTypes DEF WatchInv
<1>5. Unwatched' => \A p \in outside' : p[1] \in drawing'.edits
  BY DEF WatchInv
<1>6. Watched' /\ pc' # "done" => \A p \in outside' : Old(p)' \/ Named(p)' \/ (p[2] > last' /\ ~InCall')
  BY <1>2 DEF WatchInv
<1>7. /\ guarded' /\ pc' = "rolled" => \A p \in lost' : Named(p)'
      /\ guarded' /\ status' = "rolled_back" => \A p \in lost' : Named(p)'
  BY <1>2 DEF WatchInv
<1>8. pc' \notin {"rolled", "last", "done"} => lost' = {}
  BY DEF WatchInv
<1>9. QED
  BY <1>3, <1>4, <1>5, <1>6, <1>7, <1>8 DEF WatchInv

\* Where the watch looks before a call: what has changed since its last look is named.
LEMMA LooksBefore ==
  ASSUME TypeInv, WatchInv, UNCHANGED <<drawing, outside, lost, guarded, stack, rev, status>>, WatchBefore,
         pc \in {"round", "next", "judge"}, pc' \in {"begin", "repair", "rollback", "commit"}, InRound' => InRound
  PROVE  WatchInv'
<1>1. \A p \in outside : p[2] \in Nat /\ p[2] <= rev
  BY ChangeTypes DEF WatchInv
<1>2. rev \in Nat /\ (Watched => last \in Nat /\ last <= rev) /\ (Watched' <=> Watched) /\ (Watched => guarded)
  BY ChangeTypes DEF WatchInv, Watched, Unwatched
<1>3. lost' = {} /\ status' = None
  BY DEF WatchInv
<1>4. ASSUME Watched PROVE \A p \in outside : Old(p)' \/ Named(p)'
  <2>1. start' = start /\ last' = rev /\ seen \subseteq seen' /\ (rev # last => <<last, rev>> \in seen')
    BY <1>2, <1>4 DEF WatchBefore
  <2>2. TAKE p \in outside
  <2>3. CASE Old(p)
    BY <2>1, <2>3 DEF Old, Snap
  <2>4. CASE Named(p)
    BY <2>1, <2>4 DEF Named
  <2>5. CASE p[2] > last
    <3>1. rev # last
      BY <1>1, <1>2, <1>4, <2>2, <2>5
    <3>2. <<last, rev>>[1] < p[2] /\ p[2] <= <<last, rev>>[2]
      BY <1>1, <2>2, <1>4, <1>2, <2>5
    <3>3. Named(p)'
      BY <2>1, <3>1, <3>2 DEF Named
    <3>4. QED
      BY <3>3
  <2>6. QED
    BY <1>4, <2>2, <2>3, <2>4, <2>5 DEF WatchInv
<1>5. Watched => last' = rev
  BY <1>2 DEF WatchBefore
<1>6. ~Unwatched' /\ pc' # "done" /\ pc' # "rolled"
  BY DEF Unwatched
<1>7. QED
  BY <1>1, <1>2, <1>3, <1>4, <1>5, <1>6, RefineAssumption DEF WatchInv

\* Where it looks after one: all there is has been named.
LEMMA LooksAfter ==
  ASSUME TypeInv, WatchInv, UNCHANGED <<drawing, outside, lost, guarded, stack, rev>>, WatchAfter,
         pc \in {"begin", "begun", "repaired", "committed", "rolled"},
         ~Unwatched', pc' # "rolled", InRound' => InRound,
         pc' \notin {"last", "done"} => pc # "rolled",
         status' # None => pc' \in {"last", "done"},
         status' = "rolled_back" => pc = "rolled" \/ lost = {}
  PROVE  WatchInv'
<1>1. \A p \in outside : p[2] \in Nat /\ p[2] <= rev
  BY ChangeTypes DEF WatchInv
<1>2. rev \in Nat /\ (Watched' => Watched /\ guarded) /\ pc # "done" /\ InCall
  BY ChangeTypes DEF Watched, Unwatched, InCall
<1>3. start' = start /\ seen' = seen /\ (guarded => last' = rev)
  BY DEF WatchAfter
<1>4. \A p : (Named(p)' <=> Named(p)) /\ (Old(p) => Old(p)')
  BY <1>3 DEF Named, Old, Snap
<1>5. Watched' => \A p \in outside : Old(p)' \/ Named(p)'
  BY <1>2, <1>4 DEF WatchInv
<1>6. guarded /\ pc = "rolled" => \A p \in lost : Named(p)'
  BY <1>4 DEF WatchInv
<1>7. pc' \notin {"rolled", "last", "done"} => lost' = {}
  BY DEF WatchInv
<1>8. QED
  BY <1>1, <1>2, <1>3, <1>5, <1>6, <1>7 DEF WatchInv

\* The rollback of a worse round takes away nothing that is not named.
LEMMA RollbackKeepsWatch == TypeInv /\ WatchInv /\ Rollback => WatchInv'
<1> SUFFICES ASSUME TypeInv, WatchInv, Rollback PROVE WatchInv'
  OBVIOUS
<1>1. /\ pc = "rollback" /\ pc' = "rolled" /\ drawing' = Snap /\ rev' = rev + 1
      /\ lost' = lost \cup {p \in outside : p[1] \in drawing.edits \ Snap.edits}
      /\ UNCHANGED <<outside, guarded, start, last, seen, status>>
  BY DEF Rollback, RolledBack, Snap, askVars, watchVars
<1>2. lost = {} /\ status = None
  BY <1>1 DEF WatchInv
<1>3. \A p \in outside : p[2] \in Nat /\ p[2] <= rev
  BY ChangeTypes DEF WatchInv
<1>4. rev \in Nat /\ InRound /\ InCall /\ InCall' /\ ~InRound' /\ (Watched <=> guarded) /\ ~Unwatched'
  BY <1>1, ChangeTypes DEF InRound, InCall, Watched, Unwatched
<1>5. \A p : Named(p)' <=> Named(p)
  BY <1>1 DEF Named
<1>6. guarded => \A p \in outside : Old(p) \/ Named(p)
  BY <1>1, <1>4 DEF WatchInv
<1>7. \A p : Old(p) => p[1] \in Snap.edits /\ Old(p)'
  BY <1>1, <1>4 DEF Old
<1>8. guarded => \A p \in lost' : Named(p)'
  BY <1>1, <1>2, <1>5, <1>6, <1>7
<1>9. guarded => last' <= rev'
  BY <1>1, <1>4, ChangeTypes DEF WatchInv
<1>10. \A p \in outside' : p[2] <= rev'
  BY <1>1, <1>3, <1>4
<1>11. QED
  BY <1>1, <1>2, <1>4, <1>5, <1>6, <1>7, <1>8, <1>9, <1>10, RefineAssumption DEF WatchInv, Watched

\* The rollback of a round that raised: the answer is another.
LEMMA UndoKeepsWatch == TypeInv /\ WatchInv /\ Undo => WatchInv'
<1> SUFFICES ASSUME TypeInv, WatchInv, Undo PROVE WatchInv'
  OBVIOUS
<1>1. /\ pc = "undo" /\ pc' \in {"last", "done"} /\ drawing' = Snap /\ rev' = rev + 1
      /\ UNCHANGED <<outside, guarded, start, last, seen>> /\ status' \in {"cancelled", "repair_failed"}
  BY DEF Undo, RolledBack, Snap, askVars, watchVars, Ends
<1>2. \A p \in outside : p[2] \in Nat /\ p[2] <= rev
  BY ChangeTypes DEF WatchInv
<1>3. rev \in Nat /\ InRound /\ ~InCall' /\ ~InRound' /\ (Watched <=> guarded) /\ ~Unwatched'
  BY <1>1, ChangeTypes DEF InRound, InCall, Watched, Unwatched
<1>4. \A p : (Named(p) => Named(p)') /\ (Old(p) => Old(p)')
  BY <1>1, <1>3 DEF Named, Old
<1>5. guarded => \A p \in outside : Old(p)' \/ Named(p)' \/ p[2] > last'
  BY <1>1, <1>3, <1>4 DEF WatchInv
<1>6. guarded => last' <= rev'
  BY <1>1, <1>3, ChangeTypes DEF WatchInv
<1>7. \A p \in outside' : p[2] <= rev'
  BY <1>1, <1>2, <1>3
<1>8. QED
  BY <1>1, <1>3, <1>5, <1>6, <1>7 DEF WatchInv, Watched

\* Another client's edit, between our calls, is newer than the watch's last look.
LEMMA OtherKeepsWatch == TypeInv /\ WatchInv /\ OtherEdit => WatchInv'
<1> SUFFICES ASSUME TypeInv, WatchInv, OtherEdit PROVE WatchInv'
  OBVIOUS
<1> DEFINE e == <<0, others + 1>>
<1>1. /\ pc # "done" /\ rev' = rev + 1 /\ drawing'.edits = drawing.edits \cup {e}
      /\ outside' = IF InCall THEN outside ELSE outside \cup {<<e, rev + 1>>}
      /\ UNCHANGED <<stack, pc, guarded, start, last, seen, status, lost>>
  BY DEF OtherEdit, Edited, askVars, watchVars
<1> HIDE DEF e
<1>2. rev \in Nat /\ \A p \in outside : p[2] \in Nat /\ p[2] <= rev
  BY ChangeTypes DEF WatchInv
<1>3. \A p : (Named(p)' <=> Named(p)) /\ (Old(p) => Old(p)')
  BY <1>1 DEF Named, Old, Snap, InRound
<1>4. \A p \in outside' : p[2] <= rev'
  BY <1>1, <1>2
<1>5. Watched => last \in Nat /\ last <= rev
  BY <1>1, ChangeTypes DEF WatchInv
<1>6. Watched' = Watched /\ InCall' = InCall /\ Unwatched' = Unwatched
  BY <1>1 DEF Watched, InCall, Unwatched
<1>7. Watched => \A p \in outside' : Old(p)' \/ Named(p)' \/ (p[2] > last' /\ ~InCall')
  <2>1. SUFFICES ASSUME Watched, NEW p \in outside' PROVE Old(p)' \/ Named(p)' \/ (p[2] > last' /\ ~InCall')
    OBVIOUS
  <2>2. CASE p \in outside
    BY <1>1, <1>3, <1>6, <2>1, <2>2 DEF WatchInv
  <2>3. CASE p \notin outside
    <3>1. p = <<e, rev + 1>> /\ ~InCall
      BY <1>1, <2>1, <2>3
    <3>2. p[2] > last
      BY <1>2, <1>5, <2>1, <3>1
    <3>3. QED
      BY <1>1, <1>6, <3>1, <3>2
  <2>4. QED
    BY <2>2, <2>3
<1>8. Unwatched => \A p \in outside' : p[1] \in drawing'.edits
  BY <1>1 DEF WatchInv
<1>9. /\ status' # None => pc' \in {"last", "done"}
      /\ pc' \notin {"rolled", "last", "done"} => lost' = {}
      /\ guarded' /\ pc' = "rolled" => \A p \in lost' : Named(p)'
      /\ guarded' /\ status' = "rolled_back" => \A p \in lost' : Named(p)'
  BY <1>1, <1>3 DEF WatchInv
<1>10. Watched => last' <= rev'
  BY <1>1, <1>2, <1>5
<1>11. QED
  BY <1>4, <1>6, <1>7, <1>8, <1>9, <1>10 DEF WatchInv
\* The watch begins: what there is is older.
LEMMA BeginsWatch == TypeInv /\ WatchInv /\ WatchBegins => WatchInv'
<1> SUFFICES ASSUME TypeInv, WatchInv, WatchBegins PROVE WatchInv'
  OBVIOUS
<1>1. /\ pc = "watch" /\ pc' = "critique" /\ start' = rev /\ last' = rev
      /\ UNCHANGED <<drawing, rev, outside, lost, guarded, seen, status>>
  BY DEF WatchBegins, askVars, ghosts
<1>2. rev \in Nat /\ rev # None
  BY RefineAssumption DEF TypeInv, TypeOK
<1>3. Unwatched /\ ~InRound' /\ ~Unwatched' /\ ~InCall'
  BY <1>1 DEF InRound, InCall, Unwatched
<1>4. \A p \in outside : p[2] <= rev /\ p[1] \in drawing.edits
  BY <1>3 DEF WatchInv
<1>5. \A p \in outside : Old(p)'
  BY <1>1, <1>2, <1>3, <1>4 DEF Old
<1>6. lost = {} /\ status = None
  BY <1>1 DEF WatchInv
<1>7. QED
  BY <1>1, <1>2, <1>3, <1>4, <1>5, <1>6, RefineAssumption DEF WatchInv

\* No step loses sight of an edit of another client.
LEMMA WatchKept == TypeInv /\ WatchInv /\ [Next]_vars => WatchInv'
<1> SUFFICES ASSUME TypeInv, WatchInv, [Next]_vars PROVE WatchInv'
  OBVIOUS
<1>0. rev \in Nat /\ rev <= rev /\ rev <= rev + 1 /\ rev + 1 \in Nat
  BY DEF TypeInv, TypeOK
<1> USE DEF askVars, ghosts, watchVars
<1>1. CASE UNCHANGED vars
  <2>1. UNCHANGED <<pc, status, drawing, rev, guarded>>
    BY <1>1 DEF vars
  <2>2. QED
    BY <1>0, <1>1, <2>1, WatchQuiet DEF vars, InRound, InCall, Watched, Unwatched, WatchInv
<1>2. CASE DryRun
  BY <1>0, <1>2, WatchQuiet DEF DryRun, InRound, InCall, Watched, Unwatched, WatchInv
<1>3. ASSUME NEW g \in BOOLEAN, NEW m \in MinScores, Apply(g, m) PROVE WatchInv'
  <2>1. /\ pc = "idle" /\ guarded' = g /\ pc' = IF g THEN "check" ELSE "critique"
        /\ UNCHANGED <<drawing, rev, stack, start, last, seen, status, outside, lost>>
    BY <1>3 DEF Apply
  <2>2. lost = {} /\ status = None /\ \A p \in outside : p[2] <= rev /\ p[1] \in drawing.edits
    BY <2>1 DEF WatchInv, Unwatched
  <2>3. ~Watched'
    BY <2>1 DEF Watched, Unwatched
  <2>4. QED
    BY <2>1, <2>2, <2>3, RefineAssumption DEF WatchInv
<1>4. CASE Check
  BY <1>0, <1>4, WatchQuiet, RefineAssumption DEF Check, Ends, InRound, InCall, Watched, Unwatched, WatchInv
<1>5. CASE FirstCritique \/ FirstCritiqueRaises
  BY <1>0, <1>5, WatchQuiet, RefineAssumption DEF FirstCritique, FirstCritiqueRaises, Ends, InRound, InCall, Watched, Unwatched, WatchInv
<1>6. CASE RoundStarts
  BY <1>6, LooksBefore DEF RoundStarts, InRound
<1>7. CASE NoRound \/ BeginRefused
  BY <1>0, <1>7, WatchQuiet, RefineAssumption DEF NoRound, BeginRefused, Ends, InRound, InCall, Watched, Unwatched, WatchInv
<1>8. CASE Begin
  <2>1. /\ pc = "begin" /\ pc' = "begun" /\ stack' = Append(stack, drawing)
        /\ UNCHANGED <<drawing, rev, guarded, start, last, seen, status, outside, lost>>
    BY <1>8 DEF Begin
  <2>2. Snap' = drawing
    BY <2>1, Pushed DEF Snap, TypeInv
  <2>3. \A p : (Named(p)' <=> Named(p)) /\ (Old(p) => Old(p)')
    BY <2>1, <2>2 DEF Named, Old
  <2>4. InCall /\ InCall' /\ ~Unwatched /\ ~Unwatched' /\ Watched' = Watched
    BY <2>1 DEF InCall, Unwatched, Watched
  <2>5. Watched => \A p \in outside : Old(p)' \/ Named(p)'
    BY <2>1, <2>3, <2>4 DEF WatchInv
  <2>6. lost = {} /\ status = None /\ \A p \in outside : p[2] <= rev
    BY <2>1 DEF WatchInv
  <2>7. Watched => last <= rev
    BY <2>1 DEF WatchInv
  <2>8. QED
    BY <2>1, <2>4, <2>5, <2>6, <2>7, RefineAssumption DEF WatchInv
<1>9. CASE BeginDeclined
  <2>1. pc = "begin" /\ pc' = "done" /\ status' \in {"cancelled", "transaction_unavailable"}
    BY <1>9 DEF BeginDeclined, Ends
  <2>2. QED
    BY <1>9, <2>1, LooksAfter DEF BeginDeclined, InRound, Unwatched
<1>10. CASE Begun
  <2>1. status' = None /\ lost = {}
    BY <1>10 DEF Begun, WatchInv
  <2>2. QED
    BY <1>10, <2>1, LooksAfter, RefineAssumption DEF Begun, InRound, Unwatched
<1>11. CASE Repaired
  <2>1. status' = None /\ lost = {}
    BY <1>11 DEF Repaired, WatchInv
  <2>2. QED
    BY <1>11, <2>1, LooksAfter, RefineAssumption DEF Repaired, InRound, Unwatched
<1>12. CASE RepairTurn
  BY <1>12, LooksBefore DEF RepairTurn, InRound
<1>13. CASE RepairCall \/ RepairRaises \/ RepairOverruns
  BY <1>0, <1>13, WatchQuiet, RefineAssumption DEF RepairCall, RepairRaises, RepairOverruns, InRound, InCall, Watched, Unwatched, WatchInv
<1>14. CASE RepairLands
  BY <1>0, <1>14, WatchQuiet, RefineAssumption DEF RepairLands, Edited, InRound, InCall, Watched, Unwatched, WatchInv
<1>15. CASE Recritique \/ RecritiqueRaises
  BY <1>0, <1>15, WatchQuiet, RefineAssumption DEF Recritique, RecritiqueRaises, InRound, InCall, Watched, Unwatched, WatchInv
<1>16. CASE Judge
  BY <1>16, LooksBefore DEF Judge, InRound
<1>17. CASE Commit
  <2>1. /\ pc = "commit" /\ pc' = "committed"
        /\ UNCHANGED <<drawing, rev, guarded, start, last, seen, status, outside, lost>>
    BY <1>17 DEF Commit
  <2>2. InCall /\ InCall' /\ ~Unwatched /\ ~Unwatched' /\ Watched' = Watched /\ ~InRound'
    BY <2>1 DEF InCall, Unwatched, Watched, InRound
  <2>3. \A p : (Named(p)' <=> Named(p)) /\ (Old(p) => Old(p)')
    BY <2>1, <2>2 DEF Named, Old
  <2>4. Watched => \A p \in outside : Old(p)' \/ Named(p)'
    BY <2>1, <2>2, <2>3 DEF WatchInv
  <2>5. lost = {} /\ status = None /\ \A p \in outside : p[2] <= rev
    BY <2>1 DEF WatchInv
  <2>6. Watched => last <= rev
    BY <2>1 DEF WatchInv
  <2>7. QED
    BY <2>1, <2>2, <2>4, <2>5, <2>6, RefineAssumption DEF WatchInv
<1>18. CASE Committed
  <2>1. pc' \in {"done", "round"} /\ status' \in {status, "threshold_met", "no_progress"} /\ (status' # None => pc' = "done")
    BY <1>18, RefineAssumption DEF Committed, Ends, WatchInv
  <2>2. status = None /\ lost = {} /\ pc = "committed"
    BY <1>18 DEF Committed, WatchInv
  <2>3. QED
    BY <1>18, <2>1, <2>2, LooksAfter, RefineAssumption DEF Committed, InRound, Unwatched
<1>19. CASE Rolled
  BY <1>19, LooksAfter DEF Rolled, InRound, Unwatched
<1>20. CASE CloseRefused \/ UndoRefused
  <2>1. status' \in {"raised", "cancelled"} /\ pc' = "done" /\ pc \in {"commit", "rollback", "undo"}
    BY <1>20 DEF CloseRefused, UndoRefused, Ends
  <2>2. QED
    BY <1>0, <1>20, <2>1, WatchQuiet DEF CloseRefused, UndoRefused, InRound, InCall, Watched, Unwatched, WatchInv
<1>21. CASE LastCritique \/ LastCritiqueRaises
  <2>1. pc = "last" /\ pc' = "done" /\ status' \in {status, "raised"}
    BY <1>21 DEF LastCritique, LastCritiqueRaises, Ends
  <2>2. QED
    BY <1>0, <1>21, <2>1, WatchQuiet DEF LastCritique, LastCritiqueRaises, InRound, InCall, Watched, Unwatched, WatchInv
<1>22. CASE Cancel
  <2>1. \/ pc' = pc /\ status' = status
        \/ pc' = "done" /\ status' = "cancelled"
        \/ pc' = "undo" /\ pc \in {"next", "repair", "working"} /\ status' = status
    BY <1>22 DEF Cancel, Leaves, Ends
  <2>2. pc \notin {"rolled", "done"} /\ ~Unwatched
    BY <1>22, RefineAssumption DEF Cancel, Unwatched
  <2>3. UNCHANGED <<outside, lost, guarded, start, seen, last, stack, drawing, rev>>
    BY <1>22 DEF Cancel
  <2>4. QED
    BY <1>0, <2>1, <2>2, <2>3, WatchQuiet DEF InRound, InCall, Watched, Unwatched, WatchInv
<1>23. CASE LateEnds
  <2>1. rev' \in {rev, rev + 1} /\ drawing.edits \subseteq drawing'.edits
    BY <1>23 DEF LateEnds, Edited
  <2>2. UNCHANGED <<outside, lost, guarded, start, seen, last, stack, pc, status>>
    BY <1>23 DEF LateEnds
  <2>3. QED
    BY <1>0, <2>1, <2>2, WatchQuiet DEF InRound, InCall, Watched, Unwatched, WatchInv
<1>24. CASE LateOverruns \/ ReadEnds
  BY <1>0, <1>24, WatchQuiet DEF LateOverruns, ReadEnds, InRound, InCall, Watched, Unwatched, WatchInv
<1>25. CASE OwnOverruns
  <2>1. status' \in {"raised", "cancelled"} /\ pc' = "done" /\ pc \in {"begin", "commit", "rollback", "undo"}
    BY <1>25 DEF OwnOverruns, Ends
  <2>2. QED
    BY <1>0, <1>25, <2>1, WatchQuiet DEF OwnOverruns, InRound, InCall, Watched, Unwatched, WatchInv
<1>26. CASE OwedEnds
  <2>1. pc = "done" /\ pc' = "done" /\ status \in {"raised", "cancelled"} /\ status' = status
    BY <1>26, RefineAssumption DEF OwedEnds, TypeInv, Shape
  <2>2. outside' = outside /\ rev' \in {rev, rev + 1}
    BY <1>26 DEF OwedEnds, RolledBack
  <2>3. \A p \in outside' : p[2] <= rev'
    BY <1>0, <2>2, ChangeTypes DEF WatchInv
  <2>4. QED
    BY <2>1, <2>3 DEF WatchInv, Watched, Unwatched
<1>27. QED
  BY <1>1, <1>2, <1>3, <1>4, <1>5, <1>6, <1>7, <1>8, <1>9, <1>10, <1>11, <1>12, <1>13, <1>14, <1>15, <1>16,
     <1>17, <1>18, <1>19, <1>20, <1>21, <1>22, <1>23, <1>24, <1>25, <1>26, BeginsWatch, RollbackKeepsWatch, UndoKeepsWatch,
     OtherKeepsWatch DEF Next

\* An edit of another client that the rollback of a worse round takes away is among the
\* interleaved changes of a guarded apply.
THEOREM LossesAreReported == Spec => []LostIsReported
<1>1. Init => TypeInv /\ WatchInv
  <2>1. Init => WatchInv
    BY DEF Init, WatchInv, Watched, Unwatched
  <2>2. QED
    BY <2>1, InitTypes
<1>2. TypeInv /\ WatchInv /\ [Next]_vars => (TypeInv /\ WatchInv)'
  BY TypeKept, WatchKept
<1>3. WatchInv => LostIsReported
  BY DEF WatchInv, LostIsReported, Named
<1>4. QED
  BY <1>1, <1>2, <1>3, PTL DEF Spec
-------------------------------------------------------------------------------
(* Quality *)

\* What is compared are scores in percent and counts.
LEMMA ScoresCompare ==
  ASSUME TypeOK
  PROVE  /\ Score(drawing.findings) \in Nat /\ ErrorsIn(drawing.findings) \in Nat
         /\ Score(issues) \in Nat /\ ErrorsIn(issues) \in Nat
         /\ Score(after) \in Nat /\ ErrorsIn(after) \in Nat
         /\ initial # None => initial.score \in Nat /\ initial.errors \in Nat
<1>1. drawing.findings \subseteq Findings \cup {Failed} /\ issues \subseteq Findings \cup {Failed} /\ after \subseteq Findings \cup {Failed}
  BY DEF TypeOK, Drawing
<1>2. \A n \in 0..100 : n \in Nat
  OBVIOUS
<1>3. initial # None => initial.score \in 0..100 /\ initial.errors \in Nat
  BY DEF TypeOK
<1>4. QED
  BY <1>1, <1>2, <1>3, ScoreType

\* A critique that covered the drawing found what there is to find.
LEMMA Covered ==
  ASSUME NEW S, Reads(S), blind' = None
  PROVE  S = drawing.findings /\ blind = None
BY RefineAssumption DEF Reads

\* A request that is left to itself has been so.
LEMMA WasAlone == TypeInv /\ [Next]_vars /\ Alone' => Alone
<1> SUFFICES ASSUME TypeInv, [Next]_vars, Alone' PROVE Alone
  OBVIOUS
<1> USE DEF Alone, ghosts
<1>1. CASE UNCHANGED vars
  BY <1>1 DEF vars
<1>2. CASE FirstCritique \/ Recritique \/ LastCritique
  BY <1>2, Covered DEF FirstCritique, Recritique, LastCritique
<1>3. CASE OtherEdit
  BY <1>3 DEF OtherEdit, TypeInv, TypeOK
<1>4. CASE \/ DryRun \/ \E g \in BOOLEAN, m \in MinScores : Apply(g, m)
           \/ Check \/ WatchBegins \/ FirstCritiqueRaises \/ RoundStarts \/ NoRound
           \/ Begin \/ BeginRefused \/ BeginDeclined \/ Begun
  BY <1>4 DEF DryRun, Apply, Check, WatchBegins, FirstCritiqueRaises, RoundStarts, NoRound, Begin, BeginRefused, BeginDeclined, Begun
<1>5. CASE \/ RepairTurn \/ RepairCall \/ RepairRaises \/ RepairLands \/ RepairOverruns \/ Repaired
           \/ RecritiqueRaises \/ Judge \/ Commit \/ Committed \/ Rollback \/ Rolled \/ CloseRefused
  BY <1>5 DEF RepairTurn, RepairCall, RepairRaises, RepairLands, RepairOverruns, Repaired, RecritiqueRaises, Judge, Commit, Committed, Rollback, Rolled, CloseRefused
<1>6. CASE \/ Undo \/ UndoRefused \/ OwnOverruns \/ LastCritiqueRaises
           \/ Cancel \/ LateEnds \/ OwedEnds \/ LateOverruns \/ ReadEnds
  BY <1>6 DEF OwnOverruns, OwedEnds, Undo, UndoRefused, LastCritiqueRaises, Cancel, LateEnds, LateOverruns, ReadEnds
<1>7. QED
  BY <1>1, <1>2, <1>3, <1>4, <1>5, <1>6 DEF Next

\* What the issues in hand say stays true.
LEMMA QualityKept == ClosesAlone /\ RoundInv /\ QualityInv /\ [Next]_vars => QualityInv'
<1> SUFFICES ASSUME ClosesAlone, RoundInv, QualityInv, [Next]_vars PROVE QualityInv'
  OBVIOUS
<1>0. TypeInv /\ TypeOK /\ (refused => pc = "done")
  BY DEF RoundInv, RoundParts, TypeInv
<1>01. Alone' => Alone
  BY <1>0, WasAlone
<1>02. None # "rollback" /\ (pc # "done" => owed # "rollback")
  BY StillOwn, RefineAssumption
<1> USE DEF roundVars, askVars, engineVars
<1>1. CASE UNCHANGED vars
  BY <1>01, <1>02, <1>1 DEF vars, QualityInv, Quality, Begins, InRound, Snap, NoWorse
<1>2. CASE \/ DryRun \/ \E g \in BOOLEAN, m \in MinScores : Apply(g, m)
           \/ Check \/ WatchBegins
  <2>1. initial = None /\ initial' = None /\ pc' # "last"
    BY <1>2 DEF DryRun, Apply, Check, WatchBegins, Ends, QualityInv, Begins
  <2>2. QED
    BY <2>1 DEF QualityInv
<1>3. CASE FirstCritiqueRaises
  BY <1>3 DEF FirstCritiqueRaises, Ends, QualityInv, Begins
<1>4. CASE FirstCritique
  <2>1. PICK S : Reads(S) /\ issues' = S /\ initial' = [score |-> Score(S), errors |-> ErrorsIn(S)]
                 /\ IF Score(S) >= min THEN Ends("threshold_met") ELSE pc' = "round" /\ UNCHANGED status
    BY <1>4 DEF FirstCritique
  <2>2. pc' \in {"done", "round"} /\ UNCHANGED <<drawing, min, refused, stack, owed>> /\ owed # "rollback"
    BY <1>02, <1>4, <2>1 DEF FirstCritique, Ends
  <2>3. CASE Alone'
    <3>1. S = drawing.findings
      BY <2>1, <2>3, Covered DEF Alone
    <3>2. initial'.score = Score(drawing.findings) /\ initial'.errors = ErrorsIn(drawing.findings)
      BY <2>1, <3>1
    <3>3. NoWorse(drawing.findings)'
      BY <1>0, <2>2, <3>2, ScoresCompare DEF NoWorse
    <3>4. Quality'
      BY <2>1, <2>2, <3>1, <3>3 DEF Quality, InRound, Ends, NoWorse
    <3>5. QED
      BY <2>2, <3>4 DEF QualityInv, Begins
  <2>4. CASE ~Alone'
    BY <2>2, <2>4 DEF QualityInv, Begins
  <2>5. QED
    BY <2>3, <2>4
<1>5. CASE RoundStarts \/ NoRound \/ BeginRefused
  <2>1. UNCHANGED <<drawing, issues, initial, min, refused, stack, owed>>
    BY <1>5 DEF RoundStarts, NoRound, BeginRefused
  <2>2. /\ pc \in {"round", "begin"} /\ pc' \in {"begin", "done"}
        /\ pc' = "done" => status' # "threshold_met"
    BY <1>5 DEF RoundStarts, NoRound, BeginRefused, Ends
  <2>3. QED
    BY <1>01, <1>02, <2>1, <2>2 DEF QualityInv, Quality, Begins, InRound, NoWorse
<1>6. CASE Begin
  <2>1. UNCHANGED <<drawing, issues, initial, min, refused, owed>> /\ pc = "begin" /\ pc' = "begun"
    BY <1>6 DEF Begin
  <2>2. Snap' = drawing
    BY <1>0, <1>6, Pushed DEF Begin, Snap
  <2>3. QED
    BY <1>01, <1>02, <2>1, <2>2 DEF QualityInv, Quality, Begins, InRound, NoWorse
<1>7. CASE BeginDeclined
  <2>1. UNCHANGED <<drawing, issues, initial, min, refused, owed>> /\ pc = "begin" /\ pc' = "done"
        /\ status' \in {"cancelled", "transaction_unavailable"}
    BY <1>7 DEF BeginDeclined, Ends
  <2>2. QED
    BY <1>01, <1>02, <2>1 DEF QualityInv, Quality, Begins, InRound, NoWorse
<1>8. CASE Begun \/ RepairTurn \/ RepairCall \/ RepairRaises \/ RepairLands \/ RepairOverruns \/ Repaired \/ RecritiqueRaises
  <2>1. UNCHANGED <<issues, initial, stack, owed>>
    BY <1>8 DEF Begun, RepairTurn, RepairCall, RepairRaises, RepairLands, RepairOverruns, Repaired, RecritiqueRaises
  <2>2. InRound /\ ~Begins /\ pc' \in {"next", "undo", "repair", "working", "repaired"}
    BY <1>8 DEF Begun, RepairTurn, RepairCall, RepairRaises, RepairLands, RepairOverruns, Repaired, RecritiqueRaises, InRound, Begins
  <2>3. QED
    BY <1>01, <1>02, <2>1, <2>2 DEF QualityInv, Quality, Begins, InRound, Snap, NoWorse
<1>9. CASE Recritique
  <2>1. PICK S : Reads(S) /\ after' = S
    BY <1>9 DEF Recritique
  <2>2. UNCHANGED <<drawing, issues, initial, stack, owed>> /\ InRound /\ ~Begins /\ pc' = "judge"
    BY <1>9 DEF Recritique, InRound, Begins
  <2>3. Alone' => after' = drawing'.findings
    BY <2>1, <2>2, Covered DEF Alone
  <2>4. QED
    BY <1>01, <1>02, <2>2, <2>3 DEF QualityInv, Quality, Begins, InRound, Snap, NoWorse
<1>10. CASE Judge
  <2>1. UNCHANGED <<drawing, issues, after, initial, stack, owed>> /\ InRound /\ ~Begins /\ pc = "judge"
        /\ pc' = IF Worse(issues, after) THEN "rollback" ELSE "commit"
    BY <1>10 DEF Judge, InRound, Begins
  <2>2. Worse(issues, after)' = Worse(issues, after)
    BY <2>1 DEF Worse
  <2>3. QED
    BY <1>01, <1>02, <2>1, <2>2 DEF QualityInv, Quality, Begins, InRound, Snap, NoWorse
<1>11. CASE Commit
  <2>1. UNCHANGED <<drawing, issues, after, initial, owed>> /\ InRound /\ ~Begins /\ pc = "commit" /\ pc' = "committed"
    BY <1>11 DEF Commit, InRound, Begins
  <2>2. Worse(issues, after)' = Worse(issues, after)
    BY <2>1 DEF Worse
  <2>3. QED
    BY <1>01, <1>02, <2>1, <2>2 DEF QualityInv, Quality, Begins, InRound, NoWorse
<1>12. CASE Committed
  <2>1. /\ UNCHANGED <<drawing, initial, min, refused, owed>> /\ pc = "committed" /\ issues' = after
        /\ pc' \in {"done", "round"}
        /\ pc' = "done" /\ status' = "threshold_met" => Score(after) >= min
    BY <1>12 DEF Committed, Ends
  <2>2. CASE Alone' /\ initial # None
    <3>1. Quality
      BY <1>01, <1>02, <2>1, <2>2 DEF QualityInv, Begins
    <3>2. after = drawing.findings /\ NoWorse(issues) /\ ~Worse(issues, after)
      BY <2>1, <3>1 DEF Quality
    <3>3. Score(after) >= initial.score /\ ErrorsIn(after) <= initial.errors
      BY <1>0, <2>2, <3>2, ScoresCompare DEF NoWorse, Worse
    <3>4. QED
      BY <1>02, <2>1, <3>2, <3>3 DEF QualityInv, Quality, Begins, InRound, NoWorse
  <2>3. CASE ~(Alone' /\ initial # None)
    BY <2>1, <2>3 DEF QualityInv, Begins
  <2>4. QED
    BY <2>2, <2>3
<1>13. CASE Rollback
  <2>1. UNCHANGED <<issues, initial, owed>> /\ InRound /\ ~Begins /\ pc' = "rolled" /\ drawing' = Snap
    BY <1>13 DEF Rollback, RolledBack, Snap, InRound, Begins
  <2>2. QED
    BY <1>01, <1>02, <2>1 DEF QualityInv, Quality, Begins, InRound, NoWorse
<1>14. CASE Rolled
  <2>1. UNCHANGED <<drawing, initial, owed>> /\ pc = "rolled" /\ pc' = "last" /\ status' = "rolled_back"
    BY <1>14 DEF Rolled
  <2>2. QED
    BY <1>01, <1>02, <2>1 DEF QualityInv, Quality, Begins, InRound, NoWorse
<1>15. CASE CloseRefused \/ UndoRefused
  <2>1. refused' = TRUE /\ pc' = "done" /\ owed' # "rollback"
    BY <1>02, <1>15 DEF CloseRefused, UndoRefused, Ends
  <2>2. QED
    BY <2>1 DEF QualityInv, Quality, Begins, InRound
<1>16. CASE Undo
  <2>1. /\ UNCHANGED <<issues, initial, owed>> /\ InRound /\ ~Begins /\ drawing' = Snap
        /\ \/ pc' = "done" /\ status' = "cancelled"
           \/ pc' = "last" /\ status' = "repair_failed"
    BY <1>16 DEF Undo, RolledBack, Snap, InRound, Begins, Ends
  <2>2. QED
    BY <1>01, <1>02, <2>1 DEF QualityInv, Quality, Begins, InRound, NoWorse
<1>17. CASE LastCritique \/ LastCritiqueRaises
  <2>1. UNCHANGED <<drawing, initial, owed>> /\ pc = "last" /\ pc' = "done" /\ status' \in {status, "raised"}
    BY <1>17 DEF LastCritique, LastCritiqueRaises, Ends
  <2>2. QED
    BY <1>01, <1>02, <2>1 DEF QualityInv, Quality, Begins, InRound, NoWorse
<1>18. CASE Cancel
  <2>1. pc \in {"critique", "begin", "next", "repair", "working", "last"}
    BY <1>18, RefineAssumption DEF Cancel, ClosesAlone
  <2>2. UNCHANGED <<drawing, issues, initial, stack, refused, min, owed>>
    BY <1>18, <2>1 DEF Cancel
  <2>3. \/ pc = "begin" /\ pc' = "begin"
        \/ pc \in {"next", "repair", "working"} /\ pc' = "undo"
        \/ pc \in {"critique", "last"} /\ pc' = "done" /\ status' = "cancelled"
    BY <1>18, <2>1 DEF Cancel, Leaves, Ends
  <2>4. QED
    BY <1>01, <1>02, <2>1, <2>2, <2>3 DEF QualityInv, Quality, Begins, InRound, Snap, NoWorse
<1>19. CASE LateEnds
  <2>1. pc = "undo" \/ (pc = "done" /\ refused)
    BY <1>19 DEF LateEnds, RoundInv, RoundParts, LateIs
  <2>2. UNCHANGED <<pc, issues, initial, stack, refused, min, owed>>
    BY <1>19 DEF LateEnds
  <2>3. QED
    BY <1>01, <1>02, <2>1, <2>2 DEF QualityInv, Quality, Begins, InRound, Snap, NoWorse
<1>20. CASE LateOverruns \/ ReadEnds
  <2>1. UNCHANGED <<drawing, pc, issues, after, initial, stack, refused, min, status, owed>>
    BY <1>20 DEF LateOverruns, ReadEnds
  <2>2. Worse(issues, after)' = Worse(issues, after)
    BY <2>1 DEF Worse
  <2>3. QED
    BY <1>01, <1>02, <2>1, <2>2 DEF QualityInv, Quality, Begins, InRound, Snap, NoWorse
<1>21. CASE OtherEdit
  <2>1. ~Alone'
    BY <1>0, <1>21 DEF OtherEdit, Alone, TypeOK
  <2>2. UNCHANGED <<pc, initial, status, owed>>
    BY <1>21 DEF OtherEdit
  <2>3. QED
    BY <2>1, <2>2 DEF QualityInv, Begins
<1>22. CASE OwnOverruns
  <2>1. UNCHANGED <<drawing, issues, after, initial, stack, refused, min>> /\ ~Begins /\ pc' = "done"
    BY <1>22 DEF OwnOverruns, Begins, Ends
  <2>2. CASE Alone' /\ initial # None
    <3>1. Quality
      BY <1>01, <2>1, <2>2 DEF QualityInv
    <3>2. CASE pc \in {"rollback", "undo"}
      <4>1. owed' = "rollback"
        BY <1>22, <3>2 DEF OwnOverruns
      <4>2. QED
        BY <2>1, <3>1, <3>2, <4>1 DEF QualityInv, Quality, Begins, InRound, Snap, NoWorse
    <3>3. CASE pc \in {"begin", "commit"}
      <4>1. owed' # "rollback" /\ status' = "raised"
        BY <1>22, <3>3 DEF OwnOverruns, Ends
      <4>2. NoWorse(drawing.findings)
        BY <1>0, <2>2, <3>1, <3>3, ScoresCompare DEF Quality, InRound, NoWorse, Worse
      <4>3. QED
        BY <2>1, <4>1, <4>2 DEF QualityInv, Quality, Begins, InRound, NoWorse
    <3>4. QED
      BY <1>22, <3>2, <3>3 DEF OwnOverruns
  <2>3. CASE ~(Alone' /\ initial # None)
    BY <2>1, <2>3 DEF QualityInv, Begins
  <2>4. QED
    BY <2>2, <2>3
<1>23. CASE OwedEnds
  <2>1. /\ pc = "done" /\ pc' = "done" /\ status \in {"raised", "cancelled"}
        /\ owed' = None /\ UNCHANGED <<issues, after, initial, refused, min, status>>
    <3>1. owed # None
      BY <1>23, RefineAssumption DEF OwedEnds
    <3>2. QED
      BY <1>0, <1>23, <3>1 DEF OwedEnds, TypeInv, Shape
  <2>2. CASE owed = "rollback"
    <3>1. drawing' = Snap
      BY <1>23, <2>2 DEF OwedEnds, RolledBack, Snap
    <3>2. QED
      BY <1>01, <1>02, <2>1, <2>2, <3>1 DEF QualityInv, Quality, Begins, InRound, NoWorse
  <2>3. CASE owed # "rollback"
    <3>1. drawing' = drawing
      BY <1>23, <2>3 DEF OwedEnds
    <3>2. QED
      BY <1>01, <1>02, <2>1, <2>3, <3>1 DEF QualityInv, Quality, Begins, InRound, NoWorse
  <2>4. QED
    BY <2>2, <2>3
<1>24. QED
  BY <1>1, <1>2, <1>3, <1>4, <1>5, <1>6, <1>7, <1>8, <1>9, <1>10, <1>11, <1>12, <1>13, <1>14, <1>15, <1>16,
     <1>17, <1>18, <1>19, <1>20, <1>21, <1>22, <1>23 DEF Next

\* A request left to itself that is cancelled only where it has a handler ends with a
\* drawing no worse than it found, whatever fails.
THEOREM QualityNeverFalls ==
  ASSUME ClosesAlone
  PROVE  Spec => []NeverWorse
<1>1. Init => RoundInv /\ QualityInv
  <2>1. Init => QualityInv
    BY DEF Init, QualityInv, Begins
  <2>2. QED
    BY <2>1, InitRounds
<1>2. RoundInv /\ QualityInv /\ [Next]_vars => (RoundInv /\ QualityInv)'
  BY RoundsKept, QualityKept
<1>3. QualityInv => NeverWorse
  BY RefineAssumption DEF QualityInv, Quality, NeverWorse, NoWorse, Over, Alone, Begins
<1>4. QED
  BY <1>1, <1>2, <1>3, PTL DEF Spec
================================================================================
