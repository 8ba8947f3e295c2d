----------------------------- MODULE DrawingRefine -----------------------------
(***************************************************************************)
(* drawing_refine (engineering/refiner.py): rounds of critique, repair and *)
(* re-critique, each inside a transaction that a round which fails, makes  *)
(* the drawing worse or is cancelled rolls back.  Every backend call is a  *)
(* locked call of its own, and other clients edit between them: an apply   *)
(* guarded by a dry run's revision watches for that (RevisionWatch, in     *)
(* engineering/changes/preview.py).  One request on the headless engine.   *)
(***************************************************************************)
EXTENDS Naturals, Sequences, FiniteSets

CONSTANTS
  Errors, Warnings, Infos,  \* what a critique can find, by severity
  Repairable,               \* the findings a handler exists for, and is allowed
  MinScores,                \* the thresholds clients ask for
  MaxRounds,                \* max_rounds
  MaxCalls,                 \* bound: edits one repair makes
  MaxOthers,                \* bound: edits of other clients
  CancelAt,                 \* the awaits at which a cancellation may land
  Mishaps,                  \* "overrun": a call's worker outlives its deadline;
                            \* "slow": a critique's read does; "check": a check of it
                            \* raises; "declined": the begin answers that it cannot
  Failed,                   \* the finding of a check that read nothing
  None

Findings == Errors \cup Warnings \cup Infos

ASSUME RefineAssumption ==
  /\ IsFiniteSet(Findings) /\ Failed \notin Findings /\ None \notin Nat \cup {"first", "later", "begin", "commit", "rollback"}
  /\ Errors \cap Warnings = {} /\ Errors \cap Infos = {} /\ Warnings \cap Infos = {}
  /\ Repairable \subseteq Findings
  /\ MinScores \subseteq 0..100
  /\ MaxRounds \in 1..3 /\ {MaxCalls, MaxOthers} \subseteq Nat
  /\ CancelAt \subseteq {"critique", "begin", "next", "repair", "working", "last", "rollback", "commit"}
  /\ Mishaps \subseteq {"overrun", "slow", "check", "declined"}

\* An edit is named by the round that makes it and its place in it; <<0, n>>: by others.
Edits == (0..MaxRounds) \X Nat
Drawing == [edits : SUBSET Edits, findings : SUBSET Findings]

VARIABLES
  drawing,    \* what it holds, and what a critique finds in that
  rev,        \* its revision
  stack,      \* _transaction_stack: the snapshots, oldest first
  pc,         \* where the request is; "idle" before it, "done" after it
  expected,   \* the revision of the dry run; None
  guarded,    \* does the apply give it?
  min,        \* min_score
  issues,     \* the issues in hand
  after,      \* those of the re-critique
  initial,    \* initial_score and the errors it counts; None
  round,      \* number
  todo,       \* the candidates not yet repaired
  calls,      \* edits the round has made
  rounds,     \* how each round's transaction ended
  start,      \* RevisionWatch.start; None
  last,       \* RevisionWatch.last; None
  seen,       \* RevisionWatch.interleaved: the moves <<expected, actual>>
  cancelled,  \* has a cancellation arrived that the begin's shield holds back?
  leaving,    \* what the handler around the repairs is left with: "error", "cancel"
  late,       \* the edit of a worker its coroutine left; it has the lock.  None
  owed,       \* the request's own begin, commit or rollback, left so.  None
  quar,       \* is the document quarantined?
  busy,       \* does a read past its deadline still hold it?
  status,     \* RefineResult.status; "raised", "cancelled", "stale"; None
  refused,    \* was a commit or rollback refused, which then was the answer or logged?
  others,     \* how many edits other clients have made
  blind,      \* history: the earliest critique not to cover the drawing: "first",
              \* "later"; None
  callers,    \* history: the snapshots of the caller's own transactions
  made,       \* history: the edits of the repairs
  stray,      \* history: the begin or commit that landed after the answer; None
  outside,    \* history: others' edits <<edit, revision>> between our calls
  lost        \* history: those of them that a rollback of ours took away

watchVars == <<start, last, seen>>
askVars == <<expected, guarded, min>>
roundVars == <<issues, after, initial, round, todo, calls, rounds>>
engineVars == <<late, owed, quar, busy>>
ghosts == <<others, callers, blind, made, stray, outside, lost>>
vars == <<drawing, rev, stack, pc, askVars, roundVars, watchVars, cancelled, leaving, engineVars, status, refused, ghosts>>

-------------------------------------------------------------------------------
(* Scores *)

\* _metrics, score_findings: 25 for an error, 8 for a warning, 1 for an info.
ErrorsIn(S) == Cardinality(S \cap (Errors \cup {Failed}))
Score(S) ==
  LET penalty == 25 * ErrorsIn(S) + 8 * Cardinality(S \cap Warnings) + Cardinality(S \cap Infos) IN
  IF penalty > 100 THEN 0 ELSE 100 - penalty

\* Plausible bug: a round is kept unless both get worse.
MutantWorse(S, T) == Score(T) < Score(S) /\ ErrorsIn(T) > ErrorsIn(S)

Worse(S, T) == Score(T) < Score(S) \/ ErrorsIn(T) > ErrorsIn(S)

-------------------------------------------------------------------------------
(* The engine *)

\* A document call gets the lock, and the gate lets it through.
Served == late = None /\ owed = None /\ pc # "working" /\ ~quar /\ ~busy
Refused == quar \/ busy

\* The drawing changes: an edit is added, and there is something else to find.
Edited(e) ==
  /\ \E S \in SUBSET Findings : drawing' = [edits |-> drawing.edits \cup {e}, findings |-> S]
  /\ rev' = rev + 1

\* What a critique gives: the drawing's findings - or, where a check raised, some of
\* them and that it failed; if its read outlived the deadline, the read goes on.
Reads(S) ==
  \E covered \in IF "check" \in Mishaps THEN BOOLEAN ELSE {TRUE} :
    /\ S \in IF covered THEN {drawing.findings} ELSE {found \cup {Failed} : found \in SUBSET drawing.findings}
    /\ busy' \in IF covered THEN {FALSE} ELSE {FALSE, "slow" \in Mishaps}
    /\ blind' = IF covered \/ blind # None THEN blind ELSE IF initial = None THEN "first" ELSE "later"

\* transaction_rollback: the newest snapshot is the drawing again.
RolledBack ==
  LET snapshot == stack[Len(stack)] IN
  /\ drawing' = snapshot
  /\ stack' = SubSeq(stack, 1, Len(stack) - 1)
  /\ rev' = rev + 1
  /\ lost' = lost \cup {p \in outside : p[1] \in drawing.edits \ snapshot.edits}

-------------------------------------------------------------------------------
(* The watch *)

\* RevisionWatch.before: a move since our last call is another's.
WatchBefore ==
  IF ~guarded THEN UNCHANGED watchVars
  ELSE /\ seen' = IF rev # last THEN seen \cup {<<last, rev>>} ELSE seen
       /\ last' = rev
       /\ UNCHANGED start

\* RevisionWatch.after: what our call left.
WatchAfter ==
  /\ last' = IF guarded THEN rev ELSE last
  /\ UNCHANGED <<start, seen>>

\* Between the two reads a change of another client cannot be told from our own.
InCall == pc \in {"begin", "begun", "repair", "working", "repaired", "rollback", "rolled", "commit", "committed"}

-------------------------------------------------------------------------------
(* Starting *)

\* A dry run: the revision that its preview carries.
DryRun ==
  /\ pc = "idle"
  /\ expected' = rev
  /\ UNCHANGED <<drawing, rev, stack, pc, guarded, min, roundVars, watchVars, cancelled, leaving, engineVars, status, refused, ghosts>>

Apply(g, m) ==
  /\ pc = "idle"
  /\ g => expected # None
  /\ guarded' = g /\ min' = m
  /\ pc' = IF g THEN "check" ELSE "critique"
  /\ UNCHANGED <<drawing, rev, stack, expected, roundVars, watchVars, cancelled, leaving, engineVars, status, refused, ghosts>>

\* The request is over.
Ends(how) == pc' = "done" /\ status' = how

\* check_preconditions, the revision alone.
Check ==
  /\ pc = "check"
  /\ IF rev # expected THEN Ends("stale") ELSE pc' = "watch" /\ UNCHANGED status
  /\ UNCHANGED <<drawing, rev, stack, askVars, roundVars, watchVars, cancelled, leaving, engineVars, refused, ghosts>>

\* RevisionWatch.begin
WatchBegins ==
  /\ pc = "watch"
  /\ start' = rev /\ last' = rev
  /\ pc' = "critique"
  /\ UNCHANGED <<drawing, rev, stack, askVars, roundVars, seen, cancelled, leaving, engineVars, status, refused, ghosts>>

FirstCritique ==
  /\ pc = "critique"
  /\ Served
  /\ \E S \in SUBSET (Findings \cup {Failed}) :
       /\ Reads(S)
       /\ issues' = S
       /\ initial' = [score |-> Score(S), errors |-> ErrorsIn(S)]
       /\ IF Score(S) >= min THEN Ends("threshold_met") ELSE pc' = "round" /\ UNCHANGED status
  /\ UNCHANGED <<drawing, rev, stack, askVars, after, round, todo, calls, rounds, watchVars, cancelled, leaving, late, owed, quar, refused, others, callers, made, outside, lost, stray>>

\* A check's read outlives its deadline, and the next check is refused: it raises.
FirstCritiqueRaises ==
  /\ pc = "critique" /\ "slow" \in Mishaps
  /\ Served
  /\ busy' = TRUE
  /\ Ends("raised")
  /\ UNCHANGED <<drawing, rev, stack, askVars, roundVars, watchVars, cancelled, leaving, late, owed, quar, refused, ghosts>>

-------------------------------------------------------------------------------
(* A round *)

Candidates == issues \cap Repairable

\* Plausible bug: one round more than max_rounds.
MutantRoundsLeft == round <= MaxRounds

RoundsLeft == round < MaxRounds

\* A check that failed is reported, never repaired.
RoundStarts ==
  /\ pc = "round"
  /\ RoundsLeft /\ Candidates # {}
  /\ round' = round + 1
  /\ todo' = Candidates
  /\ calls' = 0
  /\ WatchBefore
  /\ pc' = "begin"
  /\ UNCHANGED <<drawing, rev, stack, askVars, issues, after, initial, rounds, cancelled, leaving, engineVars, status, refused, ghosts>>

NoRound ==
  /\ pc = "round"
  /\ \/ ~RoundsLeft /\ Ends("max_rounds")
     \/ RoundsLeft /\ Candidates = {} /\ Ends("manual_required")
  /\ UNCHANGED <<drawing, rev, stack, askVars, roundVars, watchVars, cancelled, leaving, engineVars, refused, ghosts>>

\* transaction_begin, shielded: a cancellation that arrived meanwhile waits.
Begin ==
  /\ pc = "begin"
  /\ Served
  /\ stack' = Append(stack, drawing)
  /\ pc' = "begun"
  /\ UNCHANGED <<drawing, rev, askVars, roundVars, watchVars, cancelled, leaving, engineVars, status, refused, ghosts>>

BeginRefused ==
  /\ pc = "begin"
  /\ Refused
  /\ Ends("raised")
  /\ UNCHANGED <<drawing, rev, stack, askVars, roundVars, watchVars, cancelled, leaving, engineVars, refused, ghosts>>

BeginDeclined ==
  /\ pc = "begin" /\ "declined" \in Mishaps
  /\ Served
  /\ rounds' = IF cancelled THEN rounds ELSE Append(rounds, "not_started")
  /\ Ends(IF cancelled THEN "cancelled" ELSE "transaction_unavailable")
  /\ WatchAfter
  /\ UNCHANGED <<drawing, rev, stack, askVars, issues, after, initial, round, todo, calls, cancelled, leaving, engineVars, refused, ghosts>>

\* The first await inside the try delivers a cancellation that was held back.
Begun ==
  /\ pc = "begun"
  /\ WatchAfter
  /\ IF cancelled THEN pc' = "undo" /\ leaving' = "cancel" ELSE pc' = "next" /\ UNCHANGED leaving
  /\ UNCHANGED <<drawing, rev, stack, askVars, roundVars, cancelled, engineVars, status, refused, ghosts>>

RepairTurn ==
  /\ pc = "next"
  /\ \E f \in todo : todo' = todo \ {f}
  /\ WatchBefore
  /\ pc' = "repair"
  /\ UNCHANGED <<drawing, rev, stack, askVars, issues, after, initial, round, calls, rounds, cancelled, leaving, engineVars, status, refused, ghosts>>

\* The handler's next call has the lock, and its worker starts.
RepairCall ==
  /\ pc = "repair"
  /\ Served
  /\ calls < MaxCalls
  /\ pc' = "working"
  /\ UNCHANGED <<drawing, rev, stack, askVars, roundVars, watchVars, cancelled, leaving, engineVars, status, refused, ghosts>>

\* The handler raises: what it went by is gone, or its call declines.
RepairRaises ==
  /\ pc = "repair"
  /\ pc' = "undo" /\ leaving' = "error"
  /\ UNCHANGED <<drawing, rev, stack, askVars, roundVars, watchVars, cancelled, engineVars, status, refused, ghosts>>

\* The call's edit lands; the handler makes another call, or returns.
RepairLands ==
  /\ pc = "working"
  /\ Edited(<<round, calls + 1>>)
  /\ calls' = calls + 1
  /\ made' = made \cup {<<round, calls + 1>>}
  /\ pc' \in {"repair", "repaired"}
  /\ UNCHANGED <<stack, askVars, issues, after, initial, round, todo, rounds, watchVars, cancelled, leaving, engineVars, status, refused, others, callers, blind, outside, lost, stray>>

\* Its worker outlives the deadline: the document is quarantined, the call raises.
RepairOverruns ==
  /\ pc = "working" /\ "overrun" \in Mishaps
  /\ late' = <<round, calls + 1>>
  /\ quar' = TRUE
  /\ pc' = "undo" /\ leaving' = "error"
  /\ UNCHANGED <<drawing, rev, stack, askVars, roundVars, watchVars, cancelled, owed, busy, status, refused, ghosts>>

Repaired ==
  /\ pc = "repaired"
  /\ WatchAfter
  /\ pc' = "next"
  /\ UNCHANGED <<drawing, rev, stack, askVars, roundVars, cancelled, leaving, engineVars, status, refused, ghosts>>

Recritique ==
  /\ pc = "next" /\ todo = {}
  /\ Served
  /\ \E S \in SUBSET (Findings \cup {Failed}) : Reads(S) /\ after' = S
  /\ pc' = "judge"
  /\ UNCHANGED <<drawing, rev, stack, askVars, issues, initial, round, todo, calls, rounds, watchVars, cancelled, leaving, late, owed, quar, status, refused, others, callers, made, outside, lost, stray>>

RecritiqueRaises ==
  /\ pc = "next" /\ todo = {} /\ "slow" \in Mishaps
  /\ Served
  /\ busy' = TRUE
  /\ pc' = "undo" /\ leaving' = "error"
  /\ UNCHANGED <<drawing, rev, stack, askVars, roundVars, watchVars, cancelled, late, owed, quar, status, refused, ghosts>>

\* Plausible bug: the revision is read before a commit only.
MutantJudge ==
  /\ pc = "judge"
  /\ IF Worse(issues, after) THEN pc' = "rollback" /\ UNCHANGED watchVars ELSE pc' = "commit" /\ WatchBefore
  /\ UNCHANGED <<drawing, rev, stack, askVars, roundVars, cancelled, leaving, engineVars, status, refused, ghosts>>

\* A round that made the score or the errors worse is taken back.
Judge ==
  /\ pc = "judge"
  /\ pc' = IF Worse(issues, after) THEN "rollback" ELSE "commit"
  /\ WatchBefore
  /\ UNCHANGED <<drawing, rev, stack, askVars, roundVars, cancelled, leaving, engineVars, status, refused, ghosts>>

-------------------------------------------------------------------------------
(* The round's end *)

Commit ==
  /\ pc = "commit"
  /\ Served
  /\ stack' = SubSeq(stack, 1, Len(stack) - 1)
  /\ pc' = "committed"
  /\ UNCHANGED <<drawing, rev, askVars, roundVars, watchVars, cancelled, leaving, engineVars, status, refused, ghosts>>

Committed ==
  /\ pc = "committed"
  /\ WatchAfter
  /\ rounds' = Append(rounds, "committed")
  /\ issues' = after
  /\ IF Score(after) >= min THEN Ends("threshold_met")
     ELSE IF after = issues THEN Ends("no_progress")
     ELSE pc' = "round" /\ UNCHANGED status
  /\ UNCHANGED <<drawing, rev, stack, askVars, after, initial, round, todo, calls, cancelled, leaving, engineVars, refused, ghosts>>

Rollback ==
  /\ pc = "rollback"
  /\ Served
  /\ RolledBack
  /\ pc' = "rolled"
  /\ UNCHANGED <<askVars, roundVars, watchVars, cancelled, leaving, engineVars, status, refused, others, callers, blind, made, outside, stray>>

Rolled ==
  /\ pc = "rolled"
  /\ WatchAfter
  /\ rounds' = Append(rounds, "rolled_back")
  /\ status' = "rolled_back"
  /\ pc' = "last"
  /\ UNCHANGED <<drawing, rev, stack, askVars, issues, after, initial, round, todo, calls, cancelled, leaving, engineVars, refused, ghosts>>

\* No handler: the refusal is the answer.
CloseRefused ==
  /\ pc \in {"commit", "rollback"}
  /\ Refused
  /\ Ends("raised")
  /\ refused' = TRUE
  /\ UNCHANGED <<drawing, rev, stack, askVars, roundVars, watchVars, cancelled, leaving, engineVars, ghosts>>

\* The handler around the repairs and the re-critique: the rollback, shielded, waits
\* for a worker that was left.  A cancellation goes on; an error is answered.
Undo ==
  /\ pc = "undo"
  /\ Served
  /\ RolledBack
  /\ IF leaving = "cancel" THEN Ends("cancelled") /\ UNCHANGED rounds
     ELSE /\ rounds' = Append(rounds, "rolled_back")
          /\ status' = "repair_failed"
          /\ pc' = "last"
  /\ UNCHANGED <<askVars, issues, after, initial, round, todo, calls, watchVars, cancelled, leaving, engineVars, refused, others, callers, blind, made, outside, stray>>

\* Refused, it is raised instead of the error - or, after a cancellation, logged.
UndoRefused ==
  /\ pc = "undo"
  /\ Refused
  /\ Ends(IF leaving = "cancel" THEN "cancelled" ELSE "raised")
  /\ refused' = TRUE
  /\ UNCHANGED <<drawing, rev, stack, askVars, roundVars, watchVars, cancelled, leaving, engineVars, ghosts>>

\* What is left to find after a round that was rolled back.
LastCritique ==
  /\ pc = "last"
  /\ Served
  /\ \E S \in SUBSET (Findings \cup {Failed}) : Reads(S) /\ issues' = S
  /\ pc' = "done"
  /\ UNCHANGED <<drawing, rev, stack, askVars, after, initial, round, todo, calls, rounds, watchVars, cancelled, leaving, late, owed, quar, status, refused, others, callers, made, outside, lost, stray>>

LastCritiqueRaises ==
  /\ pc = "last" /\ "slow" \in Mishaps
  /\ Served
  /\ busy' = TRUE
  /\ Ends("raised")
  /\ UNCHANGED <<drawing, rev, stack, askVars, roundVars, watchVars, cancelled, leaving, late, owed, quar, refused, ghosts>>

\* A call of the request's own transaction outlives its deadline: it raises - out of
\* the handler's rollback too, unless a cancellation goes on - and its worker runs on.
OwnOverruns ==
  /\ pc \in {"begin", "commit", "rollback", "undo"} /\ "overrun" \in Mishaps
  /\ Served
  /\ owed' = IF pc = "undo" THEN "rollback" ELSE pc
  /\ quar' = TRUE
  /\ Ends(IF pc = "undo" /\ leaving = "cancel" THEN "cancelled" ELSE "raised")
  /\ UNCHANGED <<drawing, rev, stack, askVars, roundVars, watchVars, cancelled, leaving, late, busy, refused, ghosts>>

-------------------------------------------------------------------------------
(* Around the request *)

\* Plausible bug: the handler catches errors only.
MutantLeaves == Ends("cancelled") /\ UNCHANGED <<leaving, cancelled>>

\* Where a cancellation takes the request: the handler, if it is inside the try.
Leaves ==
  IF pc = "begin" THEN cancelled' = TRUE /\ UNCHANGED <<pc, leaving, status>>
  ELSE IF pc \in {"next", "repair", "working"}
       THEN pc' = "undo" /\ leaving' = "cancel" /\ UNCHANGED <<cancelled, status>>
  ELSE Ends("cancelled") /\ UNCHANGED <<leaving, cancelled>>

\* At an await; a worker runs on, with the lock.
Cancel ==
  /\ pc \in CancelAt
  /\ pc = "next" => todo = {}
  /\ Leaves
  /\ late' = IF pc = "working" THEN <<round, calls + 1>> ELSE late
  /\ owed' \in {owed} \cup (IF pc \in {"commit", "rollback"} /\ Served THEN {pc} ELSE {})
  /\ UNCHANGED <<drawing, rev, stack, askVars, roundVars, watchVars, quar, busy, refused, ghosts>>

\* The worker that was left ends: its edit lands, and a quarantine is lifted - or it
\* raised, and the quarantine stays.
LateEnds ==
  /\ late # None
  /\ \/ Edited(late) /\ made' = made \cup {late} /\ quar' = FALSE
     \/ UNCHANGED <<drawing, rev, made, quar>>
  /\ late' = None
  /\ UNCHANGED <<stack, pc, askVars, roundVars, watchVars, cancelled, leaving, owed, busy, status, refused, others, callers, blind, outside, lost, stray>>

\* The request's own begin pushes its snapshot now, or raised; its commit keeps the
\* round; its rollback takes it back.
OwedEnds ==
  /\ \/ /\ owed = "begin"
        /\ stack' = Append(stack, drawing) /\ stray' = owed /\ quar' = FALSE
        /\ UNCHANGED <<drawing, rev, lost>>
     \/ owed = "begin" /\ UNCHANGED <<drawing, rev, stack, stray, quar, lost>>
     \/ /\ owed = "commit"
        /\ stack' = SubSeq(stack, 1, Len(stack) - 1) /\ stray' = owed /\ quar' = FALSE
        /\ UNCHANGED <<drawing, rev, lost>>
     \/ owed = "rollback" /\ RolledBack /\ quar' = FALSE /\ UNCHANGED stray
  /\ owed' = None
  /\ UNCHANGED <<pc, askVars, roundVars, watchVars, cancelled, leaving, late, busy, status, refused, others, callers, blind, made, outside>>

LateOverruns ==
  /\ (late # None \/ owed # None) /\ ~quar /\ "overrun" \in Mishaps
  /\ quar' = TRUE
  /\ UNCHANGED <<drawing, rev, stack, pc, askVars, roundVars, watchVars, cancelled, leaving, late, owed, busy, status, refused, ghosts>>

\* The read past its deadline ends.
ReadEnds ==
  /\ busy
  /\ busy' = FALSE
  /\ UNCHANGED <<drawing, rev, stack, pc, askVars, roundVars, watchVars, cancelled, leaving, late, owed, quar, status, refused, ghosts>>

\* Another client edits the drawing, in a call of its own.  Bound: not after the end.
OtherEdit ==
  /\ pc # "done"
  /\ Served
  /\ others < MaxOthers
  /\ others' = others + 1
  /\ LET e == <<0, others + 1>> IN
     /\ Edited(e)
     /\ outside' = IF InCall THEN outside ELSE outside \cup {<<e, rev + 1>>}
  /\ UNCHANGED <<stack, pc, askVars, roundVars, watchVars, cancelled, leaving, engineVars, status, refused, callers, blind, made, lost, stray>>

-------------------------------------------------------------------------------
\* A drawing, which a transaction of the caller may cover.
Init ==
  /\ \E S \in SUBSET Findings : drawing = [edits |-> {}, findings |-> S]
  /\ rev = 0
  /\ stack \in {<<>>, <<[edits |-> {}, findings |-> {}]>>}
  /\ pc = "idle" /\ expected = None /\ guarded = FALSE /\ min = 0
  /\ issues = {} /\ after = {} /\ initial = None
  /\ round = 0 /\ todo = {} /\ calls = 0 /\ rounds = <<>>
  /\ start = None /\ last = None /\ seen = {}
  /\ cancelled = FALSE /\ leaving = None
  /\ late = None /\ owed = None /\ quar = FALSE /\ busy = FALSE
  /\ status = None /\ refused = FALSE
  /\ others = 0 /\ callers = stack /\ blind = None /\ stray = None
  /\ made = {} /\ outside = {} /\ lost = {}

Next ==
  \/ DryRun \/ \E g \in BOOLEAN, m \in MinScores : Apply(g, m)
  \/ Check \/ WatchBegins \/ FirstCritique \/ FirstCritiqueRaises
  \/ RoundStarts \/ NoRound
  \/ Begin \/ BeginRefused \/ BeginDeclined \/ Begun
  \/ RepairTurn \/ RepairCall \/ RepairRaises \/ RepairLands \/ RepairOverruns \/ Repaired
  \/ Recritique \/ RecritiqueRaises \/ Judge
  \/ Commit \/ Committed \/ Rollback \/ Rolled \/ CloseRefused
  \/ Undo \/ UndoRefused \/ OwnOverruns \/ LastCritique \/ LastCritiqueRaises
  \/ Cancel \/ LateEnds \/ OwedEnds \/ LateOverruns \/ ReadEnds \/ OtherEdit

Spec == Init /\ [][Next]_vars

-------------------------------------------------------------------------------
(* Properties *)

\* Types.
TypeOK ==
  /\ drawing \in Drawing /\ rev \in Nat
  /\ stack \in Seq(Drawing) /\ Len(stack) <= 2
  /\ pc \in {"idle", "check", "watch", "critique", "round", "begin", "begun", "next", "repair", "working",
            "repaired", "judge", "commit", "committed", "rollback", "rolled", "undo", "last", "done"}
  /\ expected \in Nat \cup {None} /\ guarded \in BOOLEAN /\ min \in MinScores \cup {0}
  /\ {issues, after} \subseteq SUBSET (Findings \cup {Failed})
  /\ initial \in [score : 0..100, errors : Nat] \cup {None}
  /\ round \in 0..MaxRounds /\ todo \subseteq Repairable /\ calls \in 0..MaxCalls
  /\ rounds \in Seq({"not_started", "committed", "rolled_back"})
  /\ start \in Nat \cup {None} /\ last \in Nat \cup {None} /\ seen \subseteq Nat \X Nat
  /\ cancelled \in BOOLEAN /\ quar \in BOOLEAN /\ busy \in BOOLEAN /\ refused \in BOOLEAN
  /\ leaving \in {"error", "cancel", None} /\ blind \in {"first", "later", None}
  /\ late \in Edits \cup {None} /\ owed \in {"begin", "commit", "rollback", None}
  /\ stray \in {"begin", "commit", None}
  /\ status \in {"threshold_met", "manual_required", "max_rounds", "no_progress", "rolled_back",
                "repair_failed", "transaction_unavailable", "stale", "raised", "cancelled", None}
  /\ others \in 0..MaxOthers /\ callers \in Seq(Drawing) /\ made \subseteq Edits
  /\ outside \subseteq Edits \X Nat /\ lost \subseteq outside

\* The request is over, no worker of it still runs, and closing its transaction was
\* not refused.
Over == pc = "done" /\ late = None /\ owed = None /\ ~refused

Made(r) == {e \in made : e[1] = r}
CommittedRounds == {r \in DOMAIN rounds : rounds[r] = "committed"}

\* A round is whole: when the request is over - answered, raised or cancelled where its
\* handler is - the drawing holds every edit of the rounds it committed and none of the
\* others', whatever another client drew meanwhile, and only the caller's own
\* transactions are open.  If its own begin or commit outlived a deadline and landed
\* after all, the answer is an error, and what differs is the one snapshot on top, of
\* a round that made nothing, or the one round that is kept, whole, without an outcome.
RoundWhole ==
  Over => /\ callers = IF stray = "begin" THEN SubSeq(stack, 1, Len(stack) - 1) ELSE stack
          /\ stray # None => status = "raised"
          /\ \A r \in 1..round :
               Made(r) \cap drawing.edits =
                 IF r \in CommittedRounds \/ (stray = "commit" /\ r = round) THEN Made(r) ELSE {}

\* Left to itself, a request whose critiques covered the drawing ends with no lower
\* score and no more errors than it found, over all of its rounds, failed and cancelled
\* ones included; and an answer that the threshold is met is true of the drawing.
NeverWorse ==
  (Over /\ others = 0 /\ initial # None /\ blind = None) =>
    /\ Score(drawing.findings) >= initial.score
    /\ ErrorsIn(drawing.findings) <= initial.errors
    /\ status = "threshold_met" => Score(drawing.findings) >= min

\* "Apply deterministic repairs without allowing quality to regress" (refiner.py:176),
\* of a request that read the whole drawing when it began: whatever checks fail later.
NeverRegresses ==
  (Over /\ others = 0 /\ initial # None /\ blind # "first") =>
    (Score(drawing.findings) >= initial.score /\ ErrorsIn(drawing.findings) <= initial.errors)

\* No edit of another client is lost unseen: one that lands between the calls of a
\* guarded apply, and that the rollback of a round that made things worse takes away,
\* is among the interleaved changes it answers with.
LostIsReported ==
  (guarded /\ pc = "done" /\ status = "rolled_back") =>
    \A p \in lost : \E move \in seen : move[1] < p[2] /\ p[2] <= move[2]
===============================================================================
