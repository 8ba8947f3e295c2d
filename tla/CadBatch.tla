-------------------------------- MODULE CadBatch -------------------------------
(***************************************************************************)
(* cad_batch (server.py) on the headless engine: a list of tool calls run  *)
(* one after the other, each a locked call of its own, inside a checkpoint *)
(* that a failure or a cancellation rolls back.  One client's operation id *)
(* and the runs it makes; other clients edit the same drawing in between.  *)
(* A worker outlives a cancelled request and a deadline, be it a step's or *)
(* the checkpoint's (see DocumentLease).                                   *)
(***************************************************************************)
EXTENDS Naturals, Sequences, FiniteSets

CONSTANTS
  Requests,     \* the on_error values clients ask for
  Ops,          \* what a step may do: "edit", "begin", "commit", "undo"
  MaxSteps,     \* bound: steps of a batch
  MaxRuns,      \* bound: how often the client sends its operation id
  MaxOthers,    \* bound: edits that other clients make
  MaxStack,     \* MAX_UNDO_STACK
  MayCancel,    \* may the client cancel its request?
  Progress,     \* did it ask for progress reports, so that sending one may wait?
  None

ASSUME BatchAssumption ==
  /\ Requests \subseteq {"auto", "rollback", "stop", "continue"}
  /\ Ops \subseteq {"edit", "begin", "commit", "undo"}
  /\ {MaxSteps, MaxRuns, MaxOthers} \subseteq Nat
  /\ MaxStack \in Nat \ {0}
  /\ {MayCancel, Progress} \subseteq BOOLEAN

Steps == 1..MaxSteps

\* An edit is named by the run and the step that make it; <<0, n>>: by others.
Edits == (0..MaxRuns) \X (0..(MaxSteps + MaxOthers))

Plans == UNION {[1..n -> Ops] : n \in Steps}

Records == {"none", "running", "committed", "partial", "failed", "quarantined", "cancelled",
            "unknown_commit"}

VARIABLES
  content,    \* the edits the drawing holds
  stack,      \* _transaction_stack: the snapshots, oldest first
  run,        \* how often the batch was sent
  request,    \* its on_error, as the client sent it
  plan,       \* its steps
  mode,       \* on_error as it is run: "rollback", "stop", "continue"
  pc,         \* "idle", "probe", "open", "step", "working", "report", "close", "escape"
  pos,        \* the step at hand
  failed,     \* did a step fail?
  done,       \* the steps that answered ok
  before,     \* the fingerprint before step 1
  base,       \* the transaction depth before the batch opened its own
  cancelled,  \* has a cancellation arrived that a shield holds back?
  late,       \* the worker its coroutine left, and which has the lock: what it does,
              \* of which run, in which step (0: the batch's own begin or close)
  quar,       \* is the document quarantined?
  record,     \* the journal's record of the operation id
  said,       \* has a run said that its checkpoint did not open, or close, as meant?
  overran,    \* did the begin of the batch's checkpoint outrun its deadline?
  callers,    \* history: the snapshots open when the batch was sent
  others      \* how many edits other clients have made

batchVars == <<run, request, plan, mode, before, base, overran, callers>>
vars == <<content, stack, batchVars, pc, pos, failed, done, cancelled, late, quar, record, said, others>>

-------------------------------------------------------------------------------
(* The document *)

\* A document call gets the lock, and the gate lets it through.
Served == late = None /\ pc # "working" /\ ~quar

\* _batch_fingerprint counts entities: "necessary, not sufficient".
Fingerprint(c) == Cardinality(c)

\* Plausible bug: transaction_begin keeps every snapshot.
MutantPushed(s, c) == Append(s, c)

\* transaction_begin drops the oldest snapshot past MAX_UNDO_STACK.
Pushed(s, c) == IF Len(s) = MaxStack THEN Append(Tail(s), c) ELSE Append(s, c)

\* What step n of run r does to the drawing and its snapshots.
Effect(op, r, n) ==
  \/ op = "edit" /\ content' = content \cup {<<r, n>>} /\ UNCHANGED stack
  \/ op = "begin" /\ stack' = Pushed(stack, content) /\ UNCHANGED content
  \/ op = "commit" /\ stack # <<>> /\ stack' = SubSeq(stack, 1, Len(stack) - 1) /\ UNCHANGED content
  \/ op = "undo" /\ stack # <<>> /\ stack' = SubSeq(stack, 1, Len(stack) - 1)
       /\ content' = stack[Len(stack)]

\* Plausible bug: one close, whatever the steps opened above the batch's own.
MutantDepthLeft(s) == Len(s) - 1

\* _close_batch_checkpoint: one close, and one more while the depth is above the
\* one before the batch.
DepthLeft(s) == IF Len(s) - 1 > base THEN base ELSE Len(s) - 1

\* The last snapshot it closes.
Reached(s) == s[DepthLeft(s) + 1]

-------------------------------------------------------------------------------
(* Starting *)

\* on_error="auto": rollback, unless the batch drives a transaction itself.
Resolved(q, p) ==
  IF q # "auto" THEN q
  ELSE IF \A n \in DOMAIN p : p[n] = "edit" THEN "rollback" ELSE "stop"

\* The client sends its id, always with the same arguments; the journal lets it
\* run: a new id, or one that is recorded as cancelled.
Send(q, p) ==
  /\ pc = "idle"
  /\ run < MaxRuns
  /\ record \in {"none", "cancelled"}
  /\ run > 0 => q = request /\ p = plan
  /\ request' = q
  /\ run' = run + 1
  /\ plan' = p
  /\ mode' = Resolved(q, p)
  /\ pc' = IF mode' = "rollback" THEN "probe" ELSE "step"
  /\ pos' = 1 /\ failed' = FALSE /\ done' = {} /\ cancelled' = FALSE /\ overran' = FALSE
  /\ record' = "running"
  /\ callers' = stack
  /\ UNCHANGED <<content, stack, before, base, late, quar, said, others>>

\* The fingerprint (a call of its own) and the depth; a quarantine only leaves
\* the fingerprint out.
Probe ==
  /\ pc = "probe"
  /\ Served \/ quar
  /\ before' = IF quar THEN None ELSE Fingerprint(content)
  /\ base' = Len(stack)
  /\ pc' = "open"
  /\ UNCHANGED <<content, stack, run, request, plan, mode, overran, callers, pos, failed, done, cancelled, late, quar, record, said, others>>

\* The request is over.  Its record: what _result_outcome or _interrupted_state
\* makes of it.
Over(state, told) ==
  /\ pc' = "idle"
  /\ record' = state
  /\ said' = (said \/ told)

\* What a cancelled batch is recorded as: one of its own workers may have run on.
Interrupted == IF overran THEN "unknown_commit" ELSE "cancelled"

\* A refusal leaves the batch as the exception it is - or, if a cancellation was
\* held back, as that, should an await on the way out deliver it.
Raised(state, told) ==
  \/ Over(state, told)
  \/ cancelled /\ Over("cancelled", told)

\* transaction_begin, shielded: a cancellation that arrived meanwhile waits.
OpenCheckpoint ==
  /\ pc = "open"
  /\ Served
  /\ stack' = Pushed(stack, content)
  /\ pc' = IF cancelled THEN "escape" ELSE "step"
  /\ UNCHANGED <<content, batchVars, pos, failed, done, cancelled, late, quar, record, said, others>>

\* Its worker outlives the deadline, and pushes its snapshot when it ends: the
\* call raises, or auto runs on as stop.  Nothing will close that snapshot.
OpenOverrun ==
  /\ pc = "open"
  /\ Served
  /\ late' = <<"begin", run, 0>>
  /\ quar' = TRUE
  /\ \/ /\ request # "auto" \/ cancelled
        /\ Over("unknown_commit", TRUE) /\ UNCHANGED <<mode, overran>>
     \/ /\ request = "auto" /\ ~cancelled
        /\ mode' = "stop" /\ pc' = "step" /\ overran' = TRUE /\ said' = TRUE /\ UNCHANGED record
  /\ UNCHANGED <<content, stack, run, request, plan, before, base, callers, pos, failed, done, cancelled, others>>

\* A quarantine refuses it, or its export fails: auto runs on as stop, with no claim.
OpenRefused ==
  /\ pc = "open"
  /\ quar \/ Served
  /\ \/ request # "auto" /\ Raised(IF quar THEN "quarantined" ELSE "failed", FALSE) /\ UNCHANGED mode
     \/ request = "auto" /\ cancelled /\ Over("cancelled", FALSE) /\ UNCHANGED mode
     \/ request = "auto" /\ ~cancelled /\ mode' = "stop" /\ pc' = "step" /\ said' = TRUE /\ UNCHANGED record
  /\ UNCHANGED <<content, stack, run, request, plan, before, base, overran, callers, pos, failed, done, cancelled, late, quar, others>>

-------------------------------------------------------------------------------
(* The step loop *)

\* The next step's worker starts.
StepStart ==
  /\ pc = "step"
  /\ pos \in DOMAIN plan
  /\ ~(failed /\ mode = "stop")
  /\ Served
  /\ pc' = "working"
  /\ UNCHANGED <<content, stack, batchVars, pos, failed, done, cancelled, late, quar, record, said, others>>

\* After a step that failed, and after the last one.
After(ok) ==
  /\ pos' = pos + 1
  /\ failed' = (failed \/ ~ok)
  /\ done' = IF ok THEN done \cup {pos} ELSE done
  /\ pc' = IF ~ok /\ mode = "rollback" THEN "report" ELSE "step"

\* A quarantine refuses the step.
StepRefused ==
  /\ pc = "step"
  /\ pos \in DOMAIN plan
  /\ ~(failed /\ mode = "stop")
  /\ quar
  /\ After(FALSE)
  /\ UNCHANGED <<content, stack, batchVars, cancelled, late, quar, record, said, others>>

\* Plausible bug: a step that declines by value ("ok": false) counts as done.
MutantStepDeclined ==
  /\ pc = "working"
  /\ After(TRUE)
  /\ UNCHANGED <<content, stack, batchVars, cancelled, late, quar, record, said, others>>

\* It declines, or raises before it did anything.
StepDeclined ==
  /\ pc = "working"
  /\ After(FALSE)
  /\ UNCHANGED <<content, stack, batchVars, cancelled, late, quar, record, said, others>>

\* It does its work, and answers ok or raises after it.
StepDone ==
  /\ pc = "working"
  /\ Effect(plan[pos], run, pos)
  /\ \E ok \in BOOLEAN : After(ok)
  /\ UNCHANGED <<batchVars, cancelled, late, quar, record, said, others>>

\* Its worker outlives the deadline: the document is quarantined.
StepOverrun ==
  /\ pc = "working"
  /\ late' = <<plan[pos], run, pos>>
  /\ quar' = TRUE
  /\ After(FALSE)
  /\ UNCHANGED <<content, stack, batchVars, cancelled, record, said, others>>

\* A step names what an earlier one should have bound and did not: it fails, and
\* even in rollback mode the loop goes on to the next.
StepUnresolved ==
  /\ pc = "step"
  /\ pos \in DOMAIN plan \ {1}
  /\ ~(failed /\ mode = "stop")
  /\ pos' = pos + 1
  /\ failed' = TRUE
  /\ UNCHANGED <<content, stack, batchVars, pc, done, cancelled, late, quar, record, said, others>>

LoopEnds ==
  /\ pc = "step"
  /\ pos \notin DOMAIN plan \/ (failed /\ mode = "stop")
  /\ pc' = "report"
  /\ UNCHANGED <<content, stack, batchVars, pos, failed, done, cancelled, late, quar, record, said, others>>

\* The last progress report, after the loop and its handler.
Report ==
  /\ pc = "report"
  /\ pc' = "close"
  /\ UNCHANGED <<content, stack, batchVars, pos, failed, done, cancelled, late, quar, record, said, others>>

-------------------------------------------------------------------------------
(* Closing *)

\* What a batch that is answered is recorded as.
Answered(rolledBack) ==
  IF ~failed THEN "committed" ELSE IF rolledBack \/ done = {} THEN "failed" ELSE "partial"

\* The checkpoint is rolled back; declined, if there is none.  TRUE - it held, as
\* far as the fingerprint and the depth tell.
RollBack(told) ==
  IF stack = <<>> THEN told = TRUE /\ UNCHANGED <<content, stack>>
  ELSE /\ content' = Reached(stack)
       /\ stack' = SubSeq(stack, 1, DepthLeft(stack))
       /\ told = (before # None /\ Fingerprint(content') # before)

\* The normal end, shielded: a commit, or the rollback after a failed step.
Close ==
  /\ pc = "close" /\ mode = "rollback"
  /\ Served
  /\ \E told \in BOOLEAN :
       /\ IF failed THEN RollBack(told)
          ELSE /\ stack' = IF stack = <<>> THEN stack ELSE SubSeq(stack, 1, DepthLeft(stack))
               /\ told = (stack = <<>>)
               /\ UNCHANGED content
       /\ Over(IF cancelled THEN "cancelled" ELSE Answered(failed /\ stack # <<>>), told)
  /\ UNCHANGED <<batchVars, pos, failed, done, cancelled, late, quar, others>>

\* One of its closes outlives the deadline - n snapshots are left for it to close
\* the last of - and the call raises, or the escape handler records that.
CloseOverrun ==
  /\ pc = "escape" \/ (pc = "close" /\ mode = "rollback")
  /\ Served
  /\ LET undo == pc = "escape" \/ failed
     IN \E n \in DOMAIN stack :
          /\ n > DepthLeft(stack)
          /\ stack' = SubSeq(stack, 1, n)
          /\ content' = IF undo /\ n < Len(stack) THEN stack[n + 1] ELSE content
          /\ late' = <<IF undo THEN "undo" ELSE "commit", run, 0>>
  /\ quar' = TRUE
  /\ Over("unknown_commit", TRUE)
  /\ UNCHANGED <<batchVars, pos, failed, done, cancelled, others>>

\* The commit or the rollback is itself refused: the refusal is the answer.
CloseRefused ==
  /\ pc = "close" /\ mode = "rollback"
  /\ quar
  /\ Raised("quarantined", TRUE)
  /\ UNCHANGED <<content, stack, batchVars, pos, failed, done, cancelled, late, quar, others>>

CloseWithout ==
  /\ pc = "close" /\ mode # "rollback"
  /\ Over(Answered(FALSE), FALSE)
  /\ UNCHANGED <<content, stack, batchVars, pos, failed, done, cancelled, late, quar, others>>

-------------------------------------------------------------------------------
(* Cancellation *)

\* Plausible bug: a cancellation leaves the loop past the rollback.
MutantEscapes == Over(Interrupted, FALSE)

\* It leaves the loop: with a checkpoint open the handler rolls it back.  Before
\* the loop and after it there is no handler.
Escapes ==
  IF mode = "rollback" /\ pc \in {"step", "working"} THEN pc' = "escape" /\ UNCHANGED <<record, said>>
  ELSE Over(Interrupted, FALSE)

\* At an await of the loop; a step's worker runs on, with the lock.
Cancel ==
  /\ MayCancel
  /\ pc \in {"probe", "step", "working"} \cup (IF Progress THEN {"report"} ELSE {})
  /\ Escapes
  /\ late' = IF pc = "working" THEN <<plan[pos], run, pos>> ELSE late
  /\ UNCHANGED <<content, stack, batchVars, pos, failed, done, cancelled, quar, others>>

\* During a shielded begin, commit or rollback.
CancelHeld ==
  /\ MayCancel
  /\ pc = "open" \/ (pc = "close" /\ mode = "rollback")
  /\ cancelled' = TRUE
  /\ UNCHANGED <<content, stack, batchVars, pc, pos, failed, done, late, quar, record, said, others>>

\* The escape handler's rollback, shielded; it waits for the left worker, and
\* records in call_outcomes what it could not undo.
EscapeRollback ==
  /\ pc = "escape"
  /\ \/ Served /\ \E told \in BOOLEAN : RollBack(told) /\ Over("cancelled", told)
     \/ quar /\ Over("cancelled", TRUE) /\ UNCHANGED <<content, stack>>
  /\ UNCHANGED <<batchVars, pos, failed, done, cancelled, late, quar, others>>

-------------------------------------------------------------------------------
(* Around the batch *)

\* The worker that was left ends: its work is done, or there is no snapshot and it
\* declines, and a quarantine is lifted - or it raised, and the quarantine stays.
LateEnds ==
  /\ late # None
  /\ \/ Effect(late[1], late[2], late[3]) /\ quar' \in {FALSE, quar}
     \/ late[1] \in {"commit", "undo"} /\ stack = <<>> /\ quar' = FALSE /\ UNCHANGED <<content, stack>>
     \/ UNCHANGED <<content, stack, quar>>
  /\ late' = None
  /\ UNCHANGED <<batchVars, pc, pos, failed, done, cancelled, record, said, others>>

\* Plausible bug: the lease of a worker that was left has no deadline timer.
MutantLateOverruns == FALSE /\ UNCHANGED vars

\* It is still running at the deadline of its call.
LateOverruns ==
  /\ late # None /\ ~quar
  /\ quar' = TRUE
  /\ UNCHANGED <<content, stack, batchVars, pc, pos, failed, done, cancelled, late, record, said, others>>

\* Another client edits the drawing, in a call of its own.
OtherEdit ==
  /\ others < MaxOthers
  /\ Served
  /\ content' = content \cup {<<0, others + 1>>}
  /\ others' = others + 1
  /\ UNCHANGED <<stack, batchVars, pc, pos, failed, done, cancelled, late, quar, record, said>>

-------------------------------------------------------------------------------
\* A drawing with an edit in it, which a transaction of the caller may cover.
Init ==
  /\ request = None
  /\ content = {<<0, 0>>}
  /\ stack \in {<<>>, << {} >>}
  /\ run = 0 /\ plan = <<>> /\ mode = "stop" /\ pc = "idle" /\ pos = 1 /\ overran = FALSE
  /\ failed = FALSE /\ done = {} /\ before = None /\ base = 0
  /\ cancelled = FALSE /\ late = None /\ quar = FALSE
  /\ record = "none" /\ said = FALSE /\ callers = <<>> /\ others = 0

Batch ==
  \/ \E q \in Requests, p \in Plans : Send(q, p)
  \/ Probe \/ OpenCheckpoint \/ OpenOverrun \/ OpenRefused
  \/ StepStart \/ StepUnresolved \/ StepRefused \/ StepDeclined \/ StepDone \/ StepOverrun
  \/ LoopEnds \/ Report
  \/ Close \/ CloseOverrun \/ CloseRefused \/ CloseWithout
  \/ EscapeRollback

Next ==
  \/ Batch
  \/ Cancel \/ CancelHeld
  \/ LateEnds \/ LateOverruns \/ OtherEdit

\* The server goes on with the batch, and a worker it waits for ends or is given
\* up at its deadline.
Spec == Init /\ [][Next]_vars /\ WF_vars(Batch) /\ WF_vars(LateOverruns)

-------------------------------------------------------------------------------
(* Properties *)

\* Types.
TypeOK ==
  /\ content \subseteq Edits
  /\ stack \in Seq(SUBSET Edits) /\ Len(stack) <= MaxStack
  /\ run \in 0..MaxRuns
  /\ request \in Requests \cup {None}
  /\ plan \in Plans \cup {<<>>}
  /\ mode \in {"rollback", "stop", "continue"}
  /\ pc \in {"idle", "probe", "open", "step", "working", "report", "close", "escape"}
  /\ pos \in 1..(MaxSteps + 1)
  /\ {failed, cancelled, quar, said, overran} \subseteq BOOLEAN
  /\ done \subseteq Steps
  /\ before \in Nat \cup {None}
  /\ base \in 0..MaxStack
  /\ late \in ({"edit", "begin", "commit", "undo"} \X (1..MaxRuns) \X (0..MaxSteps)) \cup {None}
  /\ record \in Records
  /\ callers \in Seq(SUBSET Edits)
  /\ others \in 0..MaxOthers

Mine == {e \in content : e[1] = run}

Wanted == {<<run, n>> : n \in {k \in DOMAIN plan : plan[k] = "edit"}}

\* A batch in rollback mode is over, nothing of it still runs, and no run of it
\* said that its checkpoint did not open or close as meant.
Settled == pc = "idle" /\ run > 0 /\ mode = "rollback" /\ ~said /\ late = None

Undoes(p) == \E n \in DOMAIN p : p[n] \in {"commit", "undo"}

\* All or nothing: whether a step failed, a worker ran on or the request was
\* cancelled at any await, the drawing holds every edit of the batch or none.
AllOrNothing == (Settled /\ ~Undoes(plan)) => Mine \in {{}, Wanted}

\* The batch leaves the caller's own checkpoints as they were, and none of its own
\* or of its steps' behind, however it ends - unless a run said that its checkpoint
\* did not open or close as meant: a begin or a close that outlives its deadline
\* leaves one, and so does a rollback that a quarantine refuses.
NoCheckpointLeft == (Settled /\ ~Undoes(plan)) => stack = callers

\* A batch recorded as committed did all of its steps' work.
CommittedIsThere ==
  (pc = "idle" /\ record = "committed" /\ ~Undoes(plan)) => Mine = Wanted

\* Nothing a cancelled or failed batch left can make it wait for ever: every batch
\* that is sent ends, though no step's worker need ever end.
BatchEnds == (pc # "idle") ~> (pc = "idle")

\* The operation id's promise: its batch is not drawn twice - unless a run said
\* that its rollback did not hold.
RunsOnce == ~said => \A d, e \in content : (d[1] # 0 /\ e[1] # 0) => d[1] = e[1]
===============================================================================
