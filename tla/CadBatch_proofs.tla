---------------------------- MODULE CadBatch_proofs ----------------------------
(***************************************************************************)
(* Proofs about CadBatch, for every number of steps, runs and edits of     *)
(* others: the type invariant, that a batch recorded as committed is       *)
(* drawn, and - when the undo stack can hold the batch's checkpoint and    *)
(* one of each step, and no progress report is sent - that a batch is all  *)
(* or nothing and leaves no checkpoint behind.                             *)
(***************************************************************************)
EXTENDS CadBatch, SequenceTheorems, FiniteSetTheorems, TLAPS

-------------------------------------------------------------------------------
(* The stack of snapshots *)

Snapshots == SUBSET Edits

\* A pushed snapshot is the last one; the others were there.
LEMMA PushedFacts ==
  ASSUME NEW s \in Seq(Snapshots), NEW c \in Snapshots, Len(s) <= MaxStack
  PROVE  /\ Pushed(s, c) \in Seq(Snapshots) /\ Len(Pushed(s, c)) <= MaxStack
         /\ \A i \in DOMAIN Pushed(s, c) :
              Pushed(s, c)[i] = c \/ \E k \in DOMAIN s : Pushed(s, c)[i] = s[k]
<1>1. MaxStack \in Nat \ {0} /\ Len(s) \in Nat
  BY BatchAssumption
<1>2. CASE Len(s) = MaxStack
  <2> DEFINE t == Tail(s)
  <2>1. s # <<>>
    BY <1>1, <1>2
  <2>2. t \in Seq(Snapshots) /\ Len(t) = Len(s) - 1 /\ \A k \in 1..Len(t) : t[k] = s[k + 1]
    BY <2>1, HeadTailProperties
  <2>3. Pushed(s, c) = Append(t, c)
    BY <1>2 DEF Pushed
  <2> HIDE DEF t
  <2>4. Append(t, c) \in Seq(Snapshots) /\ Len(Append(t, c)) = Len(s)
        /\ \A i \in 1..Len(s) : Append(t, c)[i] = IF i = Len(s) THEN c ELSE t[i]
    BY <1>1, <2>2
  <2>5. \A i \in 1..Len(s) : i # Len(s) => i + 1 \in DOMAIN s /\ t[i] = s[i + 1]
    BY <1>1, <2>2
  <2>6. DOMAIN Pushed(s, c) = 1..Len(s)
    BY <2>3, <2>4
  <2>7. QED
    BY <1>2, <2>3, <2>4, <2>5, <2>6
<1>3. CASE Len(s) # MaxStack
  BY <1>1, <1>3 DEF Pushed
<1>4. QED
  BY <1>2, <1>3

\* With room for it, nothing falls off.
LEMMA PushedRoom ==
  ASSUME NEW s \in Seq(Snapshots), NEW c \in Snapshots, Len(s) < MaxStack
  PROVE  /\ Pushed(s, c) \in Seq(Snapshots) /\ Len(Pushed(s, c)) = Len(s) + 1
         /\ Pushed(s, c)[Len(s) + 1] = c
         /\ \A i \in 1..Len(s) : Pushed(s, c)[i] = s[i]
BY DEF Pushed

\* What is below the top stays.
LEMMA PoppedFacts ==
  ASSUME NEW s \in Seq(Snapshots), NEW n \in 0..Len(s)
  PROVE  /\ SubSeq(s, 1, n) \in Seq(Snapshots) /\ Len(SubSeq(s, 1, n)) = n
         /\ \A i \in 1..n : SubSeq(s, 1, n)[i] = s[i]
<1>1. \A i \in 1..n : s[i] \in Snapshots
  OBVIOUS
<1>2. QED
  BY <1>1, SubSeqProperties

-------------------------------------------------------------------------------
(* Types *)

\* Nothing is from a run to come; a worker that was left does a step of the plan,
\* or opens or closes the checkpoint of a run that said so.
Dated ==
  /\ \A e \in content : e[1] <= run
  /\ \A i \in DOMAIN stack : \A e \in stack[i] : e[1] <= run
  /\ late # None =>
       /\ late[2] <= run
       /\ \/ late[3] \in DOMAIN plan /\ late[1] = plan[late[3]]
          \/ /\ late[3] = 0 /\ said
             /\ late[1] = "begin" \/ (late[1] # "edit" /\ record = "unknown_commit")

\* What each pc says of the rest.
Phases ==
  /\ run = 0 => pc = "idle" /\ late = None /\ ~quar /\ ~said /\ record = "none" /\ Len(stack) <= 1
  /\ run > 0 => plan \in Plans
  /\ run > 0 /\ ~said => mode = Resolved(request, plan)
  /\ pc # "idle" => record = "running"
  /\ pc \in {"probe", "open", "escape"} => mode = "rollback"
  /\ pc = "working" => pos \in DOMAIN plan /\ late = None /\ ~quar
  /\ pc \in {"report", "close"} /\ ~failed => pos \notin DOMAIN plan

TypeInv == TypeOK /\ Dated /\ Phases

\* A plan's steps.
LEMMA PlanFacts ==
  ASSUME NEW p \in Plans
  PROVE  DOMAIN p \subseteq Steps /\ \A n \in DOMAIN p : p[n] \in Ops
<1>1. PICK n \in Steps : p \in [1..n -> Ops]
  BY DEF Plans
<1>2. QED
  BY <1>1, BatchAssumption DEF Steps

\* What a step does keeps the drawing and its snapshots, and their dates below a bound.
LEMMA EffectFacts ==
  ASSUME TypeInv, NEW op \in {"edit", "begin", "commit", "undo"}, NEW r \in 1..MaxRuns, NEW n,
         op = "edit" => n \in Steps, Effect(op, r, n),
         NEW b \in Int, r <= b,
         \A e \in content : e[1] <= b,
         \A i \in DOMAIN stack : \A e \in stack[i] : e[1] <= b
  PROVE  /\ content' \in Snapshots /\ stack' \in Seq(Snapshots) /\ Len(stack') <= MaxStack
         /\ \A e \in content' : e[1] <= b
         /\ \A i \in DOMAIN stack' : \A e \in stack'[i] : e[1] <= b
<1>1. content \in Snapshots /\ stack \in Seq(Snapshots) /\ Len(stack) <= MaxStack /\ Len(stack) \in Nat
  BY DEF TypeInv, TypeOK, Snapshots
<1>2. CASE op = "edit"
  <2>1. <<r, n>> \in Edits
    BY <1>2, BatchAssumption DEF Edits, Steps
  <2>2. QED
    BY <1>1, <1>2, <2>1 DEF Effect, Snapshots
<1>3. CASE op = "begin"
  <2>1. stack' = Pushed(stack, content) /\ content' = content
    BY <1>3 DEF Effect
  <2>2. /\ stack' \in Seq(Snapshots) /\ Len(stack') <= MaxStack
        /\ \A i \in DOMAIN stack' : stack'[i] = content \/ \E k \in DOMAIN stack : stack'[i] = stack[k]
    BY <1>1, <2>1, PushedFacts
  <2>3. QED
    BY <1>1, <2>1, <2>2 
<1>4. CASE op \in {"commit", "undo"}
  <2>1. Len(stack) - 1 \in 0..Len(stack) /\ Len(stack) \in DOMAIN stack
    BY <1>1, <1>4 DEF Effect
  <2>2. stack' = SubSeq(stack, 1, Len(stack) - 1) /\ content' \in {content, stack[Len(stack)]}
    BY <1>4 DEF Effect
  <2>3. /\ stack' \in Seq(Snapshots) /\ Len(stack') <= MaxStack
        /\ \A i \in DOMAIN stack' : i \in DOMAIN stack /\ stack'[i] = stack[i]
    <3> DEFINE depth == Len(stack) - 1
    <3>1. depth \in 0..Len(stack) /\ stack' = SubSeq(stack, 1, depth)
      BY <1>1, <2>1, <2>2
    <3> HIDE DEF depth
    <3>2. /\ stack' \in Seq(Snapshots) /\ Len(stack') = depth
          /\ \A i \in 1..depth : stack'[i] = stack[i]
      BY <1>1, <3>1, PoppedFacts
    <3>3. QED
      BY <1>1, <3>1, <3>2, BatchAssumption
  <2>4. QED
    BY <1>1, <2>1, <2>2, <2>3 
<1>5. QED
  BY <1>2, <1>3, <1>4, BatchAssumption

\* What rolling back leaves.
LEMMA RollBackFacts ==
  ASSUME TypeInv, NEW told \in BOOLEAN, RollBack(told)
  PROVE  /\ content' \in Snapshots /\ stack' \in Seq(Snapshots) /\ Len(stack') <= MaxStack
         /\ \A e \in content' : e[1] <= run
         /\ \A i \in DOMAIN stack' : \A e \in stack'[i] : e[1] <= run
<1>1. content \in Snapshots /\ stack \in Seq(Snapshots) /\ Len(stack) <= MaxStack /\ Len(stack) \in Nat
      /\ base \in Nat
  BY BatchAssumption DEF TypeInv, TypeOK, Snapshots
<1>2. CASE stack = <<>>
  BY <1>1, <1>2 DEF RollBack, TypeInv, Dated
<1>3. CASE stack # <<>>
  <2>1. DepthLeft(stack) \in 0..(Len(stack) - 1) /\ DepthLeft(stack) + 1 \in DOMAIN stack
    BY <1>1, <1>3 DEF DepthLeft
  <2>2. stack' = SubSeq(stack, 1, DepthLeft(stack)) /\ content' = stack[DepthLeft(stack) + 1]
    BY <1>3 DEF RollBack, Reached
  <2>3. /\ stack' \in Seq(Snapshots) /\ Len(stack') <= MaxStack
        /\ \A i \in DOMAIN stack' : i \in DOMAIN stack /\ stack'[i] = stack[i]
    <3> DEFINE depth == DepthLeft(stack)
    <3>1. depth \in 0..Len(stack) /\ stack' = SubSeq(stack, 1, depth)
      BY <1>1, <2>1, <2>2
    <3> HIDE DEF depth
    <3>2. /\ stack' \in Seq(Snapshots) /\ Len(stack') = depth
          /\ \A i \in 1..depth : stack'[i] = stack[i]
      BY <1>1, <3>1, PoppedFacts
    <3>3. QED
      BY <1>1, <3>1, <3>2, BatchAssumption
  <2>4. QED
    BY <1>1, <2>1, <2>2, <2>3 DEF TypeInv, Dated
<1>4. QED
  BY <1>2, <1>3

\* A cut at the depth a commit leaves.
LEMMA CommitFacts ==
  ASSUME TypeInv, stack # <<>>, stack' = SubSeq(stack, 1, DepthLeft(stack))
  PROVE  /\ stack' \in Seq(Snapshots) /\ Len(stack') <= MaxStack
         /\ \A i \in DOMAIN stack' : \A e \in stack'[i] : e[1] <= run
<1>1. stack \in Seq(Snapshots) /\ Len(stack) <= MaxStack /\ Len(stack) \in Nat /\ base \in Nat
  BY BatchAssumption DEF TypeInv, TypeOK, Snapshots
<1>2. DepthLeft(stack) \in 0..(Len(stack) - 1)
  BY <1>1 DEF DepthLeft
<1>3. /\ stack' \in Seq(Snapshots) /\ Len(stack') <= MaxStack
      /\ \A i \in DOMAIN stack' : i \in DOMAIN stack /\ stack'[i] = stack[i]
  <2> DEFINE depth == DepthLeft(stack)
  <2>1. depth \in 0..Len(stack) /\ stack' = SubSeq(stack, 1, depth)
    BY <1>1, <1>2
  <2> HIDE DEF depth
  <2>2. /\ stack' \in Seq(Snapshots) /\ Len(stack') = depth
        /\ \A i \in 1..depth : stack'[i] = stack[i]
    BY <1>1, <2>1, PoppedFacts
  <2>3. QED
    BY <1>1, <2>1, <2>2, BatchAssumption
<1>4. QED
  BY <1>1, <1>3 DEF TypeInv, Dated

\* A fingerprint is a number.
LEMMA FingerprintType ==
  ASSUME NEW c \in Snapshots
  PROVE  Fingerprint(c) \in Nat
<1>1. IsFiniteSet(0..MaxRuns) /\ IsFiniteSet(0..(MaxSteps + MaxOthers))
  BY FS_Interval, BatchAssumption
<1>2. IsFiniteSet(Edits)
  BY <1>1, FS_Product DEF Edits
<1>3. QED
  BY <1>2, FS_Subset, FS_CardinalityType DEF Fingerprint, Snapshots

\* After a step.
LEMMA AfterFacts ==
  ASSUME TypeInv, run > 0, pos \in DOMAIN plan, NEW ok \in BOOLEAN, After(ok)
  PROVE  /\ pos' \in 1..(MaxSteps + 1) /\ failed' \in BOOLEAN /\ done' \subseteq Steps
         /\ pc' = "step" \/ (pc' = "report" /\ failed')
<1>1. pos \in Steps /\ MaxSteps \in Nat
  BY PlanFacts, BatchAssumption DEF TypeInv, Phases
<1>2. failed' \in BOOLEAN
  BY DEF After, TypeInv, TypeOK
<1>3. pc' = "step" \/ (pc' = "report" /\ failed')
  BY DEF After
<1>4. done' \subseteq Steps
  BY <1>1 DEF After, TypeInv, TypeOK
<1>5. pos' \in 1..(MaxSteps + 1)
  BY <1>1 DEF After, Steps
<1>6. QED
  BY <1>2, <1>3, <1>4, <1>5

\* The types are kept by every step.
LEMMA TypeKept ==
  ASSUME TypeInv, Next
  PROVE  TypeInv'
<1>1. /\ {MaxSteps, MaxRuns, MaxOthers} \subseteq Nat /\ MaxStack \in Nat \ {0}
      /\ run \in 0..MaxRuns /\ pos \in 1..(MaxSteps + 1)
  BY BatchAssumption DEF TypeInv, TypeOK
<1>2. /\ run > 0 => DOMAIN plan \subseteq Steps /\ \A n \in DOMAIN plan : plan[n] \in Ops
      /\ run > 0 => \A n \in DOMAIN plan : plan[n] \in {"edit", "begin", "commit", "undo"}
  <2>1. \A op \in Ops : op \in {"edit", "begin", "commit", "undo"}
    BY BatchAssumption
  <2>2. QED
    BY <2>1, PlanFacts DEF TypeInv, Phases
<1>3. pc # "idle" => run > 0
  BY <1>1 DEF TypeInv, Phases
<1>4. stack \in Seq(Snapshots) /\ content \in Snapshots /\ Len(stack) \in 0..MaxStack
  BY <1>1 DEF TypeInv, TypeOK, Snapshots
<1>5. CASE Probe
  <2>1. before' \in Nat \cup {None}
    BY <1>4, <1>5, FingerprintType DEF Probe
  <2>2. QED
    BY <1>1, <1>3, <1>4, <1>5, <2>1 DEF Probe, TypeInv, TypeOK, Dated, Phases, batchVars, Steps, Records
<1>6. CASE OpenRefused
  BY <1>1, <1>2, <1>3, <1>4, <1>6 DEF OpenRefused, Raised, Over, TypeInv, TypeOK, Dated, Phases, batchVars, Steps, Records
<1>39. CASE OpenOverrun
  <2>1. run \in 1..MaxRuns /\ 0 \in 0..MaxSteps
    BY <1>1, <1>3, <1>39 DEF OpenOverrun
  <2>2. /\ late' \in {"edit", "begin", "commit", "undo"} \X (1..MaxRuns) \X (0..MaxSteps)
        /\ late' = <<"begin", run, 0>>
    BY <1>39, <2>1 DEF OpenOverrun
  <2>3. /\ quar' = TRUE /\ said' = TRUE /\ mode' \in {mode, "stop"} /\ overran' \in BOOLEAN /\ pc = "open"
        /\ (pc' = "idle" /\ record' = "unknown_commit") \/ (pc' = "step" /\ record' = record)
        /\ UNCHANGED <<content, stack, run, request, plan, before, base, callers, pos, failed, done, cancelled, others>>
    BY <1>39 DEF OpenOverrun, Over, TypeInv, TypeOK
  <2>4. TypeOK'
    BY <2>2, <2>3 DEF TypeInv, TypeOK, Records
  <2>5. Dated'
    BY <1>1, <2>2, <2>3 DEF TypeInv, Dated
  <2>6. Phases'
    BY <2>1, <2>3 DEF TypeInv, Phases
  <2>7. QED
    BY <2>4, <2>5, <2>6 DEF TypeInv
<1>7. CASE StepStart
  BY <1>1, <1>2, <1>3, <1>4, <1>7 DEF StepStart, Served, TypeInv, TypeOK, Dated, Phases, batchVars, Steps, Records, Edits
<1>8. CASE StepUnresolved
  BY <1>1, <1>2, <1>3, <1>4, <1>8 DEF StepUnresolved, TypeInv, TypeOK, Dated, Phases, batchVars, Steps, Records, Edits
<1>9. CASE StepRefused
  <2>1. run > 0 /\ pos \in DOMAIN plan /\ After(FALSE) /\ UNCHANGED <<content, stack, batchVars, record, said, others>>
    BY <1>3, <1>9 DEF StepRefused, TypeInv, Phases
  <2>2. /\ pos' \in 1..(MaxSteps + 1) /\ failed' \in BOOLEAN /\ done' \subseteq Steps
        /\ pc' = "step" \/ (pc' = "report" /\ failed')
    BY <2>1, AfterFacts
  <2>3. QED
    BY <1>1, <1>2, <1>9, <2>1, <2>2 DEF StepRefused, TypeInv, TypeOK, Dated, Phases, batchVars, Steps, Records
<1>10. CASE StepDeclined
  <2>1. run > 0 /\ pos \in DOMAIN plan /\ After(FALSE) /\ UNCHANGED <<content, stack, batchVars, record, said, others>>
    BY <1>3, <1>10 DEF StepDeclined, TypeInv, Phases
  <2>2. /\ pos' \in 1..(MaxSteps + 1) /\ failed' \in BOOLEAN /\ done' \subseteq Steps
        /\ pc' = "step" \/ (pc' = "report" /\ failed')
    BY <2>1, AfterFacts
  <2>3. QED
    BY <1>1, <1>2, <1>10, <2>1, <2>2 DEF StepDeclined, TypeInv, TypeOK, Dated, Phases, batchVars, Steps, Records
<1>11. CASE StepOverrun
  <2>1. run > 0 /\ pos \in DOMAIN plan /\ After(FALSE) /\ UNCHANGED <<content, stack, batchVars, record, said, others>>
    BY <1>3, <1>11 DEF StepOverrun, TypeInv, Phases
  <2>2. /\ pos' \in 1..(MaxSteps + 1) /\ failed' \in BOOLEAN /\ done' \subseteq Steps
        /\ pc' = "step" \/ (pc' = "report" /\ failed')
    BY <2>1, AfterFacts
  <2>3. /\ late' \in {"edit", "begin", "commit", "undo"} \X (1..MaxRuns) \X (0..MaxSteps)
        /\ late' = <<plan[pos], run, pos>>
    <3>1. plan[pos] \in {"edit", "begin", "commit", "undo"} /\ run \in 1..MaxRuns /\ pos \in 0..MaxSteps
      BY <1>1, <1>2, <2>1 DEF Steps
    <3>2. QED
      BY <1>11, <3>1 DEF StepOverrun
  <2>4. UNCHANGED cancelled /\ quar' = TRUE
    BY <1>11 DEF StepOverrun
  <2>5. TypeOK'
    BY <2>1, <2>2, <2>3, <2>4 DEF TypeInv, TypeOK, batchVars
  <2>6. Dated'
    BY <2>1, <2>3 DEF TypeInv, Dated, batchVars
  <2>7. Phases'
    BY <2>1, <2>2, <1>11 DEF StepOverrun, TypeInv, Phases, batchVars
  <2>8. QED
    BY <2>5, <2>6, <2>7 DEF TypeInv
<1>12. CASE LoopEnds
  BY <1>1, <1>2, <1>3, <1>4, <1>12 DEF LoopEnds, TypeInv, TypeOK, Dated, Phases, batchVars, Steps, Records, Edits
<1>13. CASE Report
  BY <1>1, <1>2, <1>3, <1>4, <1>13 DEF Report, TypeInv, TypeOK, Dated, Phases, batchVars, Steps, Records, Edits
<1>14. CASE CloseRefused
  BY <1>1, <1>2, <1>3, <1>4, <1>14 DEF CloseRefused, Raised, Over, TypeInv, TypeOK, Dated, Phases, batchVars, Steps, Records, Edits
<1>15. CASE CloseWithout
  BY <1>1, <1>2, <1>3, <1>4, <1>15 DEF CloseWithout, Over, Answered, TypeInv, TypeOK, Dated, Phases, batchVars, Steps, Records, Edits
<1>16. CASE Cancel
  <2>1. late' = late \/ (late' = <<plan[pos], run, pos>> /\ pos \in DOMAIN plan)
    BY <1>16 DEF Cancel, TypeInv, Phases
  <2>2. late' \in ({"edit", "begin", "commit", "undo"} \X (1..MaxRuns) \X (0..MaxSteps)) \cup {None}
    <3>1. CASE late' = late
      BY <3>1 DEF TypeInv, TypeOK
    <3>2. CASE late' = <<plan[pos], run, pos>> /\ pos \in DOMAIN plan
      <4>1. run \in 1..MaxRuns
        BY <1>1, <1>3, <1>16 DEF Cancel
      <4>2. pos \in 0..MaxSteps /\ plan[pos] \in {"edit", "begin", "commit", "undo"}
        BY <1>1, <1>2, <3>2, <4>1 DEF Steps
      <4>3. QED
        BY <3>2, <4>1, <4>2
    <3>3. QED
      BY <2>1, <3>1, <3>2
  <2>3. TypeOK'
    BY <1>1, <1>16, <2>2 DEF Cancel, Escapes, Over, Interrupted, TypeInv, TypeOK, Dated, Phases, batchVars, Steps, Records
  <2>4. Dated'
    BY <1>1, <1>16, <2>1 DEF Cancel, Escapes, Over, Interrupted, TypeInv, TypeOK, Dated, Phases, batchVars, Steps, Records
  <2>5. Phases'
    BY <1>1, <1>3, <1>16 DEF Cancel, Escapes, Over, Interrupted, TypeInv, TypeOK, Dated, Phases, batchVars, Steps, Records
  <2>6. QED
    BY <2>3, <2>4, <2>5 DEF TypeInv
<1>17. CASE CancelHeld
  BY <1>1, <1>2, <1>3, <1>4, <1>17 DEF CancelHeld, TypeInv, TypeOK, Dated, Phases, batchVars, Steps, Records, Edits
<1>18. CASE LateOverruns
  BY <1>1, <1>2, <1>3, <1>4, <1>18 DEF LateOverruns, TypeInv, TypeOK, Dated, Phases, batchVars, Steps, Records, Edits
<1>30. ASSUME NEW q \in Requests, NEW p \in Plans, Send(q, p) PROVE TypeInv'
  <2>1. mode' = Resolved(q, p) /\ mode' \in {"rollback", "stop", "continue"}
    BY <1>30, BatchAssumption DEF Send, Resolved
  <2>2. TypeOK'
    <3>1. run' \in 0..MaxRuns /\ pos' \in 1..(MaxSteps + 1)
      BY <1>1, <1>30 DEF Send
    <3>2. callers' \in Seq(SUBSET Edits) /\ content' \subseteq Edits
          /\ stack' \in Seq(SUBSET Edits) /\ Len(stack') <= MaxStack
      BY <1>30 DEF Send, TypeInv, TypeOK
    <3>3. /\ request' \in Requests \cup {None} /\ plan' \in Plans \cup {<<>>}
          /\ pc' \in {"idle", "probe", "open", "step", "working", "report", "close", "escape"}
          /\ {failed', cancelled', quar', said', overran'} \subseteq BOOLEAN /\ done' \subseteq Steps
          /\ record' \in Records
      BY <1>30 DEF Send, TypeInv, TypeOK, Records
    <3>4. QED
      BY <1>30, <2>1, <3>1, <3>2, <3>3 DEF Send, TypeInv, TypeOK
  <2>3. Dated'
    <3>1. run' = run + 1 /\ UNCHANGED <<content, stack, late>> /\ (run > 0 => plan' = plan)
      BY <1>30 DEF Send
    <3>2. (\A e \in content : e[1] \in Int) /\ \A i \in DOMAIN stack : \A e \in stack[i] : e[1] \in Int
      BY <1>1, <1>4 DEF Snapshots, Edits
    <3>3. late # None => late[2] \in Int /\ run > 0
      BY <1>1 DEF TypeInv, TypeOK, Phases
    <3>4. record # "unknown_commit" /\ said' = said
      BY <1>30 DEF Send
    <3>5. late' # None =>
            /\ late'[2] <= run'
            /\ \/ late'[3] \in DOMAIN plan' /\ late'[1] = plan'[late'[3]]
               \/ late'[3] = 0 /\ said' /\ late'[1] = "begin"
      BY <1>1, <3>1, <3>3, <3>4 DEF TypeInv, Dated
    <3>6. /\ \A e \in content' : e[1] <= run'
          /\ \A i \in DOMAIN stack' : \A e \in stack'[i] : e[1] <= run'
      BY <1>1, <3>1, <3>2 DEF TypeInv, Dated
    <3>7. QED
      BY <3>5, <3>6 DEF Dated
  <2>4. Phases'
    BY <1>1, <1>30, <2>1 DEF Send, TypeInv, TypeOK, Dated, Phases, batchVars, Steps, Records
  <2>5. QED
    BY <2>2, <2>3, <2>4 DEF TypeInv
<1>31. CASE OpenCheckpoint
  <2>1. /\ stack' \in Seq(Snapshots) /\ Len(stack') <= MaxStack
        /\ \A i \in DOMAIN stack' : stack'[i] = content \/ \E k \in DOMAIN stack : stack'[i] = stack[k]
    BY <1>4, <1>31, PushedFacts DEF OpenCheckpoint
  <2>2. TypeOK'
    BY <1>1, <1>31, <2>1 DEF OpenCheckpoint, Snapshots, TypeInv, TypeOK, Dated, Phases, batchVars, Steps, Records
  <2>3. Dated'
    BY <1>31, <2>1 DEF OpenCheckpoint, TypeInv, TypeOK, Dated, Phases, batchVars, Steps, Records
  <2>4. Phases'
    BY <1>1, <1>3, <1>31 DEF OpenCheckpoint, TypeInv, TypeOK, Dated, Phases, batchVars, Steps, Records
  <2>5. QED
    BY <2>2, <2>3, <2>4 DEF TypeInv
<1>32. CASE StepDone
  <2>1. run > 0 /\ pos \in DOMAIN plan
    BY <1>3, <1>32 DEF StepDone, TypeInv, Phases
  <2>2. PICK ok \in BOOLEAN : After(ok)
    BY <1>32 DEF StepDone
  <2>3. /\ pos' \in 1..(MaxSteps + 1) /\ failed' \in BOOLEAN /\ done' \subseteq Steps
        /\ pc' = "step" \/ (pc' = "report" /\ failed')
    BY <2>1, <2>2, AfterFacts
  <2>4. /\ plan[pos] \in {"edit", "begin", "commit", "undo"} /\ pos \in Steps /\ run \in 1..MaxRuns
        /\ run <= run /\ run \in Int /\ Effect(plan[pos], run, pos)
    BY <1>1, <1>2, <1>32, <2>1 DEF StepDone
  <2>5. /\ content' \in Snapshots /\ stack' \in Seq(Snapshots) /\ Len(stack') <= MaxStack
        /\ \A e \in content' : e[1] <= run
        /\ \A i \in DOMAIN stack' : \A e \in stack'[i] : e[1] <= run
    BY <2>4, EffectFacts DEF TypeInv, Dated
  <2>6. QED
    BY <1>1, <1>2, <1>32, <2>1, <2>3, <2>5 DEF StepDone, Snapshots, TypeInv, TypeOK, Dated, Phases, batchVars, Steps, Records
<1>33. CASE Close
  <2>1. PICK told \in BOOLEAN :
          /\ IF failed THEN RollBack(told)
             ELSE /\ stack' = IF stack = <<>> THEN stack ELSE SubSeq(stack, 1, DepthLeft(stack))
                  /\ told = (stack = <<>>)
                  /\ UNCHANGED content
          /\ Over(IF cancelled THEN "cancelled" ELSE Answered(failed /\ stack # <<>>), told)
    BY <1>33 DEF Close
  <2>2. /\ content' \in Snapshots /\ stack' \in Seq(Snapshots) /\ Len(stack') <= MaxStack
        /\ \A e \in content' : e[1] <= run
        /\ \A i \in DOMAIN stack' : \A e \in stack'[i] : e[1] <= run
    <3>1. CASE failed
      BY <2>1, <3>1, RollBackFacts
    <3>2. CASE ~failed /\ stack # <<>>
      BY <1>4, <2>1, <3>2, CommitFacts DEF TypeInv, Dated
    <3>3. CASE ~failed /\ stack = <<>>
      BY <1>4, <2>1, <3>3 DEF TypeInv, Dated
    <3>4. QED
      BY <3>1, <3>2, <3>3
  <2>3. said' \in BOOLEAN /\ pc' = "idle" /\ record' \in Records /\ (~said' => ~said)
    BY <2>1 DEF Over, Answered, Records, TypeInv, TypeOK
  <2>4. QED
    BY <1>1, <1>2, <1>3, <1>33, <2>2, <2>3 DEF Close, Snapshots, TypeInv, TypeOK, Dated, Phases, batchVars, Steps, Records
<1>34. CASE EscapeRollback
  BY <1>1, <1>2, <1>3, <1>34, RollBackFacts
     DEF EscapeRollback, Over, Snapshots, TypeInv, TypeOK, Dated, Phases, batchVars, Steps, Records
<1>38. CASE CloseOverrun
  <2> DEFINE undo == pc = "escape" \/ failed
  <2>1. PICK n \in DOMAIN stack :
          /\ n > DepthLeft(stack)
          /\ stack' = SubSeq(stack, 1, n)
          /\ content' = IF undo /\ n < Len(stack) THEN stack[n + 1] ELSE content
          /\ late' = <<IF undo THEN "undo" ELSE "commit", run, 0>>
    BY <1>38 DEF CloseOverrun
  <2>2. n \in 0..Len(stack) /\ (n < Len(stack) => n + 1 \in DOMAIN stack)
    BY <1>4
  <2>3. /\ stack' \in Seq(Snapshots) /\ Len(stack') = n /\ \A i \in 1..n : stack'[i] = stack[i]
    BY <1>4, <2>1, <2>2, PoppedFacts
  <2>4. content' \in Snapshots /\ \A e \in content' : e[1] <= run
    BY <1>4, <2>1, <2>2 DEF TypeInv, Dated
  <2>5. \A i \in DOMAIN stack' : \A e \in stack'[i] : e[1] <= run
    BY <1>4, <2>2, <2>3 DEF TypeInv, Dated
  <2>6. /\ run > 0 /\ pc' = "idle" /\ record' = "unknown_commit" /\ said' = TRUE /\ quar' = TRUE
        /\ UNCHANGED <<batchVars, pos, failed, done, cancelled, others>>
    BY <1>3, <1>38 DEF CloseOverrun, Over
  <2>7. late' \in {"edit", "begin", "commit", "undo"} \X (1..MaxRuns) \X (0..MaxSteps)
    <3>1. run \in 1..MaxRuns /\ 0 \in 0..MaxSteps
      BY <1>1, <2>6
    <3>2. QED
      BY <2>1, <3>1
  <2>8. TypeOK'
    BY <1>1, <2>2, <2>3, <2>4, <2>6, <2>7 DEF Snapshots, TypeInv, TypeOK, batchVars, Records
  <2>9. late'[1] \in {"undo", "commit"} /\ late'[2] = run /\ late'[3] = 0
    BY <2>1
  <2>10. Dated' /\ Phases'
    BY <1>1, <2>4, <2>5, <2>6, <2>9 DEF TypeInv, Dated, Phases, batchVars
  <2>11. QED
    BY <2>8, <2>10 DEF TypeInv
<1>35. CASE LateEnds
  <2>1. /\ late[1] \in {"edit", "begin", "commit", "undo"} /\ late[2] \in 1..MaxRuns /\ late[2] <= run
        /\ run > 0
    BY <1>1, <1>35 DEF LateEnds, TypeInv, TypeOK, Dated, Phases
  <2>5. late[1] = "edit" => late[3] \in Steps
    BY <1>2, <1>35, <2>1 DEF LateEnds, TypeInv, Dated
  <2>2. /\ content' \in Snapshots /\ stack' \in Seq(Snapshots) /\ Len(stack') <= MaxStack
        /\ \A e \in content' : e[1] <= run
        /\ \A i \in DOMAIN stack' : \A e \in stack'[i] : e[1] <= run
    <3>1. CASE UNCHANGED <<content, stack>>
      BY <1>4, <3>1 DEF TypeInv, TypeOK, Dated
    <3>2. CASE Effect(late[1], late[2], late[3])
      BY <1>1, <2>1, <2>5, <3>2, EffectFacts DEF TypeInv, Dated
    <3>3. QED
      BY <1>35, <3>1, <3>2 DEF LateEnds
  <2>3. pc # "working" /\ quar' \in BOOLEAN /\ late' = None
    BY <1>35 DEF LateEnds, TypeInv, TypeOK, Phases
  <2>4. QED
    BY <1>1, <1>35, <2>1, <2>2, <2>3 DEF LateEnds, Snapshots, TypeInv, TypeOK, Dated, Phases, batchVars, Steps, Records
<1>36. CASE OtherEdit
  BY <1>1, <1>36 DEF OtherEdit, TypeInv, TypeOK, Dated, Phases, batchVars, Steps, Records, Edits
<1>37. QED
  BY <1>5, <1>6, <1>7, <1>8, <1>9, <1>10, <1>11, <1>12, <1>13, <1>14, <1>15, <1>16, <1>17, <1>18, <1>30, <1>31, <1>32, <1>33, <1>34, <1>35, <1>36, <1>38, <1>39 DEF Next, Batch

-------------------------------------------------------------------------------
(* What a batch has drawn *)

EditsUpto(n) == {<<run, k>> : k \in {i \in DOMAIN plan : i < n /\ plan[i] = "edit"}}

\* Before the first step nothing is of this run.
Fresh ==
  pc \in {"probe", "open"} =>
    /\ pos = 1
    /\ \A e \in content : e[1] < run
    /\ \A i \in DOMAIN stack : \A e \in stack[i] : e[1] < run
    /\ late # None => late[2] < run

Loop == {"step", "working", "report", "close"}

\* While no step failed, the drawing holds the edits of the steps behind, and no
\* worker of this run was left but one that pushes a snapshot.
Drawn ==
  (~Undoes(plan) /\ ~failed /\ (pc \in Loop \/ (pc = "idle" /\ record = "committed"))) =>
    /\ Mine = EditsUpto(pos)
    /\ late # None => late[2] < run \/ late[1] = "begin"

\* A batch that is recorded as committed went through its plan.
Through == (pc = "idle" /\ record = "committed") => ~failed /\ pos \notin DOMAIN plan

DrawInv == Fresh /\ Drawn /\ Through

\* A step's edit, or none, is what comes to the batch's edits.
LEMMA MineGrows ==
  ASSUME TypeInv, NEW r, NEW n, content' \in {content, content \cup {<<r, n>>}}, run' = run
  PROVE  /\ r # run => Mine' = Mine
         /\ content' = content => Mine' = Mine
         /\ r = run /\ content' = content \cup {<<r, n>>} => Mine' = Mine \cup {<<run, n>>}
BY DEF Mine

\* The edits up to the next step.
LEMMA UptoGrows ==
  ASSUME pos \in DOMAIN plan, DOMAIN plan \subseteq Int, UNCHANGED <<plan, run>>, pos' = pos + 1
  PROVE  EditsUpto(pos)' = IF plan[pos] = "edit" THEN EditsUpto(pos) \cup {<<run, pos>>} ELSE EditsUpto(pos)
<1>1. \A i \in DOMAIN plan : i < pos + 1 <=> i < pos \/ i = pos
  OBVIOUS
<1>2. EditsUpto(pos)' = {<<run, k>> : k \in {i \in DOMAIN plan : i < pos + 1 /\ plan[i] = "edit"}}
  BY DEF EditsUpto
<1>3. QED
  BY <1>1, <1>2 DEF EditsUpto

\* What a batch has drawn is kept by every step.
LEMMA DrawKept ==
  ASSUME TypeInv, DrawInv, Next
  PROVE  DrawInv'
<1>1. run \in Nat /\ pos \in Nat \ {0} /\ run <= MaxRuns /\ MaxRuns \in Nat
  BY BatchAssumption DEF TypeInv, TypeOK
<1>2. run > 0 => DOMAIN plan \subseteq Steps /\ DOMAIN plan \subseteq Nat \ {0} /\ \A n \in DOMAIN plan : plan[n] \in Ops
  BY PlanFacts DEF TypeInv, Phases, Steps
<1>3. (pc # "idle" \/ record = "committed") => run > 0
  BY <1>1 DEF TypeInv, Phases
<1>4. (\A e \in content : e[1] \in Nat) /\ \A i \in DOMAIN stack : \A e \in stack[i] : e[1] \in Nat
  BY DEF TypeInv, TypeOK, Edits
<1>5. ASSUME NEW q \in Requests, NEW p \in Plans, Send(q, p) PROVE DrawInv'
  <2>1. /\ run' = run + 1 /\ pos' = 1 /\ UNCHANGED <<content, stack, late>> /\ pc' \in {"probe", "step"}
        /\ plan' = p /\ \A n \in DOMAIN p : n \in Nat \ {0}
    BY <1>5, PlanFacts DEF Send, Steps
  <2>2. /\ \A e \in content' : e[1] < run'
        /\ \A i \in DOMAIN stack' : \A e \in stack'[i] : e[1] < run'
        /\ late' # None => late'[2] < run'
    <3>1. late # None => late[2] \in Int
      BY DEF TypeInv, TypeOK
    <3>2. QED
      BY <1>1, <1>4, <2>1, <3>1 DEF TypeInv, Dated
  <2>3. Mine' = {} /\ EditsUpto(pos)' = {}
    <3>1. Mine' = {}
      BY <1>1, <1>4, <2>1, <2>2 DEF Mine
    <3>2. \A i \in DOMAIN plan' : ~(i < pos')
      BY <2>1
    <3>3. QED
      BY <3>1, <3>2 DEF EditsUpto
  <2>4. QED
    BY <2>1, <2>2, <2>3 DEF DrawInv, Fresh, Drawn, Through
<1>6. CASE OpenCheckpoint \/ OpenRefused \/ OpenOverrun
  <2>1. /\ pc = "open" /\ UNCHANGED <<content, run, plan, pos, failed>> /\ pos = 1
        /\ late' = late \/ late'[1] = "begin"
        /\ pc' \in {"step", "escape"}
           \/ (pc' = "idle" /\ record' \in {"quarantined", "failed", "cancelled", "unknown_commit"})
    BY <1>6 DEF OpenCheckpoint, OpenRefused, OpenOverrun, Raised, Over, batchVars, DrawInv, Fresh
  <2>2. Mine' = {} /\ EditsUpto(pos)' = {}
    <3>1. Mine' = {}
      BY <1>1, <1>4, <2>1 DEF Mine, DrawInv, Fresh
    <3>2. \A i \in DOMAIN plan' : ~(i < pos')
      BY <1>2, <1>3, <2>1
    <3>3. QED
      BY <3>1, <3>2 DEF EditsUpto
  <2>3. QED
    BY <2>1, <2>2 DEF DrawInv, Fresh, Drawn, Through
<1>7. CASE Probe \/ StepStart \/ LoopEnds \/ Report \/ CancelHeld \/ LateOverruns
  <2>1. UNCHANGED <<content, run, plan, pos, failed, late, record>> /\ (stack' = stack)
    BY <1>7 DEF Probe, StepStart, LoopEnds, Report, CancelHeld, LateOverruns, batchVars
  <2>2. (pc \in {"probe"} /\ pc' = "open") \/ (pc \in Loop /\ pc' \in Loop) \/ pc' = pc
    BY <1>7 DEF Probe, StepStart, LoopEnds, Report, CancelHeld, LateOverruns, Loop
  <2>3. Mine' = Mine /\ EditsUpto(pos)' = EditsUpto(pos)
    BY <2>1 DEF Mine, EditsUpto
  <2>4. QED
    BY <2>1, <2>2, <2>3 DEF DrawInv, Fresh, Drawn, Through, Loop
<1>8. CASE StepRefused \/ StepDeclined \/ StepOverrun \/ StepUnresolved
  <2>1. failed' /\ pc' \in {"step", "report"}
    BY <1>8 DEF StepRefused, StepDeclined, StepOverrun, StepUnresolved, After
  <2>2. QED
    BY <2>1 DEF DrawInv, Fresh, Drawn, Through
<1>9. CASE StepDone
  <2>1. /\ pc = "working" /\ pos \in DOMAIN plan /\ late = None /\ late' = late /\ UNCHANGED <<run, plan>>
        /\ Effect(plan[pos], run, pos) /\ pc' \in {"step", "report"} /\ pos' = pos + 1
    BY <1>9 DEF StepDone, After, TypeInv, Phases, batchVars
  <2>2. ASSUME ~Undoes(plan'), ~failed' PROVE Mine' = EditsUpto(pos)'
    <3>1. ~failed /\ ~Undoes(plan)
      BY <1>9, <2>1, <2>2 DEF StepDone, After
    <3>2. Mine = EditsUpto(pos)
      BY <2>1, <3>1 DEF DrawInv, Drawn, Loop
    <3>3. plan[pos] \in {"edit", "begin"}
      BY <1>2, <1>3, <2>1, <3>1, BatchAssumption DEF Undoes
    <3>4. EditsUpto(pos)' = IF plan[pos] = "edit" THEN EditsUpto(pos) \cup {<<run, pos>>} ELSE EditsUpto(pos)
      BY <1>2, <1>3, <2>1, UptoGrows
    <3>5. Mine' = IF plan[pos] = "edit" THEN Mine \cup {<<run, pos>>} ELSE Mine
      BY <2>1, <3>3, MineGrows DEF Effect
    <3>6. QED
      BY <3>2, <3>4, <3>5
  <2>3. QED
    BY <2>1, <2>2 DEF DrawInv, Fresh, Drawn, Through
<1>10. CASE Close
  <2>1. /\ pc = "close" /\ pc' = "idle" /\ UNCHANGED <<run, plan, pos, failed, late>>
        /\ ~failed => content' = content
        /\ record' = "committed" => ~failed
    BY <1>10 DEF Close, Over, Answered, batchVars
  <2>2. ASSUME ~failed PROVE Mine' = Mine /\ EditsUpto(pos)' = EditsUpto(pos)
    BY <2>1, <2>2 DEF Mine, EditsUpto
  <2>3. QED
    BY <2>1, <2>2 DEF DrawInv, Fresh, Drawn, Through, Loop, TypeInv, Phases
<1>11. CASE CloseWithout
  <2>1. /\ pc = "close" /\ pc' = "idle" /\ UNCHANGED <<run, plan, pos, failed, late, content>>
        /\ record' = "committed" => ~failed
    BY <1>11 DEF CloseWithout, Over, Answered, batchVars
  <2>2. Mine' = Mine /\ EditsUpto(pos)' = EditsUpto(pos)
    BY <2>1 DEF Mine, EditsUpto
  <2>3. QED
    BY <2>1, <2>2 DEF DrawInv, Fresh, Drawn, Through, Loop, TypeInv, Phases
<1>12. CASE CloseRefused \/ CloseOverrun \/ EscapeRollback \/ Cancel
  <2>1. pc' = "escape" \/ (pc' = "idle" /\ record' \in {"quarantined", "cancelled", "unknown_commit"})
    BY <1>12 DEF CloseRefused, CloseOverrun, EscapeRollback, Cancel, Raised, Over, Escapes, Interrupted
  <2>2. QED
    BY <2>1 DEF DrawInv, Fresh, Drawn, Through, Loop
<1>13. CASE LateEnds
  <2>1. /\ late # None /\ late' = None /\ UNCHANGED <<run, plan, pos, failed, record, pc>>
        /\ late[1] \in {"edit", "begin", "commit", "undo"} /\ late[2] \in 1..MaxRuns
        /\ late[1] = "edit" => late[3] \in Steps
    <3>1. /\ late # None /\ late' = None /\ UNCHANGED <<run, plan, pos, failed, record, pc>>
          /\ late[1] \in {"edit", "begin", "commit", "undo"} /\ late[2] \in 1..MaxRuns
      BY <1>13 DEF LateEnds, batchVars, TypeInv, TypeOK
    <3>2. run > 0 /\ DOMAIN plan \subseteq Steps
      BY <1>1, <1>2, <3>1 DEF TypeInv, Dated
    <3>3. QED
      BY <3>1, <3>2 DEF TypeInv, Dated
  <2>7. \/ late[3] \in DOMAIN plan /\ late[1] = plan[late[3]]
        \/ late[1] = "begin" \/ record = "unknown_commit"
    BY <2>1 DEF TypeInv, Dated
  <2>2. Effect(late[1], late[2], late[3]) \/ UNCHANGED <<content, stack>>
    BY <1>13 DEF LateEnds
  <2>3. ASSUME pc \in {"probe", "open"}
        PROVE  /\ \A e \in content' : e[1] < run
               /\ \A i \in DOMAIN stack' : \A e \in stack'[i] : e[1] < run
    <3> DEFINE b == run - 1
    <3>1. /\ \A e \in content : e[1] <= b
          /\ \A i \in DOMAIN stack : \A e \in stack[i] : e[1] <= b
          /\ late[2] <= b /\ b \in Int
      BY <1>1, <1>4, <2>1, <2>3 DEF DrawInv, Fresh
    <3>2. CASE UNCHANGED <<content, stack>>
      BY <2>3, <3>2 DEF DrawInv, Fresh
    <3> HIDE DEF b
    <3>3. CASE Effect(late[1], late[2], late[3])
      <4>1. /\ \A e \in content' : e[1] <= b
            /\ \A i \in DOMAIN stack' : \A e \in stack'[i] : e[1] <= b
            /\ content' \in Snapshots /\ stack' \in Seq(Snapshots)
        BY <2>1, <3>1, <3>3, EffectFacts
      <4>2. /\ \A e \in content' : e[1] \in Nat
            /\ \A i \in DOMAIN stack' : \A e \in stack'[i] : e[1] \in Nat
        BY <4>1 DEF Snapshots, Edits
      <4>3. QED
        BY <1>1, <4>1, <4>2 DEF b
    <3>4. QED
      BY <2>2, <3>2, <3>3
  <2>4. ASSUME ~Undoes(plan), late[2] < run \/ late[1] = "begin", record # "unknown_commit"
        PROVE  Mine' = Mine
    <3>1. late[1] \in {"edit", "begin"}
      BY <2>1, <2>4, <2>7 DEF Undoes
    <3>2. CASE late[1] = "begin"
      <4>1. content' = content
        BY <2>2, <3>2 DEF Effect
      <4>2. QED
        BY <2>1, <4>1 DEF Mine
    <3>3. CASE late[1] = "edit"
      <4>1. late[2] # run
        BY <1>1, <2>1, <2>4, <3>3
      <4>2. content' \in {content, content \cup {<<late[2], late[3]>>}}
        BY <2>2, <3>3 DEF Effect
      <4>3. QED
        BY <2>1, <4>1, <4>2, MineGrows
    <3>4. QED
      BY <3>1, <3>2, <3>3
  <2>5. EditsUpto(pos)' = EditsUpto(pos)
    BY <2>1 DEF EditsUpto
  <2>6. pc \in Loop \/ (pc = "idle" /\ record = "committed") => record # "unknown_commit"
    BY DEF Loop, TypeInv, Phases
  <2>8. QED
    BY <2>1, <2>3, <2>4, <2>5, <2>6 DEF DrawInv, Fresh, Drawn, Through
<1>14. CASE OtherEdit
  <2>1. /\ UNCHANGED <<run, plan, pos, failed, record, pc, late, stack>>
        /\ content' = content \cup {<<0, others + 1>>}
    BY <1>14 DEF OtherEdit, batchVars
  <2>2. run > 0 => Mine' = Mine
    BY <1>1, <2>1, MineGrows
  <2>3. EditsUpto(pos)' = EditsUpto(pos)
    BY <2>1 DEF EditsUpto
  <2>4. QED
    BY <1>1, <1>3, <2>1, <2>2, <2>3 DEF DrawInv, Fresh, Drawn, Through, Loop
<1>15. QED
  BY <1>5, <1>6, <1>7, <1>8, <1>9, <1>10, <1>11, <1>12, <1>13, <1>14 DEF Next, Batch

-------------------------------------------------------------------------------
(* The checkpoint of a batch *)

\* The stack holds the caller's snapshot, the batch's and one of each step.
Deep == MaxStack >= MaxSteps + 2

\* A run in rollback mode, while no run said that its checkpoint did not hold.
Guarded == run > 0 /\ mode = "rollback" /\ ~said /\ ~Undoes(plan)

\* Before the checkpoint is open, and after it is closed, the stack is the caller's,
\* nothing of the batch runs, and the drawing holds all of it or nothing.
Unopened ==
  (Guarded /\ pc \in {"idle", "probe", "open"}) =>
    stack = callers /\ late = None /\ ~quar /\ (pc = "idle" => Mine \in {{}, Wanted})

\* In between, the batch's snapshot is just above the caller's and holds nothing of it.
Opened ==
  (Guarded /\ pc \in Loop \cup {"escape"}) =>
    /\ base = Len(callers)
    /\ Len(stack) > Len(callers)
    /\ \A i \in DOMAIN callers : stack[i] = callers[i]
    /\ \A e \in stack[Len(callers) + 1] : e[1] < run

\* Each step, and the worker that was left, may have opened one more.
Due == IF late = None THEN 0 ELSE 1

Roomy ==
  Guarded =>
    /\ Len(callers) <= 1
    /\ pc = "open" => base = Len(callers)
    /\ pc \in Loop => Len(stack) + Due <= base + pos
    /\ pc = "step" => late = None /\ ~quar
    /\ pc = "escape" => Len(stack) + Due <= base + pos + 1
    /\ pc = "escape" /\ late # None => pos \in DOMAIN plan

GuardInv == Unopened /\ Opened /\ Roomy

\* A batch that is guarded after a step was so before, unless it has just been sent.
LEMMA GuardedBefore ==
  ASSUME TypeInv, run > 0, run' = run, plan' = plan, mode' \in {mode, "stop"}, said => said', Guarded'
  PROVE  Guarded /\ mode' = mode
BY DEF Guarded, TypeInv, TypeOK

\* Rolling back, or a commit of all above it, brings back the caller's stack.
LEMMA Unwound ==
  ASSUME TypeInv, base = Len(callers), Len(stack) > Len(callers),
         \A i \in DOMAIN callers : stack[i] = callers[i]
  PROVE  DepthLeft(stack) = Len(callers) /\ SubSeq(stack, 1, DepthLeft(stack)) = callers
<1>1. stack \in Seq(Snapshots) /\ callers \in Seq(Snapshots) /\ Len(stack) \in Nat /\ Len(callers) \in Nat
  BY DEF TypeInv, TypeOK, Snapshots
<1>2. DepthLeft(stack) = Len(callers)
  BY <1>1 DEF DepthLeft
<1>3. Len(callers) \in 0..Len(stack)
  BY <1>1
<1>4. /\ SubSeq(stack, 1, Len(callers)) \in Seq(Snapshots)
      /\ Len(SubSeq(stack, 1, Len(callers))) = Len(callers)
      /\ \A i \in 1..Len(callers) : SubSeq(stack, 1, Len(callers))[i] = stack[i]
  BY <1>1, <1>3, PoppedFacts
<1>5. SubSeq(stack, 1, Len(callers)) = callers
  <2> DEFINE cut == SubSeq(stack, 1, Len(callers))
  <2>1. cut \in Seq(Snapshots) /\ Len(cut) = Len(callers) /\ \A i \in 1..Len(callers) : cut[i] = callers[i]
    BY <1>1, <1>4
  <2> HIDE DEF cut
  <2>2. cut = callers
    BY <1>1, <2>1, SeqEqual
  <2>3. QED
    BY <2>2 DEF cut
<1>6. QED
  BY <1>2, <1>5

\* A step that commits and undoes nothing leaves what is on the stack.
LEMMA StackGrows ==
  ASSUME TypeInv, Len(stack) < MaxStack, NEW op \in {"edit", "begin"}, NEW r, NEW n, Effect(op, r, n)
  PROVE  /\ stack' \in Seq(Snapshots) /\ Len(stack') \in {Len(stack), Len(stack) + 1}
         /\ \A i \in 1..Len(stack) : stack'[i] = stack[i]
<1>1. stack \in Seq(Snapshots) /\ content \in Snapshots
  BY DEF TypeInv, TypeOK, Snapshots
<1>2. stack' = stack \/ stack' = Pushed(stack, content)
  BY DEF Effect
<1>3. QED
  BY <1>1, <1>2, PushedRoom

\* The checkpoint is kept by every step.
LEMMA GuardKept ==
  ASSUME TypeInv, DrawInv, GuardInv, ~Progress, Deep, Next
  PROVE  GuardInv'
<1>1. /\ run \in Nat /\ pos \in 1..(MaxSteps + 1) /\ MaxSteps \in Nat /\ MaxStack \in Nat
      /\ base \in Nat /\ Due \in {0, 1} /\ Due' \in {0, 1} /\ MaxStack >= MaxSteps + 2
  BY BatchAssumption DEF TypeInv, TypeOK, Due, Deep
<1>2. /\ stack \in Seq(Snapshots) /\ content \in Snapshots /\ callers \in Seq(Snapshots)
      /\ Len(stack) \in Nat /\ Len(callers) \in Nat
  BY DEF TypeInv, TypeOK, Snapshots
<1>3. run > 0 => DOMAIN plan \subseteq Steps
  BY PlanFacts DEF TypeInv, Phases
<1>4. pc # "idle" => run > 0
  BY <1>1 DEF TypeInv, Phases
<1>5. ASSUME NEW q \in Requests, NEW p \in Plans, Send(q, p) PROVE GuardInv'
  <2> SUFFICES ASSUME Guarded' PROVE GuardInv'
    BY DEF GuardInv, Unopened, Opened, Roomy
  <2>1. /\ pc = "idle" /\ run' = run + 1 /\ callers' = stack /\ UNCHANGED <<stack, late, quar, said>>
        /\ mode' = Resolved(q, p) /\ pc' = "probe" /\ plan' = p
        /\ run > 0 => q = request /\ p = plan
    BY <1>5 DEF Send, Guarded
  <2>2. ~said /\ mode' = "rollback" /\ ~Undoes(p)
    BY <2>1 DEF Guarded, Undoes
  <2>3. Len(stack) <= 1 /\ late = None /\ ~quar
    <3>1. CASE run = 0
      BY <3>1 DEF TypeInv, Phases
    <3>2. CASE run > 0
      BY <2>1, <2>2, <3>2 DEF TypeInv, Phases, Guarded, GuardInv, Unopened, Roomy
    <3>3. QED
      BY <1>1, <3>1, <3>2
  <2>4. QED
    BY <2>1, <2>3 DEF GuardInv, Unopened, Opened, Roomy, Loop
<1>6. ASSUME Next, ~(\E q \in Requests, p \in Plans : Send(q, p))
      PROVE  UNCHANGED <<run, plan, callers>> /\ mode' \in {mode, "stop"} /\ (said => said')
  <2>1. CASE OpenRefused \/ OpenOverrun
    BY <2>1 DEF OpenRefused, OpenOverrun, Raised, Over
  <2>2. CASE CloseRefused \/ CloseOverrun \/ CloseWithout \/ EscapeRollback \/ Cancel
    BY <2>2 DEF CloseRefused, CloseOverrun, CloseWithout, EscapeRollback, Cancel, Raised, Over, Escapes, batchVars
  <2>3. CASE Close
    BY <2>3 DEF Close, Over, batchVars
  <2>4. CASE Probe \/ OpenCheckpoint \/ StepStart \/ StepUnresolved \/ LoopEnds \/ Report \/ CancelHeld
    BY <2>4 DEF Probe, OpenCheckpoint, StepStart, StepUnresolved, LoopEnds, Report, CancelHeld, batchVars
  <2>5. CASE StepRefused \/ StepDeclined \/ StepDone \/ StepOverrun
    <3>1. UNCHANGED <<batchVars, said>>
      BY <2>5 DEF StepRefused, StepDeclined, StepDone, StepOverrun
    <3>2. QED
      BY <3>1 DEF batchVars
  <2>6. CASE LateEnds \/ LateOverruns \/ OtherEdit
    <3>1. UNCHANGED <<batchVars, said>>
      BY <2>6 DEF LateEnds, LateOverruns, OtherEdit
    <3>2. QED
      BY <3>1 DEF batchVars
  <2>7. QED
    BY <1>6, <2>1, <2>2, <2>3, <2>4, <2>5, <2>6 DEF Next, Batch
<1>7. ASSUME ~(\E q \in Requests, p \in Plans : Send(q, p)) PROVE GuardInv'
  <2> SUFFICES ASSUME Guarded' PROVE GuardInv'
    BY DEF GuardInv, Unopened, Opened, Roomy
  <2>1. UNCHANGED <<run, plan, callers, mode>> /\ Guarded /\ run > 0
    <3>1. UNCHANGED <<run, plan, callers>> /\ mode' \in {mode, "stop"} /\ (said => said')
      BY <1>6, <1>7
    <3>2. run > 0
      BY <3>1 DEF Guarded
    <3>3. QED
      BY <3>1, <3>2, GuardedBefore
  <2>2. ~said' /\ mode = "rollback" /\ ~Undoes(plan) /\ Len(callers) <= 1
    BY <2>1 DEF Guarded, GuardInv, Roomy
  <2>3. CASE Probe
    BY <2>1, <2>2, <2>3 DEF Probe, GuardInv, Unopened, Opened, Roomy, Loop
  <2>4. CASE OpenCheckpoint
    <3>1. /\ pc = "open" /\ pos = 1 /\ late = None /\ ~quar /\ stack = callers /\ base = Len(callers)
          /\ \A e \in content : e[1] < run
      BY <2>1, <2>4 DEF OpenCheckpoint, GuardInv, Unopened, Roomy, DrawInv, Fresh
    <3>2. /\ stack' \in Seq(Snapshots) /\ Len(stack') = Len(stack) + 1 /\ stack'[Len(stack) + 1] = content
          /\ \A i \in 1..Len(stack) : stack'[i] = stack[i]
      <4>1. Len(stack) < MaxStack
        BY <1>1, <1>2, <2>2, <3>1
      <4>2. stack' = Pushed(stack, content)
        BY <2>4 DEF OpenCheckpoint
      <4>3. QED
        BY <1>2, <4>1, <4>2, PushedRoom
    <3>3. /\ pc' \in {"escape", "step"} /\ UNCHANGED <<late, quar, base, pos>> /\ Due' = 0
      BY <2>4, <3>1 DEF OpenCheckpoint, batchVars, Due
    <3>4. QED
      BY <1>1, <1>2, <2>1, <2>2, <3>1, <3>2, <3>3 DEF GuardInv, Unopened, Opened, Roomy, Loop
  <2>5. CASE OpenRefused \/ OpenOverrun
    <3>1. CASE OpenOverrun
      BY <2>2, <3>1 DEF OpenOverrun, Over
    <3>2. CASE OpenRefused
      <4>1. UNCHANGED <<content, stack, late, quar>> /\ pc = "open" /\ (pc' = "idle" \/ mode' = "stop")
        BY <3>2 DEF OpenRefused, Raised, Over
      <4>2. Mine' = {}
        BY <1>1, <1>2, <2>1, <4>1 DEF Mine, DrawInv, Fresh, Snapshots, Edits
      <4>3. QED
        BY <2>1, <2>2, <4>1, <4>2 DEF GuardInv, Unopened, Opened, Roomy, Loop
    <3>3. QED
      BY <2>5, <3>1, <3>2
  <2>6. CASE StepStart \/ LoopEnds \/ Report \/ CancelHeld
    <3>1. UNCHANGED <<content, stack, base, late, quar, pos>>
      BY <2>6 DEF StepStart, LoopEnds, Report, CancelHeld, batchVars
    <3>2. (pc \in Loop /\ pc' \in {"working", "report", "close"}) \/ (pc' = pc /\ pc # "idle")
      BY <2>6 DEF StepStart, LoopEnds, Report, CancelHeld, Loop
    <3>3. Due' = Due
      BY <3>1 DEF Due
    <3>4. QED
      BY <2>1, <3>1, <3>2, <3>3 DEF GuardInv, Unopened, Opened, Roomy, Loop
  <2>7. CASE StepUnresolved
    <3>1. /\ UNCHANGED <<content, stack, base, late, quar, pc>> /\ pc = "step" /\ pos' = pos + 1
      BY <2>7 DEF StepUnresolved, batchVars
    <3>2. Due' = Due
      BY <3>1 DEF Due
    <3>3. QED
      BY <1>1, <1>2, <2>1, <3>1, <3>2 DEF GuardInv, Unopened, Opened, Roomy, Loop
  <2>8. CASE StepRefused
    BY <2>1, <2>8 DEF StepRefused, GuardInv, Roomy
  <2>9. CASE StepDeclined \/ StepOverrun
    <3>1. /\ UNCHANGED <<content, stack, base>> /\ pc = "working" /\ pc' = "report" /\ pos' = pos + 1
      BY <2>2, <2>9 DEF StepDeclined, StepOverrun, After, batchVars
    <3>2. Due = 0
      BY <3>1 DEF Due, TypeInv, Phases
    <3>3. QED
      BY <1>1, <1>2, <2>1, <3>1, <3>2 DEF GuardInv, Unopened, Opened, Roomy, Loop
  <2>10. CASE StepDone
    <3>1. /\ UNCHANGED <<base, late, quar>> /\ pc = "working" /\ pc' \in {"step", "report"} /\ pos' = pos + 1
          /\ late = None /\ ~quar /\ pos \in DOMAIN plan
      BY <2>10 DEF StepDone, After, batchVars, TypeInv, Phases
    <3>2. Due = 0 /\ Due' = 0
      BY <3>1 DEF Due
    <3>3. plan[pos] \in {"edit", "begin"}
      BY <2>1, <2>2, <3>1, BatchAssumption, PlanFacts DEF Undoes, TypeInv, Phases
    <3>4. Len(stack) <= base + pos /\ base = Len(callers) /\ Len(stack) > Len(callers) /\ pos <= MaxSteps
      BY <1>1, <1>2, <1>3, <2>1, <3>1, <3>2 DEF GuardInv, Opened, Roomy, Loop, Steps
    <3>5. /\ stack' \in Seq(Snapshots) /\ Len(stack') \in {Len(stack), Len(stack) + 1}
          /\ \A i \in 1..Len(stack) : stack'[i] = stack[i]
      <4>1. Len(stack) < MaxStack
        BY <1>1, <1>2, <2>2, <3>4
      <4>2. Effect(plan[pos], run, pos)
        BY <2>10 DEF StepDone
      <4>3. QED
        BY <3>3, <4>1, <4>2, StackGrows
    <3>6. Opened'
      <4>1. /\ \A i \in DOMAIN callers : stack[i] = callers[i]
            /\ \A e \in stack[Len(callers) + 1] : e[1] < run
        BY <2>1, <3>1 DEF GuardInv, Opened, Loop
      <4>2. /\ Len(callers) + 1 \in 1..Len(stack) /\ Len(stack') > Len(callers)
            /\ \A i \in DOMAIN callers : i \in 1..Len(stack)
        BY <1>2, <3>4, <3>5
      <4>3. QED
        BY <2>1, <3>1, <3>4, <3>5, <4>1, <4>2 DEF Opened
    <3>7. QED
      BY <1>1, <1>2, <2>1, <2>2, <3>1, <3>2, <3>4, <3>5, <3>6 DEF GuardInv, Unopened, Roomy, Loop
  <2>11. CASE Close \/ EscapeRollback
    <3>1. /\ pc \in {"close", "escape"} /\ late = None /\ ~quar /\ UNCHANGED <<late, quar>> /\ pc' = "idle"
      BY <2>2, <2>11 DEF Close, EscapeRollback, Served, Over, batchVars
    <3>2. /\ base = Len(callers) /\ Len(stack) > Len(callers)
          /\ \A i \in DOMAIN callers : stack[i] = callers[i]
          /\ \A e \in stack[Len(callers) + 1] : e[1] < run
      BY <2>1, <3>1 DEF GuardInv, Opened, Loop
    <3>3. DepthLeft(stack) = Len(callers) /\ SubSeq(stack, 1, DepthLeft(stack)) = callers /\ stack # <<>>
      BY <1>2, <3>2, Unwound
    <3>4. CASE \E told \in BOOLEAN : RollBack(told)
      <4>1. stack' = callers /\ content' = stack[Len(callers) + 1]
        BY <3>3, <3>4 DEF RollBack, Reached
      <4>2. Mine' = {}
        <5>1. Len(callers) + 1 \in DOMAIN stack
          BY <1>2, <3>2
        <5>2. \A e \in content' : e[1] < run /\ e[1] \in Nat
          BY <1>2, <3>2, <4>1, <5>1 DEF Snapshots, Edits
        <5>3. QED
          BY <1>1, <2>1, <5>2 DEF Mine
      <4>3. QED
        BY <2>1, <2>2, <3>1, <4>1, <4>2 DEF GuardInv, Unopened, Opened, Roomy, Loop
    <3>5. CASE pc = "close" /\ ~failed /\ content' = content /\ stack' = SubSeq(stack, 1, DepthLeft(stack))
      <4>1. Mine = EditsUpto(pos) /\ pos \notin DOMAIN plan
        BY <2>2, <3>5 DEF DrawInv, Drawn, Loop, TypeInv, Phases
      <4>2. EditsUpto(pos) = Wanted
        <5>1. PICK n \in Steps : DOMAIN plan = 1..n
          BY <2>1 DEF TypeInv, Phases, Plans
        <5>2. \A i \in DOMAIN plan : i < pos
          BY <1>1, <4>1, <5>1 DEF Steps
        <5>3. QED
          BY <5>2 DEF EditsUpto, Wanted
      <4>3. Mine' = Wanted'
        BY <2>1, <3>5, <4>1, <4>2 DEF Mine, Wanted
      <4>4. QED
        BY <2>1, <2>2, <3>1, <3>3, <3>5, <4>3 DEF GuardInv, Unopened, Opened, Roomy, Loop
    <3>6. QED
      BY <2>11, <3>1, <3>3, <3>4, <3>5 DEF Close, EscapeRollback
  <2>12. CASE CloseRefused \/ CloseOverrun \/ CloseWithout
    BY <2>2, <2>12 DEF CloseRefused, CloseOverrun, CloseWithout, Raised, Over
  <2>13. CASE Cancel
    <3>1. UNCHANGED <<content, stack, base, pos, quar>> /\ late' \in {late, <<plan[pos], run, pos>>}
      BY <2>13 DEF Cancel, batchVars
    <3>2. CASE pc = "probe"
      <4>1. late' = late /\ pc' = "idle"
        BY <2>13, <3>2 DEF Cancel, Escapes, Over
      <4>2. Mine' = {}
        BY <1>1, <1>2, <2>1, <3>1, <3>2 DEF Mine, DrawInv, Fresh, Snapshots, Edits
      <4>3. QED
        BY <2>1, <2>2, <3>1, <3>2, <4>1, <4>2 DEF GuardInv, Unopened, Opened, Roomy, Loop
    <3>3. CASE pc = "step"
      <4>1. late' = late /\ pc' = "escape" /\ Due' = Due /\ late = None
        BY <2>1, <2>2, <2>13, <3>3 DEF Cancel, Escapes, Due, GuardInv, Roomy
      <4>2. QED
        BY <1>1, <1>2, <2>1, <2>2, <3>1, <3>3, <4>1 DEF GuardInv, Unopened, Opened, Roomy, Loop
    <3>4. CASE pc = "working"
      <4>1. pc' = "escape" /\ Due = 0 /\ pos \in DOMAIN plan
        BY <2>2, <2>13, <3>4 DEF Cancel, Escapes, Due, TypeInv, Phases
      <4>2. QED
        BY <1>1, <1>2, <2>1, <2>2, <3>1, <3>4, <4>1 DEF GuardInv, Unopened, Opened, Roomy, Loop
    <3>5. QED
      BY <2>13, <3>2, <3>3, <3>4 DEF Cancel
  <2>14. CASE LateEnds
    <3>1. /\ late # None /\ late' = None /\ UNCHANGED <<base, pos, pc>>
          /\ late[3] \in DOMAIN plan /\ late[1] = plan[late[3]]
          /\ late[1] \in {"edit", "begin", "commit", "undo"}
      BY <2>1, <2>14 DEF LateEnds, Guarded, batchVars, TypeInv, TypeOK, Dated
    <3>2. Due = 1 /\ Due' = 0
      BY <3>1 DEF Due
    <3>3. pc \in {"report", "close", "escape"}
      BY <2>1, <3>1 DEF GuardInv, Unopened, Roomy, TypeInv, TypeOK, Phases
    <3>4. Len(stack) < MaxStack /\ Len(stack) > Len(callers) /\ base = Len(callers)
      <4>1. Len(stack) > Len(callers) /\ base = Len(callers)
        BY <2>1, <3>3 DEF GuardInv, Opened, Loop
      <4>2. CASE pc = "escape"
        <5>1. Len(stack) + 1 <= base + pos + 1 /\ pos \in Steps
          BY <1>3, <2>1, <3>1, <3>2, <4>2 DEF GuardInv, Roomy
        <5>2. QED
          BY <1>1, <1>2, <2>2, <4>1, <5>1 DEF Steps
      <4>3. CASE pc \in {"report", "close"}
        <5>1. Len(stack) + 1 <= base + pos
          BY <2>1, <3>2, <4>3 DEF GuardInv, Roomy, Loop
        <5>2. QED
          BY <1>1, <1>2, <2>2, <4>1, <5>1
      <4>4. QED
        BY <3>3, <4>2, <4>3
    <3>5. /\ stack' \in Seq(Snapshots) /\ Len(stack') \in {Len(stack), Len(stack) + 1}
          /\ \A i \in 1..Len(stack) : stack'[i] = stack[i]
      <4>1. late[1] \in {"edit", "begin"}
        BY <2>2, <3>1, BatchAssumption DEF Undoes
      <4>2. Effect(late[1], late[2], late[3]) \/ stack' = stack
        BY <2>14 DEF LateEnds
      <4>3. QED
        BY <1>2, <3>4, <4>1, <4>2, StackGrows
    <3>6. Opened'
      <4>1. /\ \A i \in DOMAIN callers : stack[i] = callers[i]
            /\ \A e \in stack[Len(callers) + 1] : e[1] < run
        BY <2>1, <3>3 DEF GuardInv, Opened, Loop
      <4>2. /\ Len(callers) + 1 \in 1..Len(stack) /\ Len(stack') > Len(callers)
            /\ \A i \in DOMAIN callers : i \in 1..Len(stack)
        BY <1>2, <3>4, <3>5
      <4>3. QED
        BY <2>1, <3>1, <3>4, <3>5, <4>1, <4>2 DEF Opened
    <3>7. QED
      BY <1>1, <1>2, <2>1, <3>1, <3>2, <3>3, <3>4, <3>5, <3>6 DEF GuardInv, Unopened, Roomy, Loop
  <2>15. CASE LateOverruns
    <3>1. late # None /\ UNCHANGED <<content, stack, base, late, pos, pc>>
      BY <2>15 DEF LateOverruns, batchVars
    <3>2. Due' = Due
      BY <3>1 DEF Due
    <3>3. QED
      BY <2>1, <3>1, <3>2 DEF GuardInv, Unopened, Opened, Roomy
  <2>16. CASE OtherEdit
    <3>1. UNCHANGED <<stack, base, late, quar, pos, pc>> /\ content' = content \cup {<<0, others + 1>>}
      BY <2>16 DEF OtherEdit, batchVars
    <3>2. Mine' = Mine
      <4>1. run # 0 /\ run' = run
        BY <1>1, <2>1
      <4>2. QED
        BY <3>1, <4>1 DEF Mine
    <3>3. Wanted' = Wanted /\ Due' = Due
      BY <2>1, <3>1 DEF Wanted, Due
    <3>4. QED
      BY <2>1, <3>1, <3>2, <3>3 DEF GuardInv, Unopened, Opened, Roomy
  <2>17. QED
    BY <1>7, <2>3, <2>4, <2>5, <2>6, <2>7, <2>8, <2>9, <2>10, <2>11, <2>12, <2>13, <2>14, <2>15, <2>16
       DEF Next, Batch
<1>8. QED
  BY <1>5, <1>7

-------------------------------------------------------------------------------
(* Theorems *)

\* The inductive invariant of the types and of what is drawn.
LEMMA BatchInvariant == Spec => [](TypeInv /\ DrawInv)
<1>1. Init => TypeInv /\ DrawInv
  <2> SUFFICES ASSUME Init PROVE TypeInv /\ DrawInv
    OBVIOUS
  <2>1. <<0, 0>> \in Edits
    BY BatchAssumption DEF Edits
  <2>2. stack \in Seq(SUBSET Edits) /\ Len(stack) \in {0, 1} /\ \A i \in DOMAIN stack : stack[i] = {}
    <3>1. CASE stack = <<>>
      BY <3>1
    <3>2. CASE stack = << {} >>
      <4>1. stack \in Seq(SUBSET Edits) /\ Len(stack) = 1 /\ stack[1] = {}
        BY <3>2
      <4>2. QED
        BY <4>1
    <3>3. QED
      BY <3>1, <3>2 DEF Init
  <2>3. TypeOK
    <3>1. /\ run \in 0..MaxRuns /\ pos \in 1..(MaxSteps + 1) /\ base \in 0..MaxStack /\ others \in 0..MaxOthers
          /\ Len(stack) <= MaxStack
      BY <2>2, BatchAssumption DEF Init
    <3>2. callers \in Seq(SUBSET Edits) /\ content \subseteq Edits
      BY <2>1 DEF Init
    <3>3. {failed, cancelled, quar, said, overran} \subseteq BOOLEAN /\ done \subseteq Steps /\ plan \in Plans \cup {<<>>}
      BY DEF Init
    <3>4. QED
      BY <2>2, <3>1, <3>2, <3>3 DEF Init, TypeOK, Records
  <2>4. Dated /\ Phases
    BY <2>2 DEF Init, Dated, Phases
  <2>5. QED
    BY <2>3, <2>4 DEF Init, TypeInv, DrawInv, Fresh, Drawn, Through, Loop
<1>2. TypeInv /\ DrawInv /\ [Next]_vars => (TypeInv /\ DrawInv)'
  <2> SUFFICES ASSUME TypeInv, DrawInv, [Next]_vars PROVE (TypeInv /\ DrawInv)'
    OBVIOUS
  <2>1. CASE UNCHANGED vars
    BY <2>1 DEF vars, batchVars, TypeInv, TypeOK, Dated, Phases, DrawInv, Fresh, Drawn, Through, Mine, EditsUpto
  <2>2. CASE Next
    BY <2>2, TypeKept, DrawKept
  <2>3. QED
    BY <2>1, <2>2
<1>3. QED
  BY <1>1, <1>2, PTL DEF Spec

\* The variables have their types, whatever the constants.
THEOREM TypeCorrect == Spec => []TypeOK
<1>1. TypeInv => TypeOK
  BY DEF TypeInv
<1>2. QED
  BY <1>1, BatchInvariant, PTL

\* A batch recorded as committed did all of its steps' work, however its runs were
\* cancelled, refused or abandoned.
THEOREM CommittedHolds == Spec => []CommittedIsThere
<1>1. TypeInv /\ DrawInv => CommittedIsThere
  <2> SUFFICES ASSUME TypeInv, DrawInv, pc = "idle", record = "committed", ~Undoes(plan) PROVE Mine = Wanted
    BY DEF CommittedIsThere
  <2>1. Mine = EditsUpto(pos) /\ pos \notin DOMAIN plan
    BY DEF DrawInv, Drawn, Through
  <2>2. run > 0
    BY BatchAssumption DEF TypeInv, TypeOK, Phases
  <2>3. PICK n \in Steps : DOMAIN plan = 1..n
    BY <2>2 DEF TypeInv, Phases, Plans
  <2>4. \A i \in DOMAIN plan : i < pos
    BY <2>1, <2>3, BatchAssumption DEF Steps, TypeInv, TypeOK
  <2>5. QED
    BY <2>1, <2>4 DEF EditsUpto, Wanted
<1>2. QED
  BY <1>1, BatchInvariant, PTL

\* The inductive invariant of the checkpoint.
LEMMA GuardInvariant == (~Progress /\ Deep) => (Spec => []GuardInv)
<1> SUFFICES ASSUME ~Progress, Deep PROVE Spec => []GuardInv
  OBVIOUS
<1>1. Init => GuardInv
  BY DEF Init, GuardInv, Unopened, Opened, Roomy, Guarded
<1>2. TypeInv /\ DrawInv /\ GuardInv /\ [Next]_vars => GuardInv'
  <2> SUFFICES ASSUME TypeInv, DrawInv, GuardInv, [Next]_vars PROVE GuardInv'
    OBVIOUS
  <2>1. CASE UNCHANGED vars
    BY <2>1 DEF vars, batchVars, GuardInv, Unopened, Opened, Roomy, Guarded, Due, Mine, Wanted
  <2>2. CASE Next
    BY <2>2, GuardKept
  <2>3. QED
    BY <2>1, <2>2
<1>3. QED
  BY <1>1, <1>2, BatchInvariant, PTL DEF Spec

\* All or nothing: whatever fails, runs on or is cancelled, the drawing holds every
\* edit of a batch in rollback mode or none.
THEOREM AllOrNothingHolds == (~Progress /\ Deep) => (Spec => []AllOrNothing)
<1>1. GuardInv => AllOrNothing
  BY DEF GuardInv, Unopened, Guarded, AllOrNothing, Settled
<1>2. QED
  BY <1>1, GuardInvariant, PTL

\* However it ends, such a batch leaves the caller's own checkpoints as they were -
\* if its begin and its close ended in time and were not refused, or else it said so.
THEOREM NoCheckpointLeftHolds == (~Progress /\ Deep) => (Spec => []NoCheckpointLeft)
<1>1. GuardInv => NoCheckpointLeft
  BY DEF GuardInv, Unopened, Guarded, NoCheckpointLeft, Settled
<1>2. QED
  BY <1>1, GuardInvariant, PTL
===============================================================================
