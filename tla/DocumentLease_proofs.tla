-------------------------- MODULE DocumentLease_proofs -------------------------
(***************************************************************************)
(* Proofs about DocumentLease, for every number of calls and of open       *)
(* documents: the type invariant, that the lock follows the worker, and -  *)
(* when an exit ends before its own deadline - that no two workers are     *)
(* ever on one drawing, that a call runs where it was recorded to run, and *)
(* that a drawing left mid-write is fenced.                                *)
(***************************************************************************)
EXTENDS DocumentLease, SequenceTheorems, TLAPS

-------------------------------------------------------------------------------
(* The queue *)

\* A call taken out of the queue leaves a sequence of calls.
LEMMA DequeuedType ==
  ASSUME NEW c \in Calls, queue \in Seq(Calls)
  PROVE  Dequeued(c) \in Seq(Calls)
<1>1. CASE ~InQueue(c)
  BY <1>1 DEF Dequeued
<1>2. CASE InQueue(c)
  <2> DEFINE p == CHOOSE m \in 1..Len(queue) : queue[m] = c
             left == SubSeq(queue, 1, p - 1)
             right == SubSeq(queue, p + 1, Len(queue))
  <2>1. p \in 1..Len(queue)
    BY <1>2 DEF InQueue
  <2>2. Dequeued(c) = left \o right
    BY <1>2 DEF Dequeued
  <2> HIDE DEF p
  <2>3. Len(queue) \in Nat
    BY LenProperties
  <2>4. \A n \in 1..Len(queue) : queue[n] \in Calls
    BY ElementOfSeq
  <2>5. left \in Seq(Calls)
    <3>1. \A n \in 1..(p - 1) : queue[n] \in Calls
      BY <2>1, <2>3, <2>4
    <3>2. QED
      BY <3>1, <2>1, <2>3, SubSeqProperties
  <2>6. right \in Seq(Calls)
    <3>1. \A n \in (p + 1)..Len(queue) : queue[n] \in Calls
      BY <2>1, <2>3, <2>4
    <3>2. QED
      BY <3>1, <2>1, <2>3, SubSeqProperties
  <2> HIDE DEF left, right
  <2>7. QED
    BY <2>2, <2>5, <2>6, ConcatProperties
<1>3. QED
  BY <1>1, <1>2

-------------------------------------------------------------------------------
(* Types *)

Pcs == {"idle", "waiting", "woken", "running", "over"}

\* The gate's reaping keeps the quarantine a call or None.
LEMMA ReapedType ==
  ASSUME TypeOK
  PROVE  Reaped \in Calls \cup {None}
BY DEF Reaped, TypeOK

\* A swapped lock moves its queue from one place to another.
LEMMA AwakeType ==
  ASSUME NEW p \in [Calls -> Pcs]
  PROVE  Awake(p) \in [Calls -> Pcs]
BY DEF Awake, Pcs

\* What a call may do once it is past the gate keeps the types.
LEMMA JoinType ==
  ASSUME TypeOK, NEW c \in Calls, Join(c) \/ Leave(c)
  PROVE  /\ pc' \in [Calls -> Pcs]
         /\ wk' \in [Calls -> {"none", "queued", "running", "ok", "failed"}]
         /\ on' \in [Calls -> Docs \cup {None}]
         /\ holder' \in Calls \cup {None}
         /\ queue' \in Seq(Calls)
<1> USE DEF Pcs
<1>0. /\ pc \in [Calls -> Pcs] /\ queue \in Seq(Calls)
      /\ wk \in [Calls -> {"none", "queued", "running", "ok", "failed"}]
      /\ on \in [Calls -> Docs \cup {None}]
      /\ holder \in Calls \cup {None} /\ active \in Docs \cup {None}
  BY DEF TypeOK
<1>1. CASE Submit(c, Awake(pc)) /\ queue' = <<>>
  BY <1>0, <1>1, AwakeType DEF Submit
<1>2. CASE Submit(c, pc) /\ UNCHANGED queue
  BY <1>0, <1>2 DEF Submit
<1>3. CASE /\ queue' = Append(queue, c) /\ pc' = [pc EXCEPT ![c] = "waiting"]
           /\ on' = [on EXCEPT ![c] = active] /\ UNCHANGED <<holder, wk>>
  <2>1. Append(queue, c) \in Seq(Calls)
    BY <1>0, AppendProperties
  <2>2. QED
    BY <1>0, <1>3, <2>1
<1>4. CASE Leave(c)
  BY <1>0, <1>4, DequeuedType DEF Leave
<1>5. QED
  BY <1>1, <1>2, <1>3, <1>4 DEF Join

\* Types and the registry: what is active is registered.
THEOREM TypeCorrect == Spec => []TypeOK
<1>1. Init => TypeOK
  BY LeaseAssumption DEF Init, TypeOK, Kinds, Docs
<1>2. TypeOK /\ [Next]_vars => TypeOK'
  <2> SUFFICES ASSUME TypeOK, Next PROVE TypeOK'
    BY DEF vars, loopVars, docVars, TypeOK
  <2>0. PICK c \in Calls :
          \/ \E k \in Kinds : Invoke(c, k)
          \/ GiveUp(c) \/ Cancel(c) \/ Loop(c) \/ Worker(c)
    BY DEF Next
  <2>1. ASSUME NEW k \in Kinds, Invoke(c, k) PROVE TypeOK'
    BY <2>1, JoinType, ReapedType DEF Invoke, TypeOK, docVars, Pcs
  <2>2. CASE Acquire(c)
    <3>1. CASE Submit(c, pc) /\ queue' = Tail(queue)
      <4>1. Tail(queue) \in Seq(Calls)
        BY <2>2, HeadTailProperties DEF Acquire, TypeOK
      <4>2. QED
        BY <2>2, <3>1, <4>1, ReapedType DEF Acquire, Submit, TypeOK, docVars
    <3>2. CASE Leave(c)
      BY <2>2, <3>2, JoinType, ReapedType DEF Acquire, TypeOK, docVars, Pcs
    <3>3. QED
      BY <2>2, <3>1, <3>2 DEF Acquire
  <2>3. CASE Retry(c)
    BY <2>3, JoinType, ReapedType DEF Retry, TypeOK, docVars, Pcs
  <2>4. CASE GiveUp(c)
    BY <2>4, JoinType DEF GiveUp, TypeOK, docVars, Pcs
  <2>5. CASE Start(c)
    BY <2>5 DEF Start, TypeOK, loopVars, docVars, Docs
  <2>6. CASE Register(c)
    BY <2>6 DEF Register, TypeOK, loopVars, Docs, Evicted
  <2>7. CASE Close(c)
    BY <2>7 DEF Close, TypeOK, loopVars
  <2>8. CASE Activate(c)
    BY <2>8 DEF Activate, TypeOK, loopVars
  <2>9. CASE Finish(c)
    BY <2>9 DEF Finish, TypeOK, loopVars, docVars
  <2>10. CASE Return(c)
    BY <2>10 DEF Return, TypeOK, docVars
  <2>11. CASE Cancel(c)
    BY <2>11 DEF Cancel, TypeOK, docVars
  <2>12. CASE Overrun(c)
    <3> DEFINE p == [pc EXCEPT ![c] = "over"]
    <3>1. p \in [Calls -> Pcs] /\ Awake(p) \in [Calls -> Pcs]
      <4>1. p \in [Calls -> Pcs]
        BY DEF TypeOK, Pcs
      <4>2. QED
        BY <4>1, AwakeType
    <3>2. <<>> \in Seq(Calls)
      BY EmptySeq
    <3>3. QED
      BY <2>12, <3>1, <3>2 DEF Overrun, TypeOK, docVars, Pcs
  <2>13. CASE LeaseFinished(c)
    BY <2>13 DEF LeaseFinished, TypeOK, docVars
  <2>14. QED
    BY <2>0, <2>1, <2>2, <2>3, <2>4, <2>5, <2>6, <2>7, <2>8, <2>9, <2>10, <2>11, <2>12, <2>13
       DEF Loop, Worker
<1>3. QED
  BY <1>1, <1>2, PTL DEF Spec

-------------------------------------------------------------------------------
(* The lock *)

\* Who queues on the current lock waits, and waits once.
QueueInv ==
  /\ \A n \in 1..Len(queue) : pc[queue[n]] = "waiting"
  /\ \A m, n \in 1..Len(queue) : queue[m] = queue[n] => m = n

\* The lock is a call's from the submission of its worker until that ended or was
\* given up.
Owns(c) == pc[c] = "running" \/ fate[c] = "leased"

\* What an owner has, and where a worker can be without one.
LockInv ==
  /\ \A c \in Calls : Owns(c) => holder = c
  /\ \A c \in Calls : fate[c] # "none" => pc[c] = "over"
  /\ \A c \in Calls : wk[c] = "queued" => pc[c] = "running"
  /\ \A c \in Calls : wk[c] = "running" => pc[c] = "running" \/ fate[c] # "none"
  /\ \A c \in Calls : pc[c] \in {"idle", "waiting", "woken"} => wk[c] = "none"

\* Taking a call out of the queue leaves the others, once each, and it no more.
LEMMA DequeuedKeeps ==
  ASSUME NEW c \in Calls, queue \in Seq(Calls),
         \A m, n \in 1..Len(queue) : queue[m] = queue[n] => m = n
  PROVE  /\ \A n \in 1..Len(Dequeued(c)) :
              /\ Dequeued(c)[n] # c
              /\ \E m \in 1..Len(queue) : Dequeued(c)[n] = queue[m]
         /\ \A m, n \in 1..Len(Dequeued(c)) : Dequeued(c)[m] = Dequeued(c)[n] => m = n
<1>1. CASE ~InQueue(c)
  BY <1>1 DEF Dequeued, InQueue
<1>2. CASE InQueue(c)
  <2> DEFINE p == CHOOSE m \in 1..Len(queue) : queue[m] = c
             left == SubSeq(queue, 1, p - 1)
             right == SubSeq(queue, p + 1, Len(queue))
             From(n) == IF n < p THEN n ELSE n + 1
  <2>1. p \in 1..Len(queue) /\ queue[p] = c
    BY <1>2 DEF InQueue
  <2>2. Dequeued(c) = left \o right
    BY <1>2 DEF Dequeued
  <2> HIDE DEF p
  <2>3. Len(queue) \in Nat
    BY LenProperties
  <2>4. \A n \in 1..Len(queue) : queue[n] \in Calls
    BY ElementOfSeq
  <2>5. /\ left \in Seq(Calls) /\ Len(left) = p - 1
        /\ \A n \in 1..(p - 1) : left[n] = queue[n]
    <3>1. \A n \in 1..(p - 1) : queue[n] \in Calls
      BY <2>1, <2>3, <2>4
    <3>2. /\ left \in Seq(Calls)
          /\ Len(left) = IF 1 <= p - 1 THEN (p - 1) - 1 + 1 ELSE 0
          /\ \A n \in 1..((p - 1) - 1 + 1) : left[n] = queue[1 + n - 1]
      BY <3>1, <2>1, <2>3, SubSeqProperties
    <3> HIDE DEF left
    <3>3. QED
      BY <3>2, <2>1, <2>3
  <2>6. /\ right \in Seq(Calls) /\ Len(right) = Len(queue) - p
        /\ \A n \in 1..(Len(queue) - p) : right[n] = queue[p + n]
    <3>1. \A n \in (p + 1)..Len(queue) : queue[n] \in Calls
      BY <2>1, <2>3, <2>4
    <3>2. /\ right \in Seq(Calls)
          /\ Len(right) = IF p + 1 <= Len(queue) THEN Len(queue) - (p + 1) + 1 ELSE 0
          /\ \A n \in 1..(Len(queue) - (p + 1) + 1) : right[n] = queue[(p + 1) + n - 1]
      BY <3>1, <2>1, <2>3, SubSeqProperties
    <3> HIDE DEF right
    <3>3. QED
      BY <3>2, <2>1, <2>3
  <2> HIDE DEF left, right
  <2>7. /\ Len(left \o right) = Len(queue) - 1
        /\ \A n \in 1..(Len(queue) - 1) :
             (left \o right)[n] = IF n <= p - 1 THEN left[n] ELSE right[n - (p - 1)]
    BY <2>1, <2>3, <2>5, <2>6, ConcatProperties
  <2>8. \A n \in 1..(Len(queue) - 1) : From(n) \in 1..Len(queue) /\ (left \o right)[n] = queue[From(n)]
    BY <2>1, <2>3, <2>5, <2>6, <2>7
  <2>9. \A m, n \in 1..(Len(queue) - 1) : From(n) # p /\ (From(m) = From(n) => m = n)
    BY <2>1, <2>3
  <2> HIDE DEF From
  <2>10. Len(Dequeued(c)) = Len(queue) - 1
    BY <2>2, <2>7
  <2>11. \A n \in 1..Len(Dequeued(c)) :
           Dequeued(c)[n] # c /\ \E m \in 1..Len(queue) : Dequeued(c)[n] = queue[m]
    <3> TAKE n \in 1..Len(Dequeued(c))
    <3>1. From(n) \in 1..Len(queue) /\ Dequeued(c)[n] = queue[From(n)] /\ From(n) # p
      BY <2>2, <2>8, <2>9, <2>10
    <3>2. QED
      BY <2>1, <3>1
  <2>12. ASSUME NEW m \in 1..Len(Dequeued(c)), NEW n \in 1..Len(Dequeued(c)),
                Dequeued(c)[m] = Dequeued(c)[n]
         PROVE  m = n
    <3>1. /\ From(m) \in 1..Len(queue) /\ From(n) \in 1..Len(queue)
          /\ queue[From(m)] = queue[From(n)]
      BY <2>2, <2>8, <2>10, <2>12
    <3>2. From(m) = From(n)
      BY <3>1
    <3>3. QED
      BY <2>9, <2>10, <3>2
  <2>13. QED
    BY <2>11, <2>12
<1>3. QED
  BY <1>1, <1>2

\* A coroutine that ends leaves the queue.
LEMMA LeaveKeepsQueue ==
  ASSUME TypeOK, QueueInv, NEW c \in Calls, Leave(c)
  PROVE  QueueInv'
<1>1. queue \in Seq(Calls) /\ pc \in [Calls -> Pcs]
  BY DEF TypeOK, Pcs
<1>2. \A n \in 1..Len(queue) : queue[n] \in Calls
  BY <1>1, ElementOfSeq
<1>3. /\ \A n \in 1..Len(queue') : queue'[n] # c /\ \E m \in 1..Len(queue) : queue'[n] = queue[m]
      /\ \A m, n \in 1..Len(queue') : queue'[m] = queue'[n] => m = n
  BY <1>1, DequeuedKeeps DEF Leave, QueueInv
<1>4. QED
  BY <1>1, <1>2, <1>3 DEF Leave, QueueInv

\* So does one that gets past the gate, unless it is the one that waits.
LEMMA JoinKeepsQueue ==
  ASSUME TypeOK, QueueInv, NEW c \in Calls, pc[c] # "waiting", Join(c)
  PROVE  QueueInv'
<1>1. queue \in Seq(Calls) /\ pc \in [Calls -> Pcs]
  BY DEF TypeOK, Pcs
<1>2. (\A n \in 1..Len(queue) : queue[n] \in Calls) /\ Len(queue) \in Nat
  BY <1>1, ElementOfSeq, LenProperties
<1>3. CASE queue' = <<>>
  BY <1>3, EmptySeq DEF QueueInv
<1>4. CASE Submit(c, pc) /\ UNCHANGED queue
  BY <1>1, <1>2, <1>4 DEF Submit, QueueInv
<1>5. CASE queue' = Append(queue, c) /\ pc' = [pc EXCEPT ![c] = "waiting"]
  <2>1. /\ Len(queue') = Len(queue) + 1
        /\ \A i \in 1..Len(queue) : queue'[i] = queue[i]
        /\ queue'[Len(queue) + 1] = c
    BY <1>1, <1>5, AppendProperties
  <2>2. QED
    BY <1>1, <1>2, <1>5, <2>1 DEF QueueInv
<1>6. QED
  BY <1>3, <1>4, <1>5 DEF Join

\* Every step keeps the queue.
LEMMA QueueKept == TypeOK /\ QueueInv /\ [Next]_vars => QueueInv'
<1> SUFFICES ASSUME TypeOK, QueueInv, Next PROVE QueueInv'
  BY DEF vars, loopVars, QueueInv
<1>0. PICK c \in Calls :
        \/ \E k \in Kinds : Invoke(c, k)
        \/ GiveUp(c) \/ Cancel(c) \/ Loop(c) \/ Worker(c)
  BY DEF Next
<1>1. /\ queue \in Seq(Calls) /\ Len(queue) \in Nat /\ pc \in [Calls -> Pcs]
      /\ \A n \in 1..Len(queue) : queue[n] \in Calls
  BY ElementOfSeq, LenProperties DEF TypeOK, Pcs
<1>2. ASSUME NEW k \in Kinds, Invoke(c, k) PROVE QueueInv'
  BY <1>2, JoinKeepsQueue, LeaveKeepsQueue DEF Invoke
<1>3. CASE Acquire(c)
  <2>1. CASE Leave(c)
    BY <2>1, LeaveKeepsQueue
  <2>2. CASE Submit(c, pc) /\ queue' = Tail(queue)
    <3>1. queue # <<>> /\ Head(queue) = c
      BY <1>3 DEF Acquire
    <3>2. Len(queue') = Len(queue) - 1 /\ \A i \in 1..Len(queue') : queue'[i] = queue[i + 1]
      BY <1>1, <2>2, <3>1, HeadTailProperties
    <3>3. queue[1] = c /\ Len(queue) # 0
      BY <1>1, <3>1, EmptySeq
    <3>4. \A n \in 1..Len(queue') : n + 1 \in 1..Len(queue) /\ 1 \in 1..Len(queue) /\ n + 1 # 1
      BY <1>1, <3>2, <3>3
    <3>5. \A m, n \in 1..Len(queue') : queue'[m] = queue'[n] => m = n
      BY <3>2, <3>4 DEF QueueInv
    <3>6. \A n \in 1..Len(queue') : queue'[n] \in Calls \ {c} /\ pc[queue'[n]] = "waiting"
      BY <1>1, <3>2, <3>3, <3>4 DEF QueueInv
    <3>7. QED
      BY <1>1, <2>2, <3>5, <3>6 DEF Submit, QueueInv
  <2>3. QED
    BY <1>3, <2>1, <2>2 DEF Acquire
<1>4. CASE Retry(c)
  BY <1>4, JoinKeepsQueue, LeaveKeepsQueue DEF Retry
<1>5. CASE GiveUp(c)
  BY <1>5, LeaveKeepsQueue DEF GiveUp
<1>6. CASE Return(c) \/ Cancel(c)
  BY <1>1, <1>6 DEF Return, Cancel, QueueInv
<1>7. CASE LeaseFinished(c)
  BY <1>7 DEF LeaseFinished, QueueInv
<1>8. CASE Overrun(c)
  BY <1>8, EmptySeq DEF Overrun, QueueInv
<1>9. CASE Worker(c)
  BY <1>9 DEF Worker, Start, Register, Close, Activate, Finish, loopVars, QueueInv
<1>10. QED
  BY <1>0, <1>2, <1>3, <1>4, <1>5, <1>6, <1>7, <1>8, <1>9 DEF Loop

\* What taking the lock does to every call: the others keep their place, or wake.
Taken(c) ==
  /\ holder \in LiveReads \cup {None}
  /\ holder' = c
  /\ pc'[c] = "running"
  /\ \A d \in Calls \ {c} : pc'[d] = pc[d] \/ (pc[d] = "waiting" /\ pc'[d] = "woken")
  /\ wk' = [wk EXCEPT ![c] = "queued"]
  /\ on' = [on EXCEPT ![c] = active]

\* And what the end of a coroutine, or a place in the queue, does.
Passed(c) ==
  /\ pc'[c] \in {"waiting", "over"}
  /\ \A d \in Calls \ {c} : pc'[d] = pc[d]
  /\ \A d \in Calls \ {c} : on'[d] = on[d]
  /\ UNCHANGED <<holder, wk>>

\* A swapped lock wakes those that wait for it, and nobody else.
LEMMA AwakeFacts ==
  ASSUME TypeOK, QueueInv, NEW p \in [Calls -> Pcs], NEW d \in Calls
  PROVE  Awake(p)[d] = p[d] \/ (pc[d] = "waiting" /\ Awake(p)[d] = "woken")
BY DEF Awake, InQueue, QueueInv

\* A call asks the gate and goes on: it takes the lock, queues on it, or is over.
LEMMA JoinFacts ==
  ASSUME TypeOK, QueueInv, NEW c \in Calls, Join(c)
  PROVE  Taken(c) \/ Passed(c)
<1>1. pc \in [Calls -> Pcs] /\ on \in [Calls -> Docs \cup {None}]
  BY DEF TypeOK, Pcs
<1>2. CASE holder \in LiveReads /\ Submit(c, Awake(pc))
  <2>1. \A d \in Calls : Awake(pc)[d] = pc[d] \/ (pc[d] = "waiting" /\ Awake(pc)[d] = "woken")
    BY <1>1, AwakeFacts
  <2>2. Awake(pc) \in [Calls -> Pcs]
    BY <1>1, AwakeType
  <2>3. QED
    BY <1>2, <2>1, <2>2 DEF Submit, Taken
<1>3. CASE holder = None /\ Submit(c, pc)
  BY <1>1, <1>3 DEF Submit, Taken
<1>4. CASE /\ pc' = [pc EXCEPT ![c] = "waiting"]
           /\ on' = [on EXCEPT ![c] = active] /\ UNCHANGED <<holder, wk>>
  BY <1>1, <1>4 DEF Passed
<1>5. QED
  BY <1>2, <1>3, <1>4 DEF Join

LEMMA LeaveFacts ==
  ASSUME TypeOK, NEW c \in Calls, Leave(c)
  PROVE  Passed(c) /\ pc'[c] = "over"
BY DEF Leave, Passed, TypeOK

\* The steps of a call that is not past its worker's submission.
Asks(c) == (\E k \in Kinds : Invoke(c, k)) \/ Acquire(c) \/ Retry(c) \/ GiveUp(c)

LEMMA AsksFacts ==
  ASSUME TypeOK, QueueInv, LockInv, NEW c \in Calls, Asks(c)
  PROVE  /\ pc[c] \in {"idle", "waiting", "woken"}
         /\ wk[c] = "none" /\ fate[c] = "none" /\ fate' = fate /\ at' = at
         /\ docs' = docs /\ active' = active
         /\ Taken(c) \/ Passed(c)
<1>1. pc[c] \in {"idle", "waiting", "woken"}
  BY DEF Asks, Invoke, Acquire, Retry, GiveUp
<1>2. /\ wk[c] = "none" /\ fate[c] = "none"
      /\ fate' = fate /\ at' = at /\ docs' = docs /\ active' = active
  BY <1>1 DEF Asks, Invoke, Acquire, Retry, GiveUp, LockInv, docVars
<1>3. CASE Acquire(c)
  <2>1. CASE Submit(c, pc)
    BY <1>1, <1>2, <1>3, <2>1 DEF Acquire, Submit, Taken, TypeOK
  <2>2. CASE Leave(c)
    BY <1>1, <1>2, <2>2, LeaveFacts
  <2>3. QED
    BY <1>3, <2>1, <2>2 DEF Acquire
<1>4. CASE Join(c)
  BY <1>1, <1>2, <1>4, JoinFacts
<1>5. CASE Leave(c)
  BY <1>1, <1>2, <1>5, LeaveFacts
<1>6. QED
  BY <1>1, <1>2, <1>3, <1>4, <1>5 DEF Asks, Invoke, Retry, GiveUp

\* Every step keeps the lock with the worker.
LEMMA LockKept == TypeOK /\ QueueInv /\ LockInv /\ [Next]_vars => LockInv'
<1> SUFFICES ASSUME TypeOK, QueueInv, LockInv, Next PROVE LockInv'
  BY DEF vars, loopVars, LockInv, Owns
<1>0. PICK c \in Calls : Asks(c) \/ Cancel(c) \/ Return(c) \/ Overrun(c) \/ LeaseFinished(c) \/ Worker(c)
  BY DEF Next, Loop, Asks
<1> USE DEF Owns
<1>1. CASE Asks(c) /\ Taken(c)
  <2>1. \A d \in Calls : ~Owns(d)
    BY <1>1, LeaseAssumption DEF Taken, LockInv, LiveReads
  <2>2. fate' = fate /\ wk[c] = "none" /\ fate[c] = "none"
    BY <1>1, AsksFacts
  <2>3. QED
    BY <1>1, <2>1, <2>2 DEF Taken, LockInv, TypeOK
<1>2. CASE Asks(c) /\ Passed(c)
  <2>1. fate' = fate /\ wk[c] = "none" /\ fate[c] = "none"
    BY <1>2, AsksFacts
  <2>2. QED
    BY <1>2, <2>1 DEF Passed, LockInv, TypeOK
<1>3. CASE Cancel(c)
  BY <1>3 DEF Cancel, LockInv, TypeOK
<1>4. CASE Return(c)
  BY <1>4 DEF Return, LockInv, TypeOK
<1>5. CASE Overrun(c)
  <2> DEFINE p == [pc EXCEPT ![c] = "over"]
  <2>1. p \in [Calls -> Pcs] /\ wk' = wk /\ holder = c
    BY <1>5 DEF Overrun, TypeOK, Pcs, LockInv
  <2>2. \A d \in Calls : pc'[d] = p[d] \/ (pc[d] = "waiting" /\ pc'[d] = "woken")
    <3>1. pc' \in {p, Awake(p)}
      BY <1>5 DEF Overrun
    <3> HIDE DEF p
    <3>2. \A d \in Calls : Awake(p)[d] = p[d] \/ (pc[d] = "waiting" /\ Awake(p)[d] = "woken")
      BY <2>1, AwakeFacts
    <3>3. QED
      BY <3>1, <3>2
  <2>3. \A d \in Calls \ {c} : p[d] = pc[d] /\ ~Owns(d) /\ fate'[d] = fate[d]
    BY <1>5, <2>1 DEF Overrun, LockInv, TypeOK
  <2>4. p[c] = "over" /\ fate'[c] \in {"detached", "abandoned"} /\ pc[c] # "waiting" /\ wk[c] = "running"
    BY <1>5 DEF Overrun, LockInv, TypeOK
  <2> HIDE DEF p
  <2>5. \A d \in Calls : ~Owns(d)'
    BY <2>2, <2>3, <2>4
  <2>6. QED
    BY <2>1, <2>2, <2>3, <2>4, <2>5 DEF LockInv
<1>6. CASE LeaseFinished(c)
  BY <1>6 DEF LeaseFinished, LockInv, TypeOK, Ended
<1>7. CASE Worker(c)
  BY <1>7 DEF Worker, Start, Register, Close, Activate, Finish, loopVars, LockInv, TypeOK
<1>8. QED
  BY <1>0, <1>1, <1>2, <1>3, <1>4, <1>5, <1>6, <1>7, AsksFacts

\* The lease follows the worker: a worker that nobody gave up has the lock.
THEOREM WorkerHasLockHolds == Spec => []WorkerHasLock
<1>1. Init => QueueInv /\ LockInv
  BY EmptySeq DEF Init, QueueInv, LockInv, Owns
<1>2. TypeOK /\ LockInv => WorkerHasLock
  BY DEF TypeOK, LockInv, WorkerHasLock, Working, Owns
<1>3. QED
  BY <1>1, <1>2, TypeCorrect, QueueKept, LockKept, PTL DEF Spec

-------------------------------------------------------------------------------
(* The drawings, when an exit ends before its own deadline *)

\* What was given up at its deadline was a read or a write: no exit.
GivenUp ==
  \A c \in Calls : /\ fate[c] = "detached" => kind[c] = "read"
                   /\ fate[c] = "abandoned" => kind[c] = "write"

\* Nothing but its exits runs under a quarantine.
GateHolds == \A c \in Calls : Owns(c) /\ kind[c] \notin QuarantineExits => quar = None

\* An owner's read or write is on the active document, which no detached read is on.
OnActive ==
  \A c \in Calls :
    Owns(c) /\ Working(c) /\ kind[c] \in {"read", "write"} =>
      /\ on[c] = active
      /\ wk[c] = "running" => at[c] = active
      /\ \A r \in LiveReads : on[r] # active

\* A quarantine is an abandoned call's, and of the document that is still active.
QuarantineIs ==
  quar # None => fate[quar] = "abandoned" /\ (wk[quar] = "ok" \/ at[quar] \in {None, active})

\* A document is on no worker, and not registered, before its call has opened it.
FreshNames == \A x \in Calls : at[x] # x => x \notin docs /\ \A d \in Calls : at[d] # x

\* A worker that has not started is on no document.
NotStarted == \A c \in Calls : wk[c] \in {"none", "queued"} => at[c] = None

DrawInv ==
  /\ GivenUp /\ GateHolds /\ OnActive /\ QuarantineIs /\ FreshNames /\ NotStarted
  /\ OneWorkerPerDrawing /\ RunsWhereRecorded /\ Fenced

\* A call that took the lock was admitted, and found nobody who owns it.
LEMMA TakenFacts ==
  ASSUME TypeOK, QueueInv, LockInv, NEW c \in Calls, Asks(c), Taken(c)
  PROVE  /\ \A d \in Calls : ~Owns(d)
         /\ Admits(kind'[c]) /\ quar' = Reaped
<1>1. \A d \in Calls : ~Owns(d)
  BY LeaseAssumption DEF Taken, LockInv, LiveReads, Owns
<1>2. ~Leave(c)
  BY LeaveFacts DEF Taken
<1>3. Admits(kind'[c]) /\ quar' = Reaped
  BY <1>2 DEF Asks, Invoke, Acquire, Retry, GiveUp, TypeOK
<1>4. QED
  BY <1>1, <1>3

\* What asking the gate may change beside the lock.
LEMMA AsksKeeps ==
  ASSUME TypeOK, NEW c \in Calls, Asks(c)
  PROVE  /\ \A d \in Calls \ {c} : kind'[d] = kind[d]
         /\ quar' \in {quar, Reaped}
BY DEF Asks, Invoke, Acquire, Retry, GiveUp, TypeOK

\* With exits that end in time, a running worker that was not given up is the owner.
LEMMA RunningOwns ==
  ASSUME TypeOK, LockInv, GivenUp, NEW c \in Calls, wk[c] = "running"
  PROVE  Owns(c) \/ fate[c] \in {"detached", "abandoned"}
BY DEF TypeOK, LockInv, Owns

LEMMA AsksDraws ==
  ASSUME TypeOK, QueueInv, LockInv, DrawInv, NEW c \in Calls, Asks(c)
  PROVE  DrawInv'
<1>1. /\ pc[c] \in {"idle", "waiting", "woken"}
      /\ wk[c] = "none" /\ fate[c] = "none" /\ fate' = fate /\ at' = at
      /\ docs' = docs /\ active' = active
      /\ Taken(c) \/ Passed(c)
  BY AsksFacts
<1>2. (\A d \in Calls \ {c} : kind'[d] = kind[d]) /\ quar' \in {quar, Reaped}
  BY AsksKeeps
<1>3. /\ wk'[c] \in {"none", "queued"}
      /\ \A d \in Calls \ {c} : wk'[d] = wk[d] /\ on'[d] = on[d] /\ (Owns(d)' <=> Owns(d))
  BY <1>1 DEF Taken, Passed, TypeOK, Owns
<1>4. LiveReads' = LiveReads /\ \A r \in LiveReads : r # c
  BY <1>1, <1>3 DEF LiveReads
<1>5. quar' # None => quar' = quar /\ quar # c
  BY <1>1, <1>2 DEF Reaped, DrawInv, QuarantineIs
<1>6. GivenUp' /\ NotStarted' /\ FreshNames'
  BY <1>1, <1>2, <1>3 DEF DrawInv, GivenUp, NotStarted, FreshNames
<1>7. OneWorkerPerDrawing' /\ RunsWhereRecorded'
  BY <1>1, <1>2, <1>3 DEF DrawInv, OneWorkerPerDrawing, RunsWhereRecorded
<1>8. QuarantineIs'
  <2>1. quar \in Calls \cup {None}
    BY DEF TypeOK
  <2>2. QED
    BY <1>1, <1>3, <1>5, <2>1 DEF DrawInv, QuarantineIs
<1>9. Fenced'
  <2>1. \A d \in Calls : quar = d /\ quar' # d => wk[d] = "ok"
    BY <1>2, LeaseAssumption DEF Reaped
  <2>2. QED
    BY <1>1, <1>3, <2>1 DEF DrawInv, Fenced
<1>10. CASE Taken(c)
  <2>1. (\A d \in Calls : ~Owns(d)) /\ Admits(kind'[c]) /\ quar' = Reaped
    BY <1>10, TakenFacts
  <2>2. on'[c] = active
    BY <1>10 DEF Taken, TypeOK
  <2>3. GateHolds'
    BY <1>3, <2>1 DEF Admits, GateHolds
  <2>4. \A d \in Calls \ {c} : ~Owns(d)'
    BY <1>3, <2>1
  <2>5. kind'[c] \in {"read", "write"} => \A r \in LiveReads : on'[r] # active'
    <3>1. \A r \in LiveReads : on'[r] = on[r]
      BY <1>3, <1>4 DEF LiveReads
    <3>2. QED
      BY <1>1, <2>1, <3>1 DEF Admits, DetachedReadExits, QuarantineExits
  <2>6. OnActive'
    BY <1>1, <1>3, <1>4, <2>2, <2>4, <2>5 DEF OnActive
  <2>7. QED
    BY <1>6, <1>7, <1>8, <1>9, <2>3, <2>6 DEF DrawInv
<1>11. CASE Passed(c)
  <2>1. ~Owns(c)'
    BY <1>1, <1>11 DEF Passed, Owns
  <2>2. GateHolds'
    BY <1>2, <1>3, <1>5, <2>1 DEF DrawInv, GateHolds, TypeOK
  <2>3. \A r \in LiveReads : on'[r] = on[r] /\ r \in Calls
    BY <1>3, <1>4 DEF LiveReads
  <2>4. OnActive'
    BY <1>1, <1>2, <1>3, <1>4, <2>1, <2>3 DEF DrawInv, OnActive, Working
  <2>5. QED
    BY <1>6, <1>7, <1>8, <1>9, <2>2, <2>4 DEF DrawInv
<1>12. QED
  BY <1>1, <1>10, <1>11

\* The steps of a worker thread.
LEMMA WorkerDraws ==
  ASSUME TypeOK, LockInv, DrawInv, ~ExitsOverrun, NEW c \in Calls, Worker(c)
  PROVE  DrawInv'
<1>1. pc' = pc /\ fate' = fate /\ kind' = kind /\ on' = on
  BY DEF Worker, Start, Register, Close, Activate, Finish, loopVars
<1>2. (\A d \in Calls : Owns(d)' <=> Owns(d)) /\ \A d \in Calls : Owns(d) => holder = d
  BY <1>1 DEF Owns, LockInv
<1>3. active \in docs \cup {None} /\ None \notin Calls
  BY LeaseAssumption DEF TypeOK
<1>4. CASE Start(c)
  <2>1. /\ wk[c] = "queued" /\ wk' = [wk EXCEPT ![c] = "running"]
        /\ at' = [at EXCEPT ![c] = IF kind[c] \in {"read", "write"} THEN active ELSE None]
        /\ quar' = quar /\ docs' = docs /\ active' = active
    BY <1>4 DEF Start, docVars
  <2>2. Owns(c) /\ fate[c] = "none" /\ at[c] = None
    BY <2>1 DEF Owns, LockInv, DrawInv, NotStarted
  <2>3. LiveReads' = LiveReads
    BY <1>1, <2>1, <2>2 DEF LiveReads, TypeOK
  <2>4. /\ wk'[c] = "running" /\ \A d \in Calls \ {c} : wk'[d] = wk[d] /\ at'[d] = at[d]
        /\ at'[c] = IF kind[c] \in {"read", "write"} THEN active ELSE None
    BY <2>1 DEF TypeOK
  <2>5. GivenUp' /\ GateHolds' /\ NotStarted'
    BY <1>1, <1>2, <2>1, <2>4 DEF DrawInv, GivenUp, GateHolds, NotStarted
  <2>6. OnActive' /\ RunsWhereRecorded'
    BY <1>1, <1>2, <2>1, <2>2, <2>3, <2>4 DEF DrawInv, OnActive, RunsWhereRecorded, Working
  <2>7. QuarantineIs' /\ Fenced'
    BY <1>1, <2>1, <2>2, <2>4 DEF DrawInv, QuarantineIs, Fenced, TypeOK
  <2>8. FreshNames'
    <3>1. c \notin docs
      BY <1>3, <2>2 DEF DrawInv, FreshNames
    <3>2. at'[c] # None => at'[c] \in docs
      BY <1>3, <2>4
    <3>3. QED
      BY <1>3, <2>1, <2>2, <2>4, <3>1, <3>2 DEF DrawInv, FreshNames
  <2>9. ASSUME NEW d \in Calls \ {c}, wk[d] = "running", at[d] # None,
               kind[c] \in {"read", "write"}
        PROVE  at[d] # active
    <3>1. fate[d] \in {"detached", "abandoned"}
      BY <1>2, <2>2, <2>9, RunningOwns DEF DrawInv
    <3>2. CASE fate[d] = "detached"
      <4>1. d \in LiveReads /\ kind[d] = "read"
        BY <2>9, <3>2 DEF LiveReads, DrawInv, GivenUp
      <4>2. on[d] # active
        BY <2>1, <2>2, <2>9, <4>1 DEF DrawInv, OnActive, Working
      <4>3. QED
        BY <2>9, <4>1, <4>2 DEF DrawInv, RunsWhereRecorded
    <3>3. CASE fate[d] = "abandoned"
      <4>1. quar = None
        BY <2>2, <2>9 DEF DrawInv, GateHolds, QuarantineExits
      <4>2. at[d] \notin docs
        BY <1>3, <2>9, <3>3, <4>1 DEF DrawInv, Fenced
      <4>3. QED
        BY <1>3, <2>9, <4>2
    <3>4. QED
      BY <3>1, <3>2, <3>3
  <2>10. OneWorkerPerDrawing'
    BY <2>4, <2>9 DEF DrawInv, OneWorkerPerDrawing
  <2>11. QED
    BY <2>5, <2>6, <2>7, <2>8, <2>10 DEF DrawInv
<1>5. ASSUME wk[c] = "running", kind[c] \notin {"read", "write"}
      PROVE  /\ Owns(c) /\ fate[c] \notin {"detached", "abandoned"}
             /\ \A d \in Calls : kind[d] \in {"read", "write"} => ~Owns(d)
  BY <1>2, <1>5, RunningOwns DEF DrawInv, GivenUp
<1>6. CASE Register(c)
  <2>1. /\ wk[c] = "running" /\ kind[c] = "open" /\ at[c] = None
        /\ docs' = Evicted \cup {c} /\ active' = c /\ quar' = None
        /\ at' = [at EXCEPT ![c] = c] /\ wk' = wk
    BY <1>6 DEF Register, loopVars
  <2>2. /\ Owns(c) /\ fate[c] \notin {"detached", "abandoned"}
        /\ \A d \in Calls : kind[d] \in {"read", "write"} => ~Owns(d)
    BY <1>5, <2>1
  <2>3. at'[c] = c /\ \A d \in Calls \ {c} : at'[d] = at[d] /\ at[d] # c
    BY <1>3, <2>1 DEF DrawInv, FreshNames, TypeOK
  <2>4. GivenUp' /\ GateHolds' /\ NotStarted' /\ QuarantineIs'
    BY <1>1, <2>1, <2>3 DEF DrawInv, GivenUp, GateHolds, NotStarted, QuarantineIs
  <2>5. OnActive'
    BY <1>1, <1>2, <2>2 DEF OnActive
  <2>6. FreshNames'
    <3>1. docs' \subseteq docs \cup {c}
      BY <2>1 DEF Evicted
    <3>2. QED
      BY <2>3, <3>1 DEF DrawInv, FreshNames
  <2>7. OneWorkerPerDrawing' /\ RunsWhereRecorded'
    BY <1>1, <2>1, <2>3 DEF DrawInv, OneWorkerPerDrawing, RunsWhereRecorded
  <2>8. Fenced'
    <3> SUFFICES ASSUME NEW d \in Calls, fate[d] = "abandoned", wk[d] # "ok", at'[d] # None
                 PROVE  at'[d] \notin docs'
      BY <1>1, <2>1 DEF Fenced
    <3>1. d # c /\ at'[d] = at[d] /\ at[d] # c
      BY <2>2, <2>3
    <3>2. CASE quar = d
      <4>1. at[d] = active /\ quar # None
        BY <1>3, <3>1, <3>2 DEF DrawInv, QuarantineIs
      <4>2. QED
        BY <2>1, <3>1, <4>1 DEF Evicted
    <3>3. CASE quar # d
      BY <2>1, <3>1, <3>3 DEF DrawInv, Fenced, Evicted
    <3>4. QED
      BY <3>2, <3>3
  <2>9. QED
    BY <2>4, <2>5, <2>6, <2>7, <2>8 DEF DrawInv
<1>7. CASE Close(c)
  <2>1. /\ wk[c] = "running" /\ kind[c] = "close" /\ at' = at
        /\ wk' = [wk EXCEPT ![c] = "ok"] /\ docs' = docs \ {active}
        /\ IF active = None THEN active' = active /\ quar' = quar ELSE quar' = None
    BY <1>7 DEF Close, loopVars
  <2>2. /\ Owns(c) /\ fate[c] \notin {"detached", "abandoned"}
        /\ \A d \in Calls : kind[d] \in {"read", "write"} => ~Owns(d)
    BY <1>5, <2>1
  <2>3. wk'[c] = "ok" /\ \A d \in Calls \ {c} : wk'[d] = wk[d]
    BY <2>1 DEF TypeOK
  <2>4. quar' \in {quar, None} /\ (quar' # quar => quar' = None /\ active # None)
    BY <2>1
  <2>5. GivenUp' /\ GateHolds' /\ NotStarted' /\ FreshNames' /\ OnActive'
    BY <1>1, <1>2, <2>1, <2>2, <2>3, <2>4
       DEF DrawInv, GivenUp, GateHolds, NotStarted, FreshNames, OnActive
  <2>6. OneWorkerPerDrawing' /\ RunsWhereRecorded'
    BY <1>1, <2>1, <2>3 DEF DrawInv, OneWorkerPerDrawing, RunsWhereRecorded
  <2>7. QuarantineIs'
    BY <1>1, <2>1, <2>3 DEF DrawInv, QuarantineIs, TypeOK
  <2>8. Fenced'
    <3> SUFFICES ASSUME NEW d \in Calls, fate[d] = "abandoned", wk'[d] # "ok", at[d] # None
                 PROVE  at[d] \notin docs' \/ quar' = d
      BY <1>1, <2>1 DEF Fenced
    <3>1. d # c /\ wk[d] # "ok"
      BY <2>3
    <3>2. CASE quar = d
      BY <1>3, <2>1, <3>1, <3>2 DEF DrawInv, QuarantineIs
    <3>3. CASE quar # d
      BY <2>1, <3>1, <3>3 DEF DrawInv, Fenced
    <3>4. QED
      BY <3>2, <3>3
  <2>9. QED
    BY <2>5, <2>6, <2>7, <2>8 DEF DrawInv
<1>8. CASE Activate(c)
  <2>1. /\ wk[c] = "running" /\ kind[c] = "activate" /\ at' = at
        /\ wk' = [wk EXCEPT ![c] = "ok"] /\ docs' = docs /\ quar' = quar
    BY <1>8 DEF Activate, loopVars
  <2>2. /\ Owns(c)
        /\ \A d \in Calls : kind[d] \in {"read", "write"} => ~Owns(d)
    BY <1>5, <2>1
  <2>3. quar = None
    BY <2>1, <2>2 DEF DrawInv, GateHolds, QuarantineExits
  <2>4. wk'[c] = "ok" /\ \A d \in Calls \ {c} : wk'[d] = wk[d]
    BY <2>1 DEF TypeOK
  <2>5. QED
    BY <1>1, <1>2, <2>1, <2>2, <2>3, <2>4
       DEF DrawInv, GivenUp, GateHolds, NotStarted, FreshNames, OnActive, QuarantineIs,
           OneWorkerPerDrawing, RunsWhereRecorded, Fenced
<1>9. CASE Finish(c)
  <2>1. /\ wk[c] = "running" /\ at' = at /\ docs' = docs /\ quar' = quar /\ active' = active
        /\ wk' \in {[wk EXCEPT ![c] = "ok"], [wk EXCEPT ![c] = "failed"]}
    BY <1>9 DEF Finish, loopVars, docVars
  <2>2. wk'[c] \in {"ok", "failed"} /\ \A d \in Calls \ {c} : wk'[d] = wk[d]
    BY <2>1 DEF TypeOK
  <2>3. LiveReads' \subseteq LiveReads
    BY <1>1, <2>2 DEF LiveReads
  <2>4. OnActive'
    BY <1>1, <1>2, <2>1, <2>2, <2>3 DEF DrawInv, OnActive, Working
  <2>5. QED
    BY <1>1, <1>2, <2>1, <2>2, <2>4
       DEF DrawInv, GivenUp, GateHolds, NotStarted, FreshNames, QuarantineIs,
           OneWorkerPerDrawing, RunsWhereRecorded, Fenced, TypeOK
<1>10. QED
  BY <1>4, <1>6, <1>7, <1>8, <1>9 DEF Worker

\* The steps of the event loop once the worker was submitted.
LEMMA LoopDraws ==
  ASSUME TypeOK, QueueInv, LockInv, DrawInv, ~ExitsOverrun, NEW c \in Calls,
         Return(c) \/ Cancel(c) \/ Overrun(c) \/ LeaseFinished(c)
  PROVE  DrawInv'
<1>1. /\ at' = at /\ on' = on /\ kind' = kind /\ docs' = docs /\ active' = active
      /\ \A d \in Calls \ {c} : fate'[d] = fate[d] /\ wk'[d] = wk[d]
  BY DEF Return, Cancel, Overrun, LeaseFinished, docVars, TypeOK
<1>2. \A d \in Calls : Owns(d) => holder = d
  BY DEF LockInv
<1>3. None \notin Calls
  BY LeaseAssumption
<1>4. CASE Return(c)
  <2>1. /\ pc[c] = "running" /\ wk[c] # "running" /\ fate' = fate /\ quar' = quar
        /\ pc'[c] = "over" /\ \A d \in Calls \ {c} : pc'[d] = pc[d]
        /\ wk'[c] = IF wk[c] = "queued" THEN "none" ELSE wk[c]
    BY <1>4 DEF Return, TypeOK
  <2>2. fate[c] = "none"
    BY <2>1 DEF LockInv
  <2>3. LiveReads' = LiveReads
    BY <1>1, <2>1, <2>2 DEF LiveReads
  <2>4. \A d \in Calls : Owns(d)' => Owns(d) /\ d # c
    BY <2>1, <2>2 DEF Owns
  <2>5. OnActive'
    BY <1>1, <2>3, <2>4 DEF DrawInv, OnActive, Working
  <2>6. QuarantineIs'
    <3>1. quar # None => quar \in Calls \ {c}
      BY <2>2 DEF TypeOK, DrawInv, QuarantineIs
    <3>2. QED
      BY <1>1, <2>1, <3>1 DEF DrawInv, QuarantineIs
  <2>7. QED
    BY <1>1, <2>1, <2>2, <2>4, <2>5, <2>6
       DEF DrawInv, GivenUp, GateHolds, NotStarted, FreshNames,
           OneWorkerPerDrawing, RunsWhereRecorded, Fenced
<1>5. CASE Cancel(c)
  <2>1. /\ pc[c] = "running" /\ wk[c] = "running" /\ wk' = wk /\ quar' = quar
        /\ pc'[c] = "over" /\ fate'[c] = "leased" /\ \A d \in Calls \ {c} : pc'[d] = pc[d]
    BY <1>5 DEF Cancel, TypeOK
  <2>2. fate[c] = "none"
    BY <2>1 DEF LockInv
  <2>3. LiveReads' = LiveReads
    BY <1>1, <2>1, <2>2 DEF LiveReads
  <2>4. \A d \in Calls : Owns(d)' <=> Owns(d)
    BY <1>1, <2>1 DEF Owns
  <2>5. OnActive' /\ GateHolds'
    BY <1>1, <2>1, <2>3, <2>4 DEF DrawInv, OnActive, GateHolds, Working
  <2>6. QuarantineIs'
    <3>1. quar # None => quar \in Calls \ {c}
      BY <2>2 DEF TypeOK, DrawInv, QuarantineIs
    <3>2. QED
      BY <1>1, <2>1, <3>1 DEF DrawInv, QuarantineIs
  <2>7. QED
    BY <1>1, <2>1, <2>5, <2>6
       DEF DrawInv, GivenUp, NotStarted, FreshNames, OneWorkerPerDrawing, RunsWhereRecorded, Fenced
<1>6. CASE LeaseFinished(c)
  <2>1. /\ fate[c] \in {"leased", "detached"} /\ Ended(c) /\ wk' = wk /\ quar' = quar
        /\ pc' = pc /\ fate'[c] = "none" /\ pc[c] = "over"
    BY <1>6 DEF LeaseFinished, TypeOK
  <2>2. LiveReads' \subseteq LiveReads
    BY <1>1, <2>1 DEF LiveReads
  <2>3. \A d \in Calls : Owns(d)' => Owns(d) /\ d # c
    BY <1>1, <2>1 DEF Owns
  <2>4. OnActive' /\ GateHolds'
    BY <1>1, <2>1, <2>2, <2>3 DEF DrawInv, OnActive, GateHolds, Working
  <2>5. QuarantineIs'
    <3>1. quar # None => quar \in Calls \ {c}
      BY <2>1 DEF TypeOK, DrawInv, QuarantineIs
    <3>2. QED
      BY <1>1, <2>1, <3>1 DEF DrawInv, QuarantineIs
  <2>6. QED
    BY <1>1, <2>1, <2>4, <2>5
       DEF DrawInv, GivenUp, NotStarted, FreshNames, OneWorkerPerDrawing, RunsWhereRecorded, Fenced
<1>7. CASE Overrun(c)
  <2>1. /\ Owns(c) /\ wk[c] = "running" /\ kind[c] \in {"read", "write"} /\ wk' = wk
        /\ \/ kind[c] = "read" /\ fate'[c] = "detached" /\ quar' = quar
           \/ kind[c] = "write" /\ fate'[c] = "abandoned" /\ quar' = c
    BY <1>7 DEF Overrun, Owns, TypeOK
  <2>2. \A d \in Calls : ~Owns(d)'
    <3>1. \A d \in Calls \ {c} : ~Owns(d)
      BY <1>2, <2>1
    <3>2. \A d \in Calls : pc'[d] # "running"
      <4> DEFINE p == [pc EXCEPT ![c] = "over"]
      <4>1. p \in [Calls -> Pcs] /\ pc' \in {p, Awake(p)}
        BY <1>7 DEF Overrun, TypeOK, Pcs
      <4>2. \A d \in Calls : p[d] # "running"
        BY <3>1 DEF Owns, TypeOK
      <4> HIDE DEF p
      <4>3. \A d \in Calls : Awake(p)[d] \in {p[d], "woken"}
        BY <4>1, AwakeFacts
      <4>4. QED
        BY <4>1, <4>2, <4>3
    <3>3. QED
      BY <1>1, <2>1, <3>1, <3>2 DEF Owns
  <2>3. quar = None /\ at[c] = active
    BY <2>1 DEF DrawInv, GateHolds, OnActive, QuarantineExits, Working
  <2>4. GivenUp' /\ GateHolds' /\ OnActive' /\ NotStarted' /\ FreshNames'
    BY <1>1, <2>1, <2>2 DEF DrawInv, GivenUp, GateHolds, OnActive, NotStarted, FreshNames
  <2>5. QuarantineIs'
    BY <1>1, <2>1, <2>3 DEF QuarantineIs
  <2>6. Fenced'
    BY <1>1, <1>3, <2>1, <2>3 DEF DrawInv, Fenced
  <2>7. OneWorkerPerDrawing' /\ RunsWhereRecorded'
    BY <1>1, <2>1 DEF DrawInv, OneWorkerPerDrawing, RunsWhereRecorded
  <2>8. QED
    BY <2>4, <2>5, <2>6, <2>7 DEF DrawInv
<1>8. QED
  BY <1>4, <1>5, <1>6, <1>7

\* The inductive invariant, for every number of calls and open documents.
THEOREM LeaseInvariant == ~ExitsOverrun => (Spec => [](QueueInv /\ LockInv /\ DrawInv))
<1> SUFFICES ASSUME ~ExitsOverrun PROVE Spec => [](QueueInv /\ LockInv /\ DrawInv)
  OBVIOUS
<1>1. Init => QueueInv /\ LockInv /\ DrawInv
  BY EmptySeq, LeaseAssumption
     DEF Init, QueueInv, LockInv, Owns, DrawInv, GivenUp, GateHolds, OnActive, Working, QuarantineIs,
         FreshNames, NotStarted, OneWorkerPerDrawing, RunsWhereRecorded, Fenced
<1>2. TypeOK /\ QueueInv /\ LockInv /\ DrawInv /\ [Next]_vars => DrawInv'
  <2> SUFFICES ASSUME TypeOK, QueueInv, LockInv, DrawInv, [Next]_vars PROVE DrawInv'
    OBVIOUS
  <2>1. CASE UNCHANGED vars
    BY <2>1 DEF vars, loopVars, docVars, DrawInv, GivenUp, GateHolds, OnActive, Owns, Working, LiveReads,
         QuarantineIs, FreshNames, NotStarted, OneWorkerPerDrawing, RunsWhereRecorded, Fenced
  <2>2. CASE Next
    BY <2>2, AsksDraws, LoopDraws, WorkerDraws DEF Next, Loop, Asks
  <2>3. QED
    BY <2>1, <2>2
<1>3. QED
  BY <1>1, <1>2, TypeCorrect, QueueKept, LockKept, PTL DEF Spec

\* No two workers are ever on one drawing.
THEOREM OneWorkerPerDrawingHolds == ~ExitsOverrun => (Spec => []OneWorkerPerDrawing)
<1>1. DrawInv => OneWorkerPerDrawing
  BY DEF DrawInv
<1>2. QED
  BY <1>1, LeaseInvariant, PTL

\* A drawing left mid-write is quarantined or out of the registry.
THEOREM FencedHolds == ~ExitsOverrun => (Spec => []Fenced)
<1>1. DrawInv => Fenced
  BY DEF DrawInv
<1>2. QED
  BY <1>1, LeaseInvariant, PTL

\* A read or write runs on the document it was recorded to run on.
THEOREM RunsWhereRecordedHolds == ~ExitsOverrun => (Spec => []RunsWhereRecorded)
<1>1. DrawInv => RunsWhereRecorded
  BY DEF DrawInv
<1>2. QED
  BY <1>1, LeaseInvariant, PTL
===============================================================================
