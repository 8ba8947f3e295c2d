----------------------------- MODULE DocumentLease ----------------------------
(***************************************************************************)
(* The document lock of the headless engine (EzdxfBackend._async and what  *)
(* it calls in backends/ezdxf_backend.py, backends/quarantine.py).  Every  *)
(* method runs its blocking body on a worker thread that nothing can stop; *)
(* one lock serialises them, the lock follows the worker, and what outlives *)
(* its deadline is fenced: a read is detached, anything else quarantines   *)
(* the document until an exit replaces it.                                 *)
(*                                                                         *)
(* A step of the event loop runs from one await to the next; steps of the  *)
(* worker threads come between any two of them.  Timers fire at any time.  *)
(***************************************************************************)
EXTENDS Naturals, Sequences, FiniteSets

CONSTANTS
  MaxCalls,       \* bound: how many calls are made
  Opened,         \* the documents open at the start
  ExitsOverrun,   \* may an exit itself outlive its deadline?
  None            \* no call, no document

\* A call is the number it has in the order they are made.
Calls == 1..MaxCalls

ASSUME LeaseAssumption ==
  /\ MaxCalls \in Nat
  /\ None \notin Calls
  /\ Opened \cap (Calls \cup {None}) = {}
  /\ ExitsOverrun \in BOOLEAN

\* "open": drawing_new and drawing_open; "close": drawing_close and document_close
\* of the active document, discarding; "activate": document_activate.
Kinds == {"read", "write", "open", "close", "activate"}

QuarantineExits == {"open", "close"}
DetachedReadExits == QuarantineExits \cup {"activate"}

\* A document is named by the call that opened it.
Docs == Calls \cup Opened

VARIABLES
  kind,      \* the kind of each call made
  pc,        \* its coroutine: "idle", "waiting" (queued on the lock), "woken" (the
             \* lock it queued on was swapped out), "running" (awaits its worker), "over"
  wk,        \* its worker: "none", "queued", "running", "ok" or "failed"
  fate,      \* of a worker its coroutine left: "leased", "detached", "abandoned"
  on,        \* the document a call is recorded to run on (_call_target): provisional
             \* while it queues, taken again with the lock
  at,        \* the document its worker works on
  holder,    \* the call whose worker has the current lock; None - it is free
  queue,     \* the calls queued on the current lock
  quar,      \* the call the document is quarantined for (_quarantine)
  docs,      \* the registry (_docs)
  active     \* the active document (_active_key)

loopVars == <<kind, pc, fate, on, holder, queue>>
docVars == <<docs, active>>
vars == <<loopVars, wk, at, quar, docVars>>

Working(c) == wk[c] \in {"queued", "running"}
Ended(c) == wk[c] \in {"ok", "failed"}

-------------------------------------------------------------------------------
(* The gate and the lock *)

\* _reap_quarantine: an abandoned call that completed lifts its quarantine.
Reaped == IF quar # None /\ wk[quar] = "ok" THEN None ELSE quar

LiveReads == {r \in Calls : fate[r] = "detached" /\ wk[r] = "running"}

\* Plausible bug: the gate asks for a quarantine only.
MutantAdmits(k) == Reaped = None \/ k \in QuarantineExits

\* _gate: a quarantine refuses all but its exits, a detached read every call on
\* the document it reads but the exits.
Admits(k) ==
  /\ Reaped = None \/ k \in QuarantineExits
  /\ k \in DetachedReadExits \/ \A r \in LiveReads : on[r] # active

InQueue(c) == \E n \in 1..Len(queue) : queue[n] = c

\* Plausible bug: a swapped lock leaves its queue asleep.
MutantAwake(p) == p

\* _DocLock.orphan: every call queued on a lock that is swapped out wakes.
Awake(p) == [c \in Calls |-> IF InQueue(c) THEN "woken" ELSE p[c]]

\* Plausible bug: the document taken when the call was made is not taken again.
MutantSubmit(c, p) ==
  /\ holder' = c
  /\ pc' = [p EXCEPT ![c] = "running"]
  /\ wk' = [wk EXCEPT ![c] = "queued"]
  /\ on' = [on EXCEPT ![c] = IF on[c] = None THEN active ELSE on[c]]

\* The lock is taken, and with it the document the call runs on.
Submit(c, p) ==
  /\ holder' = c
  /\ pc' = [p EXCEPT ![c] = "running"]
  /\ wk' = [wk EXCEPT ![c] = "queued"]
  /\ on' = [on EXCEPT ![c] = active]

\* Past the gate: queue on the lock, or take it and submit the worker.  A lock
\* that a live detached read holds is swapped out first.
Join(c) ==
  \/ /\ holder \in LiveReads
     /\ Submit(c, Awake(pc))
     /\ queue' = <<>>
  \/ /\ holder = None /\ queue = <<>>
     /\ Submit(c, pc)
     /\ UNCHANGED queue
  \/ /\ holder \notin LiveReads
     /\ holder # None \/ queue # <<>>
     /\ queue' = Append(queue, c)
     /\ pc' = [pc EXCEPT ![c] = "waiting"]
     /\ on' = [on EXCEPT ![c] = active]
     /\ UNCHANGED <<holder, wk>>

\* The waiter of c is taken out of the lock's queue.
Dequeued(c) ==
  IF ~InQueue(c) THEN queue
  ELSE LET n == CHOOSE m \in 1..Len(queue) : queue[m] = c
       IN  SubSeq(queue, 1, n - 1) \o SubSeq(queue, n + 1, Len(queue))

\* The coroutine ends without a worker.
Leave(c) ==
  /\ pc' = [pc EXCEPT ![c] = "over"]
  /\ queue' = Dequeued(c)
  /\ UNCHANGED <<holder, wk, on>>

-------------------------------------------------------------------------------
(* A call before its worker *)

\* The first gate, before any await.
Invoke(c, k) ==
  /\ pc[c] = "idle"
  /\ \A d \in 1..(c - 1) : pc[d] # "idle"
  /\ kind' = [kind EXCEPT ![c] = k]
  /\ quar' = Reaped
  /\ IF Admits(k) THEN Join(c) ELSE Leave(c)
  /\ UNCHANGED <<fate, at, docVars>>

\* The lock is free for the first of its queue, who asks the gate again.
Acquire(c) ==
  /\ pc[c] = "waiting"
  /\ holder = None
  /\ queue # <<>> /\ Head(queue) = c
  /\ quar' = Reaped
  /\ IF Admits(kind[c]) THEN Submit(c, pc) /\ queue' = Tail(queue) ELSE Leave(c)
  /\ UNCHANGED <<kind, fate, at, docVars>>

\* Woken by a swap: the new state answers, with a refusal or a retry.
Retry(c) ==
  /\ pc[c] = "woken"
  /\ quar' = Reaped
  /\ IF Admits(kind[c]) THEN Join(c) ELSE Leave(c)
  /\ UNCHANGED <<kind, fate, at, docVars>>

\* Cancelled, or out of time, while queued: nothing was acquired.
GiveUp(c) ==
  /\ pc[c] \in {"waiting", "woken"}
  /\ Leave(c)
  /\ UNCHANGED <<kind, fate, at, quar, docVars>>

-------------------------------------------------------------------------------
(* The worker thread *)

Start(c) ==
  /\ wk[c] = "queued"
  /\ wk' = [wk EXCEPT ![c] = "running"]
  /\ at' = [at EXCEPT ![c] = IF kind[c] \in {"read", "write"} THEN active ELSE None]
  /\ UNCHANGED <<loopVars, quar, docVars>>

\* Plausible bug: the quarantined entry stays in the registry.
MutantEvicted == docs

\* _evict_quarantined_document: the quarantined entry leaves the registry.
Evicted == IF quar # None THEN docs \ {active} ELSE docs

\* Plausible bug: the fresh document is registered, and the old one stays active.
MutantRegister(c) ==
  /\ wk[c] = "running"
  /\ kind[c] = "open"
  /\ at[c] = None
  /\ docs' = Evicted \cup {c}
  /\ quar' = None
  /\ at' = [at EXCEPT ![c] = c]
  /\ UNCHANGED <<loopVars, wk, active>>

\* drawing_new, drawing_open: the quarantine is cleared, the fresh document
\* registered and active; its baseline and checkpoint are still to be written.
Register(c) ==
  /\ wk[c] = "running"
  /\ kind[c] = "open"
  /\ at[c] = None
  /\ docs' = Evicted \cup {c}
  /\ active' = c
  /\ quar' = None
  /\ at' = [at EXCEPT ![c] = c]
  /\ UNCHANGED <<loopVars, wk>>

\* _close_document_sync: the active entry goes, another one (the most recent)
\* becomes active.
Close(c) ==
  /\ wk[c] = "running"
  /\ kind[c] = "close"
  /\ wk' = [wk EXCEPT ![c] = "ok"]
  /\ docs' = docs \ {active}
  /\ IF active = None THEN UNCHANGED <<active, quar>>
     ELSE /\ quar' = None
          /\ IF docs' = {} THEN active' = None ELSE active' \in docs'
  /\ UNCHANGED <<loopVars, at>>

Activate(c) ==
  /\ wk[c] = "running"
  /\ kind[c] = "activate"
  /\ wk' = [wk EXCEPT ![c] = "ok"]
  /\ active' \in docs
  /\ UNCHANGED <<loopVars, at, quar, docs>>

\* The body ends, or raises on the way.
Finish(c) ==
  /\ wk[c] = "running"
  /\ \/ /\ kind[c] \in {"read", "write"} \/ (kind[c] = "open" /\ at[c] = c)
        /\ wk' = [wk EXCEPT ![c] = "ok"]
     \/ wk' = [wk EXCEPT ![c] = "failed"]
  /\ UNCHANGED <<loopVars, at, quar, docVars>>

-------------------------------------------------------------------------------
(* A call after its worker was submitted *)

\* The worker ended, or never started and cannot any more: the lock is released
\* with the answer, the error or the cancellation.
Return(c) ==
  /\ pc[c] = "running"
  /\ ~(wk[c] = "running")
  /\ pc' = [pc EXCEPT ![c] = "over"]
  /\ wk' = [wk EXCEPT ![c] = IF wk[c] = "queued" THEN "none" ELSE wk[c]]
  /\ holder' = None
  /\ UNCHANGED <<kind, fate, on, queue, at, quar, docVars>>

\* Cancelled while the worker runs: the lock passes to the worker.
Cancel(c) ==
  /\ pc[c] = "running"
  /\ wk[c] = "running"
  /\ pc' = [pc EXCEPT ![c] = "over"]
  /\ fate' = [fate EXCEPT ![c] = "leased"]
  /\ UNCHANGED <<kind, on, holder, queue, wk, at, quar, docVars>>

\* The original deadline, the caller waiting or cancelled, finds the worker
\* alive.  A read is detached: it keeps the lock unless somebody queues on it.
\* Anything else is abandoned with its lock, and the document quarantined.
Overrun(c) ==
  /\ pc[c] = "running" \/ fate[c] = "leased"
  /\ wk[c] = "running"
  /\ ExitsOverrun \/ kind[c] \in {"read", "write"}
  /\ LET p == [pc EXCEPT ![c] = "over"] IN
       \/ /\ kind[c] = "read"
          /\ fate' = [fate EXCEPT ![c] = "detached"]
          /\ IF queue = <<>> THEN pc' = p /\ UNCHANGED <<holder, queue>>
             ELSE pc' = Awake(p) /\ holder' = None /\ queue' = <<>>
          /\ UNCHANGED quar
       \/ /\ kind[c] # "read"
          /\ fate' = [fate EXCEPT ![c] = "abandoned"]
          /\ pc' = Awake(p) /\ holder' = None /\ queue' = <<>>
          /\ quar' = c
  /\ UNCHANGED <<kind, on, wk, at, docVars>>

\* _lease_finished: the worker that kept the lock has ended; the lock is
\* released unless it was swapped out.
LeaseFinished(c) ==
  /\ fate[c] \in {"leased", "detached"}
  /\ Ended(c)
  /\ pc[c] = "over"
  /\ fate' = [fate EXCEPT ![c] = "none"]
  /\ holder' = IF holder = c THEN None ELSE holder
  /\ UNCHANGED <<kind, pc, on, queue, wk, at, quar, docVars>>

-------------------------------------------------------------------------------
Init ==
  /\ kind = [c \in Calls |-> "read"]
  /\ pc = [c \in Calls |-> "idle"]
  /\ wk = [c \in Calls |-> "none"]
  /\ fate = [c \in Calls |-> "none"]
  /\ on = [c \in Calls |-> None]
  /\ at = [c \in Calls |-> None]
  /\ holder = None
  /\ queue = <<>>
  /\ quar = None
  /\ docs = Opened
  /\ IF Opened = {} THEN active = None ELSE active \in Opened

Loop(c) == Acquire(c) \/ Retry(c) \/ Return(c) \/ Overrun(c) \/ LeaseFinished(c)

Worker(c) == Start(c) \/ Register(c) \/ Close(c) \/ Activate(c) \/ Finish(c)

Next ==
  \E c \in Calls :
    \/ \E k \in Kinds : Invoke(c, k)
    \/ GiveUp(c) \/ Cancel(c)
    \/ Loop(c) \/ Worker(c)

\* The event loop runs what is ready and fires its timers; a worker thread may
\* hang for ever - but an exit's, which ends in time unless ExitsOverrun.
Fairness ==
  \A c \in Calls :
    /\ WF_vars(Acquire(c)) /\ WF_vars(Retry(c)) /\ WF_vars(Return(c))
    /\ WF_vars(Overrun(c)) /\ WF_vars(LeaseFinished(c))
    /\ WF_vars(kind[c] \in DetachedReadExits /\ Worker(c))

Spec == Init /\ [][Next]_vars /\ Fairness

-------------------------------------------------------------------------------
(* Properties *)

\* Every lease, worker and call record stays in its set.
TypeOK ==
  /\ kind \in [Calls -> Kinds]
  /\ pc \in [Calls -> {"idle", "waiting", "woken", "running", "over"}]
  /\ wk \in [Calls -> {"none", "queued", "running", "ok", "failed"}]
  /\ fate \in [Calls -> {"none", "leased", "detached", "abandoned"}]
  /\ on \in [Calls -> Docs \cup {None}]
  /\ at \in [Calls -> Docs \cup {None}]
  /\ holder \in Calls \cup {None}
  /\ queue \in Seq(Calls)
  /\ quar \in Calls \cup {None}
  /\ docs \subseteq Docs
  /\ active \in docs \cup {None}

\* No two worker threads are ever on one drawing: neither through a cancelled
\* call, nor a swapped lock, nor a detached read, nor a fresh document.
OneWorkerPerDrawing ==
  \A c, d \in Calls :
    (wk[c] = "running" /\ wk[d] = "running" /\ at[c] = at[d] /\ at[c] # None) => c = d

\* The lease follows the worker: a worker that was not given up has the lock.
WorkerHasLock ==
  \A c \in Calls : (Working(c) /\ fate[c] \notin {"detached", "abandoned"}) => holder = c

\* A drawing that an abandoned call left mid-write is quarantined or out of the
\* registry, so that nobody is ever handed it again.
Fenced ==
  \A c \in Calls :
    (fate[c] = "abandoned" /\ wk[c] # "ok" /\ at[c] # None) => at[c] \notin docs \/ quar = c

\* A call runs on the document it was recorded to run on, which is what the gate
\* goes by when it refuses the document of a detached read.
RunsWhereRecorded ==
  \A c \in Calls : (wk[c] = "running" /\ kind[c] \in {"read", "write"}) => at[c] = on[c]

\* A call that queues is answered, though no worker need ever end and though its
\* own deadline is not what answers it.
QueuedIsAnswered ==
  \A c \in Calls : pc[c] \in {"waiting", "woken"} ~> pc[c] \in {"running", "over"}
===============================================================================
