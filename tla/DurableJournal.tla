---------------------------- MODULE DurableJournal ----------------------------
(***************************************************************************)
(* The durable operation journal for client-supplied operation ids:        *)
(* backends/journal_store.py over backends/operations.py, driven by        *)
(* server.py's AuditMiddleware.  Server processes come and go on one state *)
(* folder; each keeps a bounded memory of its records in front of one      *)
(* SQLite file.  The file's row of an id is written in the transaction     *)
(* that looked it up, before the call runs, and its final state before the *)
(* call returns.  A kill may come between any two steps.                   *)
(***************************************************************************)
EXTENDS Naturals, Sequences, FiniteSets

CONSTANTS
  Servers,      \* server processes; each starts once, a restart is another one
  Ids,          \* the operation ids clients send
  Reqs,         \* requests (tool and arguments, as request_hash tells them apart)
  ReadOnly,     \* the requests of read-only tools
  Compound,     \* those that await more after an engine call: several engine calls,
                \* a checkpoint between them, slices of a live drawing
  MaxAttempts,  \* bound: how often one id is run at most
  MaxLen,       \* records a process keeps in memory (OperationJournal.maxlen)
  Shared,       \* may two servers be alive on the folder at once?
  Retryable,    \* may a call be refused with an answer that says "retry"?
  Retention,    \* do ended rows pass JOURNAL_RETAIN_DAYS while we look?
  MayFail,      \* may SQLite refuse a read or a write?
  None,         \* no record
  Other         \* stands for a server-generated id in the memory's order

ASSUME JournalAssumption ==
  /\ ReadOnly \subseteq Reqs /\ Compound \subseteq Reqs
  /\ MaxAttempts \in Nat \ {0}
  /\ MaxLen \in Nat \ {0}
  /\ {Shared, Retryable, Retention, MayFail} \subseteq BOOLEAN
  /\ Other \notin Ids

Attempts == 1..MaxAttempts

\* "partial" and "quarantined" are kept and replayed exactly as these are.
Replayable == {"committed", "failed", "refused"}

States == Replayable \cup {"running", "cancelled", "unknown_commit"}

\* A record, in memory or as a row: "has" - an answer is stored with it;
\* "owner" - the server_instance that wrote it; "att" - which run it records.
Record == [state : States, req : Reqs, att : Attempts, owner : Servers, has : BOOLEAN]

ASSUME NoneAssumption == None \notin Record

\* Where a call is in the engine: "waits" - no engine call of it has touched the
\* document; "works" - a worker of it runs; "made" - one returned, none runs.
Stages == {"waits", "works", "made"}

Call == [at : Servers, id : Ids, att : Attempts, req : Reqs, stage : Stages, open : BOOLEAN]

VARIABLES
  up,           \* each process: "down", "opening" (in _open), "up" or "dead"
  conn,         \* does its journal use the file (else: memory only, degraded)?
  sweep,        \* the locals of _sweep: owners still to visit, rows selected
  rows,         \* journal.sqlite3: the row of each client id
  mem,          \* OperationJournal._records / _results of each process
  age,          \* the order of those records, oldest first
  calls,        \* calls running; open = FALSE: the caller left, its worker did not
  attempts,     \* how often each id was run
  applied,      \* the runs of each id whose effect landed in a drawing
  answered,     \* the runs of each id whose final answer a client was given
  lapsed        \* ids the file could not keep: retired, or run while degraded

vars == <<up, conn, sweep, rows, mem, age, calls, attempts, applied, answered, lapsed>>

-------------------------------------------------------------------------------
(* Processes and records *)

Alive(s) == up[s] \in {"opening", "up"}

NoSweep == [owners |-> {}, picked |-> {}]

\* Plausible bug: a dead owner's write is assumed to have landed.
MutantReconciled(r) == [r EXCEPT !.state = IF r.req \in ReadOnly THEN "cancelled" ELSE "committed"]

\* A row whose owner died mid-call: what _sweep and _lookup make of it.
Reconciled(r) == [r EXCEPT !.state = IF r.req \in ReadOnly THEN "cancelled" ELSE "unknown_commit"]

\* The row as _lookup answers it: a dead owner's running row is settled first.
Seen(s, id) ==
  LET r == rows[id] IN
    IF r = None THEN None
    ELSE IF r.state = "running" /\ r.owner # s /\ ~Alive(r.owner) THEN Reconciled(r) ELSE r

\* Plausible bug: only this process's memory is asked.
MutantKnown(s, id) == mem[s][id]

\* Memory is asked first, the file only for an id memory does not hold.
Known(s, id) ==
  IF mem[s][id] # None THEN mem[s][id]
  ELSE IF conn[s] THEN Seen(s, id) ELSE None

\* The file as _lookup leaves it.
RowsAfterLookup(s, id) ==
  IF mem[s][id] = None /\ conn[s] THEN [rows EXCEPT ![id] = Seen(s, id)] ELSE rows

\* Plausible bug: an unknown_commit is free to run again, as a cancelled one is.
MutantRefuses(k, req) == k # None /\ (k.req # req \/ k.state = "running")

\* begin's refusals: different_request, in_progress and requires_reconcile.
Refuses(k, req) == k # None /\ (k.req # req \/ k.state \in {"running", "unknown_commit"})

\* Plausible bug: a failure is not replayed, it is tried again.
MutantReplays(k, req) == k # None /\ k.req = req /\ k.state = "committed"

Replays(k, req) == k # None /\ k.req = req /\ k.state \in Replayable /\ k.has

\* q without the key k; the records of server-generated ids are all distinct.
Without(q, k) ==
  LET at == {n \in 1..Len(q) : q[n] = k} IN
    IF at = {} \/ k = Other THEN q
    ELSE LET p == CHOOSE n \in at : TRUE IN SubSeq(q, 1, p - 1) \o SubSeq(q, p + 1, Len(q))

\* Plausible bug: one record too many is kept.
MutantOverfull(q) == Len(q) > MaxLen + 1

Overfull(q) == Len(q) > MaxLen

\* _store: the record goes to the young end; past maxlen the oldest is dropped,
\* and its result with it.
Remember(s, k, rec) ==
  LET longer == Append(Without(age[s], k), k)
      out == IF Overfull(longer) THEN Head(longer) ELSE None
  IN /\ age' = [age EXCEPT ![s] = IF Overfull(longer) THEN Tail(longer) ELSE longer]
     /\ mem' = [mem EXCEPT ![s] = [id \in Ids |->
                  IF id = out THEN None ELSE IF id = k THEN rec ELSE mem[s][id]]]

-------------------------------------------------------------------------------
(* Opening the file: _open, _sweep, _retire *)

\* A process starts; the first read of the sweep lists the owners of running
\* rows.  An open that fails for good (open_failed) leaves memory only.
Open(s) ==
  /\ up[s] = "down"
  /\ Shared \/ \A t \in Servers : ~Alive(t)
  /\ \/ /\ up' = [up EXCEPT ![s] = "opening"]
        /\ conn' = [conn EXCEPT ![s] = TRUE]
        /\ sweep' = [sweep EXCEPT ![s].owners =
                       {t \in Servers : \E id \in Ids :
                          rows[id] # None /\ rows[id].state = "running" /\ rows[id].owner = t}]
     \/ /\ MayFail
        /\ up' = [up EXCEPT ![s] = "up"]
        /\ UNCHANGED <<conn, sweep>>
  /\ UNCHANGED <<rows, mem, age, calls, attempts, applied, answered, lapsed>>

\* Plausible bug: an owner that was alive when first listed is skipped for good.
MutantDead(t) == up[t] = "down"

\* Plausible bug: every other owner is taken for dead.
MutantAllDead(t) == up[t] # "down"

Dead(t) == ~Alive(t)

\* The next owner of the list: a live one is passed over, a dead one's running
\* rows are selected - outside the transaction that will mark them.
SweepPick(s) ==
  /\ up[s] = "opening"
  /\ sweep[s].picked = {}
  /\ \E t \in sweep[s].owners :
       sweep' = [sweep EXCEPT ![s] =
         [owners |-> sweep[s].owners \ {t},
          picked |-> {id \in Ids : Dead(t) /\ rows[id] # None
                                   /\ rows[id].state = "running" /\ rows[id].owner = t}]]
  /\ UNCHANGED <<up, conn, rows, mem, age, calls, attempts, applied, answered, lapsed>>

\* UPDATE ... WHERE seq = ? AND state = 'running', for every row selected.
SweepMark(s) ==
  /\ up[s] = "opening"
  /\ sweep[s].picked # {}
  /\ rows' = [id \in Ids |->
                IF id \in sweep[s].picked /\ rows[id] # None /\ rows[id].state = "running"
                  THEN Reconciled(rows[id]) ELSE rows[id]]
  /\ sweep' = [sweep EXCEPT ![s].picked = {}]
  /\ UNCHANGED <<up, conn, mem, age, calls, attempts, applied, answered, lapsed>>

\* The sweep is over; rows that ended longer ago than the retention are deleted.
OpenDone(s) ==
  /\ up[s] = "opening"
  /\ sweep[s] = NoSweep
  /\ up' = [up EXCEPT ![s] = "up"]
  /\ \E old \in SUBSET {id \in Ids : rows[id] # None /\ rows[id].state # "running"} :
       /\ Retention \/ old = {}
       /\ rows' = [id \in Ids |-> IF id \in old THEN None ELSE rows[id]]
       /\ lapsed' = lapsed \cup old
  /\ UNCHANGED <<conn, sweep, mem, age, calls, attempts, applied, answered>>

-------------------------------------------------------------------------------
(* begin *)

\* A refusal: the transaction holds at most the reconcile, which is committed.
BeginRefused(s, id, req) ==
  /\ up[s] = "up"
  /\ Refuses(Known(s, id), req)
  /\ rows' = RowsAfterLookup(s, id)
  /\ UNCHANGED <<up, conn, sweep, mem, age, calls, attempts, applied, answered, lapsed>>

\* The recorded answer goes out again; nothing is recorded.
BeginReplayed(s, id, req) ==
  /\ up[s] = "up"
  /\ ~Refuses(Known(s, id), req)
  /\ Replays(Known(s, id), req)
  /\ answered' = [answered EXCEPT ![id] = @ \cup {Known(s, id).att}]
  /\ UNCHANGED <<up, conn, sweep, rows, mem, age, calls, attempts, applied, lapsed>>

\* A new record in memory and, in the lookup's own transaction, its running
\* row (the UPSERT replaces an earlier run's row in place).
BeginRuns(s, id, req) ==
  /\ up[s] = "up"
  /\ ~Refuses(Known(s, id), req)
  /\ ~Replays(Known(s, id), req)
  /\ attempts[id] < MaxAttempts
  /\ LET att == attempts[id] + 1
         rec == [state |-> "running", req |-> req, att |-> att, owner |-> s, has |-> FALSE]
     IN /\ Remember(s, id, rec)
        /\ rows' = IF conn[s] THEN [rows EXCEPT ![id] = rec] ELSE rows
        /\ calls' = calls \cup {[at |-> s, id |-> id, att |-> att, req |-> req,
                                 stage |-> "waits", open |-> TRUE]}
        /\ attempts' = [attempts EXCEPT ![id] = att]
  /\ lapsed' = IF conn[s] THEN lapsed ELSE lapsed \cup {id}
  /\ UNCHANGED <<up, conn, sweep, applied, answered>>

\* A call without a client id takes a place in the bounded memory; its row is
\* another one (see RevisionLineage).
BeginOther(s) ==
  /\ up[s] = "up"
  /\ Remember(s, Other, None)
  /\ UNCHANGED <<up, conn, sweep, rows, calls, attempts, applied, answered, lapsed>>

-------------------------------------------------------------------------------
(* The call itself, and finish *)

MoveTo(c, stage) ==
  /\ calls' = (calls \ {c}) \cup {[c EXCEPT !.stage = stage]}
  /\ UNCHANGED <<up, conn, sweep, rows, mem, age, attempts, applied, answered, lapsed>>

\* An engine call's turn comes: the call's first, or a compound tool's next one.
Work(c) ==
  /\ c.open
  /\ c.stage = "waits" \/ (c.stage = "made" /\ c.req \in Compound)
  /\ MoveTo(c, "works")

\* The worker returns or raises, while its caller waits for it.
Return(c) == c.open /\ c.stage = "works" /\ MoveTo(c, "made")

\* The write lands in the drawing; a worker whose caller has left still writes.
Apply(c) ==
  /\ c.stage = "works"
  /\ c.req \notin ReadOnly
  /\ c.att \notin applied[c.id]
  /\ applied' = [applied EXCEPT ![c.id] = @ \cup {c.att}]
  /\ UNCHANGED <<up, conn, sweep, rows, mem, age, calls, attempts, answered, lapsed>>

Landed(c) == c.att \in applied[c.id]

\* Plausible bug: a call cut short has "written nothing", whatever its worker does.
MutantInterrupted(c) == "cancelled"

\* A call cut short by a cancellation or a deadline: _worker_outcome tells only
\* whether the last engine call's worker ran on, not what earlier ones wrote.
Interrupted(c) ==
  IF c.stage = "works" /\ c.req \notin ReadOnly THEN "unknown_commit" ELSE "cancelled"

\* An engine call of it runs or is still to come: what a cancellation or a
\* refusal that says "retry" (busy, another document, AutoCAD busy) can meet.
Awaits(c) == c.stage # "made" \/ c.req \in Compound

\* The states AuditMiddleware closes the call with; a worker that returned
\* without an error has made its write.
Outcome(c, state) ==
  \/ state = "committed" /\ c.stage = "made" /\ (c.req \in ReadOnly \/ Landed(c))
  \/ state = "failed" /\ (c.stage # "works" \/ c.req \in ReadOnly)
  \/ state = "refused" /\ c.stage # "works"
  \/ state = Interrupted(c) /\ Awaits(c)

\* An answer that says "retry" is not kept; neither is that of a call cut short.
KeepsAnswer(c, state, has) ==
  \/ state \in {"committed", "failed"} /\ has
  \/ state = "refused" /\ (has \/ (Retryable /\ Awaits(c)))
  \/ state \in {"cancelled", "unknown_commit"} /\ ~has

Ended(r, c, state, has) == [r EXCEPT !.state = state, !.att = c.att, !.has = has]

\* The final state, in memory (if the record is still this run's) and then in
\* the file (WHERE operation_id = ? AND server_instance = ?), before the answer
\* leaves.  After an unknown_commit the worker may still be writing.
Finish(c, state, has) ==
  /\ c.open
  /\ Outcome(c, state)
  /\ KeepsAnswer(c, state, has)
  /\ (state = "cancelled" => Retryable)
  /\ mem' = IF mem[c.at][c.id] # None /\ mem[c.at][c.id].att = c.att
              THEN [mem EXCEPT ![c.at][c.id] = Ended(mem[c.at][c.id], c, state, has)]
              ELSE mem
  /\ rows' = IF conn[c.at] /\ rows[c.id] # None /\ rows[c.id].owner = c.at
               THEN [rows EXCEPT ![c.id] = Ended(rows[c.id], c, state, has)]
               ELSE rows
  /\ calls' = (calls \ {c}) \cup
              (IF state = "unknown_commit" THEN {[c EXCEPT !.open = FALSE]} ELSE {})
  /\ answered' = IF has THEN [answered EXCEPT ![c.id] = @ \cup {c.att}] ELSE answered
  /\ UNCHANGED <<up, conn, sweep, age, attempts, applied, lapsed>>

-------------------------------------------------------------------------------
(* Failures *)

\* SQLite refuses a statement: the journal goes on in memory, for good.
Degrade(s) ==
  /\ MayFail
  /\ Alive(s)
  /\ conn[s]
  /\ conn' = [conn EXCEPT ![s] = FALSE]
  /\ up' = [up EXCEPT ![s] = "up"]
  /\ sweep' = [sweep EXCEPT ![s] = NoSweep]
  /\ UNCHANGED <<rows, mem, age, calls, attempts, applied, answered, lapsed>>

\* The process ends, by a kill or a shutdown: its workers are daemon threads,
\* so nothing of it goes on.
Die(s) ==
  /\ Alive(s)
  /\ up' = [up EXCEPT ![s] = "dead"]
  /\ conn' = [conn EXCEPT ![s] = FALSE]
  /\ sweep' = [sweep EXCEPT ![s] = NoSweep]
  /\ mem' = [mem EXCEPT ![s] = [id \in Ids |-> None]]
  /\ age' = [age EXCEPT ![s] = <<>>]
  /\ calls' = {c \in calls : c.at # s}
  /\ UNCHANGED <<rows, attempts, applied, answered, lapsed>>

-------------------------------------------------------------------------------
Init ==
  /\ up = [s \in Servers |-> "down"]
  /\ conn = [s \in Servers |-> FALSE]
  /\ sweep = [s \in Servers |-> NoSweep]
  /\ rows = [id \in Ids |-> None]
  /\ mem = [s \in Servers |-> [id \in Ids |-> None]]
  /\ age = [s \in Servers |-> <<>>]
  /\ calls = {}
  /\ attempts = [id \in Ids |-> 0]
  /\ applied = [id \in Ids |-> {}]
  /\ answered = [id \in Ids |-> {}]
  /\ lapsed = {}

Begin(s) ==
  \E id \in Ids, req \in Reqs :
    BeginRefused(s, id, req) \/ BeginReplayed(s, id, req) \/ BeginRuns(s, id, req)

End(c) ==
  \/ Work(c) \/ Return(c) \/ Apply(c)
  \/ \E state \in States, has \in BOOLEAN : Finish(c, state, has)

Next ==
  \/ \E s \in Servers :
       \/ Open(s) \/ SweepPick(s) \/ SweepMark(s) \/ OpenDone(s)
       \/ Begin(s) \/ BeginOther(s)
       \/ Degrade(s) \/ Die(s)
  \/ \E c \in calls : End(c)

Spec == Init /\ [][Next]_vars

-------------------------------------------------------------------------------
(* Properties *)

\* The variables hold what the code keeps, and no memory holds more than maxlen.
TypeOK ==
  /\ up \in [Servers -> {"down", "opening", "up", "dead"}]
  /\ conn \in [Servers -> BOOLEAN]
  /\ sweep \in [Servers -> [owners : SUBSET Servers, picked : SUBSET Ids]]
  /\ rows \in [Ids -> Record \cup {None}]
  /\ mem \in [Servers -> [Ids -> Record \cup {None}]]
  /\ age \in [Servers -> Seq(Ids \cup {Other})]
  /\ \A s \in Servers : Len(age[s]) <= MaxLen
  /\ calls \subseteq Call
  /\ attempts \in [Ids -> 0..MaxAttempts]
  /\ applied \in [Ids -> SUBSET Attempts]
  /\ answered \in [Ids -> SUBSET Attempts]
  /\ lapsed \subseteq Ids

\* A compound request may be told "retry" after an earlier engine call of it
\* landed: the record says that nothing was written, and its id runs again.
MayRepeat(id) == Retryable /\ rows[id] # None /\ rows[id].req \in Compound

\* A request named by a client's id takes effect at most once, whatever is
\* killed, evicted, retried or restarted - unless the file lost the id, or the
\* request is a compound one in a world where calls are told to retry.
AtMostOnce ==
  \A id \in Ids \ lapsed : ~MayRepeat(id) => \A a, b \in applied[id] : a = b

\* Every final answer a client gets for an id comes from one and the same run:
\* the one it is told after a retry or a restart is the one that was recorded.
\* (A read-only call answered from memory only may be made again.)
OneAnswer ==
  \A id \in Ids \ lapsed :
    (rows[id] # None /\ rows[id].req \notin ReadOnly) => \A a, b \in answered[id] : a = b

\* A row never says "committed" of a run whose write did not land: a lost final
\* state or a sweep may only make it unknown ("never a false committed").
NoFalseCommit ==
  \A id \in Ids :
    (rows[id] # None /\ rows[id].state = "committed" /\ rows[id].req \notin ReadOnly)
      => rows[id].att \in applied[id]

\* With one server at a time: once a server is up on the file, a running row is
\* one of its own calls - no client is refused as in_progress by a dead server.
NoOrphanRow ==
  \A s \in Servers, id \in Ids :
    (up[s] = "up" /\ conn[s] /\ rows[id] # None /\ rows[id].state = "running")
      => rows[id].owner = s

\* A settled row: its answer is recorded, or it is to be reconciled.
Settled(r) == r # None /\ (r.state = "unknown_commit" \/ (r.state \in Replayable /\ r.has))

\* A settled row is never replaced by another run of its id: it stays as it is
\* until the retention deletes it.
SettledStays ==
  [][\A id \in Ids : (Settled(rows[id]) /\ id \notin lapsed') => rows'[id] = rows[id]]_vars

\* The running row of a live server changes only when its own call ends there.
LiveRowsUntouched ==
  [][\A id \in Ids :
       (rows[id] # None /\ rows[id].state = "running" /\ Alive(rows[id].owner)
        /\ rows'[id] # rows[id])
         => \E c \in calls \ calls' : c.id = id /\ c.at = rows[id].owner]_vars

-------------------------------------------------------------------------------
(* Why AtMostOnce holds with one server at a time: the inductive invariant *)

OneAlive == \A s, t \in Servers : Alive(s) /\ Alive(t) => s = t

\* Only a live process uses the file, and memory starts empty.
FreshMemory ==
  \A s \in Servers :
    /\ conn[s] => Alive(s)
    /\ up[s] # "up" => \A id \in Ids : mem[s][id] = None

CallsAreUp == \A c \in calls : up[c.at] = "up"

\* What memory holds of an id is what the file holds.
MemoryAgrees ==
  \A s \in Servers, id \in Ids \ lapsed :
    (conn[s] /\ mem[s][id] # None) => mem[s][id] = rows[id]

\* The row of a call is its own, and says that it is running or unknown.
CallHasRow ==
  \A c \in calls :
    c.id \notin lapsed =>
      /\ rows[c.id] # None
      /\ rows[c.id].att = c.att /\ rows[c.id].req = c.req /\ rows[c.id].owner = c.at
      /\ rows[c.id].state \in {"running", "unknown_commit"}
      /\ c.open => rows[c.id].state = "running"

OneCall == \A c, d \in calls : (c.id = d.id /\ c.id \notin lapsed) => c = d

\* A run that took effect is the one its row records, and the row blocks another.
AppliedBlocks ==
  \A id \in Ids \ lapsed : \A a \in applied[id] :
    /\ rows[id] # None
    /\ rows[id].req \notin ReadOnly
    /\ ~MayRepeat(id) => /\ rows[id].att = a
                         /\ rows[id].state = "running" \/ Settled(rows[id])

\* What a refusal or a cancellation may rely on: a call none of whose engine
\* calls has begun has had no effect, and neither has any run before it.
WaitsUntouched ==
  \A c \in calls :
    (c.stage = "waits" /\ c.id \notin lapsed /\ ~MayRepeat(c.id)) => applied[c.id] = {}

\* No effect without a row that blocks another run, no running row without an
\* owner that is alive or will be reconciled: the file alone decides.
AtMostOnceInv ==
  /\ OneAlive /\ FreshMemory /\ CallsAreUp
  /\ MemoryAgrees /\ CallHasRow /\ OneCall /\ AppliedBlocks /\ WaitsUntouched

(* What the other properties take, with one server at a time *)

\* A server that uses the file remembers what the file holds, lapsed or not.
MemoryIsFile ==
  \A s \in Servers, id \in Ids : (conn[s] /\ mem[s][id] # None) => mem[s][id] = rows[id]

\* The file's row of a call under way is its own.
OpenCallOnFile ==
  \A c \in calls :
    (c.open /\ conn[c.at]) =>
      /\ rows[c.id] # None /\ rows[c.id].state = "running"
      /\ rows[c.id].att = c.att /\ rows[c.id].req = c.req /\ rows[c.id].owner = c.at

\* Of the runs of an id under way, one at most is on the file.
OneOpenCall ==
  \A c, d \in calls :
    (c.open /\ d.open /\ conn[c.at] /\ conn[d.at] /\ c.id = d.id) => c = d

OwnersStarted == \A id \in Ids : rows[id] # None => up[rows[id].owner] \in {"up", "dead"}

\* No running row escapes a sweep: its owner is still to visit, or it is selected.
SweepCovers ==
  \A s \in Servers, id \in Ids :
    (up[s] = "opening" /\ rows[id] # None /\ rows[id].state = "running")
      => rows[id].owner \in sweep[s].owners \/ id \in sweep[s].picked

\* Run a of id is the one its row records, and no other will be: the row is
\* settled, or it is a running one that its owner can no longer settle.
IsLast(id, a) ==
  /\ rows[id] # None /\ rows[id].att = a
  /\ Settled(rows[id]) \/ (rows[id].state = "running" /\ ~conn[rows[id].owner])

\* A given answer is that of the last run, as far as a client can tell.
AnswersLast ==
  \A id \in Ids \ lapsed :
    /\ rows[id] = None => answered[id] = {}
    /\ (rows[id] # None /\ rows[id].req \notin ReadOnly) => \A a \in answered[id] : IsLast(id, a)

\* A record in memory is of the run its row records, even where the file failed since.
MemoryOfRow ==
  \A s \in Servers, id \in Ids \ lapsed :
    mem[s][id] # None =>
      /\ rows[id] # None
      /\ rows[id].att = mem[s][id].att /\ rows[id].req = mem[s][id].req
      /\ (mem[s][id].state \in Replayable /\ mem[s][id].has) => IsLast(id, mem[s][id].att)

FileInv ==
  /\ MemoryIsFile /\ OpenCallOnFile /\ OneOpenCall /\ OwnersStarted /\ SweepCovers
  /\ NoOrphanRow /\ NoFalseCommit

AnswerInv == AnswersLast /\ MemoryOfRow

-------------------------------------------------------------------------------
\* The journal implements AtMostOnceCall.
StatusOf(id) ==
  IF id \in lapsed \/ MayRepeat(id) THEN "forgotten"
  ELSE IF rows[id] = None THEN "new"
  ELSE IF rows[id].state = "running" THEN "running"
  ELSE IF rows[id].state = "unknown_commit" THEN "unknown"
  ELSE IF Settled(rows[id]) THEN "done"
  ELSE "new"

Abstract == INSTANCE AtMostOnceCall WITH
  status <- [id \in Ids |-> StatusOf(id)],
  applied <- [id \in Ids |-> id \notin lapsed /\ ~MayRepeat(id) /\ applied[id] # {}]

\* One id's life in the file is that of an at-most-once call: it runs, takes
\* effect once, and ends done, unknown, or free to run again having done nothing.
\* The id of a compound request that may be told to retry carries no promise.
ImplementsAtMostOnce == Abstract!AmoSpec
===============================================================================
