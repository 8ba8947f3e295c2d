# Verification of Autocad-MCP

TLA+ models of the parts of this server that have to survive concurrency, timeouts and
kills, the TLC configurations that check them on small instances, and proofs of what they
check. Paths below are relative to the repository.

| Module | Models | Checked by | Proved in |
|---|---|---|---|
| `DurableJournal` | operation ids: `backends/operations.py`, `backends/journal_store.py`, `AuditMiddleware` of `server.py` | `MCDurableJournal`, `Journal*.cfg` | `DurableJournal_proofs` |
| `AtMostOnceCall` | what an operation id promises: the abstract specification of `DurableJournal` | the refinement in `JournalRestart.cfg` | `DurableJournal_proofs` |
| `DocumentLease` | the document lock, deadlines, quarantine: `EzdxfBackend._async`, `backends/quarantine.py` | `MCDocumentLease`, `Lease.cfg` | `DocumentLease_proofs` |
| `RevisionLineage` | document ids and revisions across restarts: `backends/lineage.py`, the registry of `backends/ezdxf_backend.py` | `MCRevisionLineage`, `Lineage.cfg` | `RevisionLineage_proofs` |
| `CadBatch` | `cad_batch` of `server.py` over the headless engine's transactions | `MCCadBatch`, `Batch*.cfg` | `CadBatch_proofs` |
| `AtomicSave` | `backends/atomic_write.py` and its recovery | `MCAtomicSave`, `Save.cfg` | `AtomicSave_proofs` |
| `UndoHistory` | undo, redo, restores and checkpoints of one drawing: `backends/ezdxf_checkpoints.py`, `backends/checkpoints.py`, `backends/ezdxf_backend.py` | `MCUndoHistory`, `Undo*.cfg` | `UndoHistory_proofs` |
| `LiveSeat` | the live engine, its one COM thread, document guard, change counter and reused export, with previews and their check: `backends/com_backend.py`, `engineering/changes/preview.py` | `MCLiveSeat`, `Seat*.cfg` | `LiveSeat_proofs` |
| `DrawingRefine` | `drawing_refine` with its revision watch: `engineering/refiner.py`, `engineering/changes/preview.py` | `MCDrawingRefine`, `Refine.cfg` | `DrawingRefine_proofs` |

To check: `tlc -config Lease.cfg MCDocumentLease`; to prove: `tlapm DocumentLease_proofs.tla`, and
so for the other `_proofs` modules.

## 1. The system

An MCP server (`server.py`) offers some 300 tools that draw in CAD documents. It runs on one
of two engines: the *headless* one (`backends/ezdxf_backend.py`, DXF files held in memory by
the ezdxf library) or *COM* (`backends/com_backend.py`, a live AutoCAD). One asyncio loop
serves all clients; each engine call does its blocking work on a worker thread. State that
outlives the process is under one state folder (`ACADMCP_STATE_DIR`), which several server
processes may share.

| Component | State | Operations | What is hard | What makes it correct |
|---|---|---|---|---|
| **Operation journal** (`operations.py`, `journal_store.py`) | bounded memory of records and results; `journal.sqlite3`; a queue of writes | begin (look up, refuse, replay or run), finish, open + sweep + retire, flush, degrade | kills between any two writes; two servers on one file; eviction; a file that refuses writes; answers that invite a retry | an id takes effect once; a retry gets the recorded answer; nothing is called committed that did not land |
| **Document lease** (`_async`, `_gate`, `quarantine.py`) | the document lock (`_DocLock`), `_quarantine`, `_detached_reads`, `_leases` | gate, acquire, submit, time out, cancel, lease finished, lease deadline; the exits new/open/close | a thread cannot be stopped: the lock must follow the worker past the caller's cancellation, and be swapped when it never ends | no two workers on one drawing; a half-written drawing is never handed out again; who queues is answered |
| **Registry and lineage** (`_docs`, `lineage.py`) | open entries, `_issued_high`, one lineage record per path, journal rows | open, save, save-as, new, close, activate | revisions issued after the last save die with the process; foreign programs rewrite files; two files record one id | a revision names one content for ever; losses are reported, and only losses |
| **`cad_batch`** (`server.py`) | its checkpoint, the steps done, the fingerprint and depth before | probe, begin, steps, report, commit or rollback, escape handler | cancellation at any await; steps that drive transactions; workers that outlive their step; other clients | all steps or none; no checkpoint left; the recorded outcome is true |
| **Transactions** (`transaction_*`) | a stack of snapshots per document | begin, commit, rollback | bounded silently by `MAX_UNDO_STACK` | see `cad_batch` |
| **Atomic save** (`atomic_write.py`) | the target, a temporary file, a marker per pid and target | write, verify, replace or copy in place; resolve pending; sweep orphans | kills at every step, in recoveries too; pid reuse; hard links; other programs | the target is never half written for good; a start resolves what died; later writes survive |
| **Checkpoints, undo, redo** (`checkpoints.py`, `ezdxf_checkpoints.py`) | an index and files per lineage, two in-memory stacks, two redo stacks, the undo base | capture, undo, redo, restore, label, evict | the border between memory and store; a budget shared by all lineages and servers; reopening after lost revisions | a row holds what its revision was; undo walks back, redo retraces it, a restore can be undone |
| **COM engine** (`com_backend.py`, `message_filter.py`) | one COM thread and its queue, the bound document, revisions, an edit count per document, one reused export | guarded jobs, `_mutating`, rebind, reuse, cancel, deadline | the operator draws and switches tabs at the same seat; an abandoned job still lands | a revision names one content; a reused export holds our writes |
| **Document guard** (`document_guard.py`) | - | the errors of that guard | checked value stale when used | a job works on the document its client meant |
| **Previews** (`engineering/changes/preview.py`) | the preview a client holds | make, check, watch | fingerprints and revision are read in two jobs | a check that passes holds |
| **Drawing refiner** (`engineering/refiner.py`) | its round, the issues, a transaction, the watch | dry run, critique, repair, re-critique, commit, rollback, cancel | cancellation, workers and reads past their deadline, other clients between its calls, checks that raise | rounds are whole; quality does not fall; a lost foreign edit is named |
| **Set edits** (`set_edits.py`) | a preview by token | preview, apply | the drawing moved in between | applied on what was previewed |
| policy, security, HTTP guard, discovery, session metrics, fault barrier | fixed at start, counters, or test hooks | | | |
| `engineering/*` and the entity helpers | none between calls | algorithms on one drawing within one worker call | numeric, sequential | |

How they interact. A tool call passes `AuditMiddleware._call`, which opens a journal record
(`begin`) on the document that is active, runs the tool, and closes the record (`finish`)
with a state taken from the answer, the exception, or the worker outcomes
(`call_outcomes`) the engine recorded. The tool calls the engine, whose `_async` takes the
document lock and submits a worker. `cad_batch` makes many such calls within its own. A save
goes through `atomic_write_dxf`, then writes the lineage record; `drawing_open` resolves
pending saves of the path, reads the lineage record and asks the journal which revisions were
issued since (`max_revision`, `lost_since_save`). At start a server resolves pending saves and
sweeps the journal rows of dead servers.

The refiner calls the same engine methods as any tool, one locked call after another, inside
a transaction that it opens for each round. An undo, a restore and a commit write rows of the
checkpoint store; a save writes one too. On the live engine there is no such lock: one COM
thread runs the jobs of all calls in their order, and a guard in front of each job compares
AutoCAD's active document, and its count of changes, with what the last job left.

## 2. Plan

Modelled first is what everything else leans on: whether a call takes effect once (journal),
whether its worker is alone on the drawing (lease), what a revision means (lineage), then the
composite operations over both (batch, refiner), the file underneath (save), the history of a
drawing (undo) and the second engine (live seat).

| Step | Checked | Proved |
|---|---|---|
| `DurableJournal`, `AtMostOnceCall` | done | every property of `journal_restart`, the refinement, and `AtMostOnce`, `SettledStays` with one server at a time |
| `DocumentLease` | done | all its safety properties |
| `RevisionLineage` | done | all properties of `lineage` |
| `CadBatch` | done | all its safety properties |
| `AtomicSave` | done | all its invariants |
| `UndoHistory` | done | all its properties |
| `LiveSeat` | done | its types, and all its other properties until a deadline replaces the COM thread |
| `DrawingRefine` | done | all its safety properties |

Left to do, in this order: `RevisionNamesContent` and `PassedCheckHolds` of the live engine with several COM threads;
`LiveRowsUntouched` of the journal with several servers; `CadBatch` with detached reads
(`busy`) and a registry of several documents; `DocumentLease` with closes that save; several
servers on one checkpoint index; `SetEdits`; the live engine's transactions on AutoCAD's UNDO
marks.

## 3. The modules

Common to all: a call, a process, a file or a content is a number or a model value; time is
not modelled - a timer may fire whenever the code has it armed; a kill may come between any
two actions, and an action is what the code does between two awaits, transactions or file
operations that another actor could observe. Operators named `Mutant...` are plausible bugs:
each is compared with the definition after it, and the property it breaks is listed in
`PROJECT.json`. No specification uses them.

### DurableJournal

| State | In the code |
|---|---|
| `up`, `sweep` | the process; the locals of `_sweep` (the owners listed, the rows selected), which lie outside its transaction |
| `conn` | `DurableJournal._connection`; FALSE after `_failed`: memory only |
| `rows` | the row of each client id in `journal.sqlite3` |
| `mem`, `age` | `OperationJournal._records` and `_results`, with their order (an OrderedDict bounded by `maxlen`) |
| `calls` | tool calls between begin and finish, and the workers left by calls that ended `unknown_commit` |
| `attempts`, `applied`, `answered`, `lapsed` | history: the runs of an id, those whose effect landed, those whose final answer was given, and the ids the file could not keep |

`Begin*` is `AuditMiddleware._call` up to the tool: memory first, then, for an id it does not
know, the file in one `BEGIN IMMEDIATE` with the insertion. A call is in the engine at one of
three stages: it *waits* for its first engine call, a worker *works*, or one has *made* what it
was asked and none runs. `Work` and `Return` move it, `Apply` is the effect landing in a drawing
while a worker works, whether or not anyone waits for it. `Finish` is any outcome that
`_result_outcome`, `_kind_outcome` and `_interrupted_state` give at that stage, in memory and then
in the file: they look at the answer and at the last worker outcome recorded under the id, never at
what landed. `Compound` are the requests that await more after an engine call has returned: tools of several
engine calls, batches, bulk writes in slices. Only these can be cut short, or refused with an
answer that says "retry", when something of them has landed. A record's
state `partial` or `quarantined` is handled as `committed` and `failed` are, and is not kept
apart. Ids meet only in the bounded memory, so the instances have one id, and `Other` stands
for the calls that push it out.

Checked: `journal_restart` (three processes, one at a time, a read, a write of one engine call and a
compound tool with all their outcomes, a memory of one record, a failing file, retention) and `journal_shared` (three processes alive together,
writes only, final answers only; it has the two properties that several servers endanger, and
`AtMostOnce`, which for one server at a time is a theorem). Three processes are the least in which a sweep meets a row
of a process that was itself a restart; three attempts are one, its retry, and the retry that
must not be.

`AtMostOnce`, `OneAnswer` and `NoFalseCommit` are what `operation_id` is for. `AtMostOnce` and the
refinement except an id whose request is compound while calls may be told to retry (`MayRepeat`):
its run can be recorded `cancelled` or `refused` though part of it landed, and runs again (section 6).
That a call which *waits* has had no effect, nor any run before it, is no guard of the model but a
part of the invariant that is proved (`WaitsUntouched`). `NoOrphanRow`
says that no client is refused as `in_progress` by a dead server. `SettledStays` is about the
file: a final row is final. `LiveRowsUntouched` is about the sweep with several servers.
`ImplementsAtMostOnce` is the whole life of an id: `StatusOf` maps a row to the status of
`AtMostOnceCall`, which has no servers, file or memory in it.

### DocumentLease

`pc` is a call's coroutine in `_async`, `wk` its worker thread, `fate` what became of a worker
its coroutine left (`_Lease`, `_detached_reads`, the abandoned call of a quarantine), `holder`
and `queue` the *current* `_DocLock`, `on` the target of `_call_target`, `at` the document the
worker really works on, `quar`, `docs` and `active` the fields of the backend. `_reap_quarantine`
is part of every action that asks the gate. A lock swap (`_orphan_lock`) wakes the whole
queue: those calls go to `woken` and ask the new state. `AbandonedCall`'s race between
`set_on_finish` and the worker's end is one atomic choice in the code (`_hook_lock`), so
`LeaseFinished` is enabled once, after both.

Checked by `lease`: three calls of every kind on two open documents. Three are needed for a
holder, one that queues behind it, and one that arrives after a swap.
`OneWorkerPerDrawing` is the reason of the lock; `RunsWhereRecorded` and `WorkerHasLock`, which
is proved and has no run of its own, are what it rests on; `Fenced` is the quarantine; `QueuedIsAnswered` is liveness.

The run assumes that exits end in time (`ExitsOverrun = FALSE`; section 6 has what happens
otherwise).

Not modelled: `document_list`; closing a document that is not the active one; a close that
saves; `EZDXF_CALL_TIMEOUT=0`, under which nothing is ever given up (and `QueuedIsAnswered`
is not promised).

### RevisionLineage

`docs`, `active` and `noted` are the registry (`_docs`, `_active_key`, `_issued_high`), `recs` the
lineage record of each path, `disk` the files, `mem`, `rows` and `queued` the journal as far as
revisions go: the row of *every* call, since a server-generated id's final state is only
queued. A save is two actions, the file and its record, because a kill may come between them.
`Resumed` is `lineage.resolve_open` with the floor of `_revision_high`. A content is named by
the call that made it, so equal contents have equal digests and a foreign program may restore
old bytes. A `drawing_open` that finds other bytes than its record writes a row of its own in a
later step (`JournalChange`, the `external_edit` row), for the document that is active by then.

Checked by `lineage`: three calls on two files (two in flight, kills, foreign writes).
`RevisionNamesContent` and `NeverBehind` speak of what clients were *answered* (`seen`), in
this process or an earlier one. `LossIsReported` is one half of `lost_since_save`; the other,
`LossIsReal`, does not hold (section 6).

Assumptions of that run. Clients name their edits, saves, opens and looks with operation ids
of their own (`Unnamed` holds the rest): without one the final row is queued for the flush
thread, a kill in that window loses the revision that was answered, and the next process may
issue it again - the hazard at `journal_store.py:1075`. A call that changes the active document
runs alone (`Apart`): otherwise a row mixes two documents (`operations.py:398`). And no two files
record one document (`Copies = FALSE`): a document is not saved under a second path while its first
file has a record of it. With two such records both properties fail, in the ways section 6 gives.

Not modelled: closes that save, recovered and DWG opens, more than one unsaved new document,
retention of records, several servers.

### CadBatch

One client's batch, its operation id, and everything that can come between its steps. `pc`
follows `cad_batch`: fingerprint and depth (`probe`), the shielded begin (`open`), the loop
(`step`, `working`), the last progress report, the shielded close, and the `except
BaseException` handler (`escape`). `stack` is `_transaction_stack`. `late` is a worker that
runs on without its coroutine, which was cancelled or met the deadline, and which has the lock (the
lease of `DocumentLease`, in brief: `Served` says when a call gets through): a step's, or that of
the batch's own begin (`OpenOverrun`), commit or rollback (`CloseOverrun`). `record` is what
`AuditMiddleware` records; for a batch whose own begin outran its deadline that is
`unknown_commit` if it raises or is cancelled (`overran`). `said` remembers that a run told the
client, or recorded, that its checkpoint did not open or close as meant: a begin or a close that was
refused or outran its deadline, a rollback that was declined or not verified. `AllOrNothing` and
`NoCheckpointLeft` speak of the other runs only (section 6 says what an overrun leaves).
`callers` and `others` are history.

Checked by `batch`: one or two steps that edit, open, commit or roll back checkpoints
themselves, every `on_error`, sent up to twice, cancelled and overrunning anywhere, with another client's
edit and possibly the caller's own transaction. `MaxStack = 4` is the deepest stack these can
build, so that nothing falls off its end (a hazard of its own). Two steps are the least with
a step done before one that fails; in rollback mode the first failure ends the loop, and a
third step adds nothing but a longer prefix.

`batch_cancel` is a finding: a batch cancelled during its shielded commit is committed,
recorded as cancelled, and drawn again by a retry with the same id. The passing run takes a
client that asked for no progress (section 6).

Not modelled: dry runs; steps that switch documents; a `drawing_info` past its deadline (a
detached read, and the `busy` that follows); the COM engine.

### AtomicSave

One target, its temporary files and markers by pid, and the processes. `disk` holds files and
`target`, `tmp` the names that point to them, because `os.replace` moves a name while an
in-place copy (a target with a second hard link) writes into the file. `passing` and `todo` are the
pass that a start and a `drawing_open` make over the markers (`resolve_pending`): it lists them once,
comes to each once (`Skip`, `Judge`), and goes on whatever becomes of it. `rec` is the recovery it is
at: what `_resolve_marker` read, before it acts on it, and the file it copies `into`. After a
`drawing_open`'s pass, `Sweep` removes the temporary files of dead processes as `_orphan_tmps` does,
which asks for no marker. `ready`, `due` and `spoilt` are history: the processes whose pass at the
start is over; the servers that were dead when a process started, but those its pass failed on;
whether a sweep, or a second recovery of one marker, took away the file that would have finished a copy.

Checked by `save`: two writes - saves of three servers or foreign ones - with two servers
alive at once, kills anywhere, recoveries killed and repeated, linked or not, with a power
loss's orphan temporary file. Two writes are a dead save and what comes after it; four
processes a dead one, one that saves and dies, one that recovers and dies, one that finishes.
`TargetWhole` allows what the docs allow: a hard-linked target torn by a kill, with the
marker and the checked file that will finish it - and, by `spoilt`, the two ways in which the code
loses that file (section 6). `StartRepairs` asks what one pass of a start is good for: of the servers
that were dead by then, no marker is left but those it failed on, and no torn target. The pass is
the code's, made once and not repeated until it is done, so a recovery that settles nothing
violates this. `LiveMarkersStay` and `RecoveryKeeps` are the two ways in which a recovery could do
too much.

The five `Mishaps` the constant names are off in the run (section 6): a pid used again, an
in-place copy that fails without a kill, a foreign write between a recovery's reading and
acting, two saves of one process to one path at once, a marker that is there but cannot be read.

Not modelled: several targets, the `.bak` copy, a marker that cannot be written (the save goes on
without one, `atomic_write.py:394`), an `_unlink` that fails.

### UndoHistory

| State | In the code |
|---|---|
| `rev`, `hist` | the document's revision; the content each revision had (its bytes, in the code nowhere kept as such) |
| `base`, `sha` | `undo_base` and `content_sha` of the entry, each `None`/0 once the revision it was noted for is past |
| `undoStack`, `redoStack` | the in-memory snapshots of `EZDXF_UNDO_DEPTH` |
| `storeRedo`, `parkedRedo` | the entry's redo rows, and the in-memory branches parked with them |
| `begins` | the snapshots of open transactions, with the revision, base and history of their begin |
| `rows`, `s0` | the lineage's index and files (`there`: the file exists); the row `drawing_new` holds back until something else is written |
| `saved` | the file on disk and its lineage record |
| `trail`, `replaced`, `strayed` | history: what undos left on the way here; the row of what a restore replaced; a reopened drawing whose undo base no row tells |

Every tool runs in one worker job under the document's lock, so a call is one action; what
other lineages' captures do to this one's rows (`_evict_budget`) is `Budget`. The target of an
undo is chosen as `_cp_undo_sync` chooses it: in memory while two snapshots are there, then
the newest row below the *effective* revision, `pre_undo` rows and the row whose bytes are the
current ones apart. A content is the revision that drew it; `form` says which of the
serialisations it was saved as, since two saves of one content differ in their digests.

Checked by `undo` (no in-memory steps, the default: undo, restore, save and transactions, four
revisions, two kept rows, kills that lose revisions, eviction by another lineage) and
`undo_redo` (one and two in-memory steps, undo, redo, labels and saves, seven revisions, a
restore whose bytes do not load, a save without a row). Four revisions are two edits and two
undos or restores over them, four rows with two kept are the least that trims; seven revisions
are two edits, undos across the border and back, and redos of both. `RedoRetraces` is an action property with in-memory
steps on; the three invariants of `undo` are about the store. `UndoWalksBack` is the hard one: an undo never returns to
what an earlier undo left.

Not modelled: `checkpoint_list`, previews of checkpoints, two servers writing one index at once
(section 6), the live engine's checkpoints.

### LiveSeat

| State | In the code |
|---|---|
| `active`, `content` | AutoCAD: its `ActiveDocument`; per document, how often the server drew, and the operator edited what a preview listed, or something else |
| `bound`, `rev`, `edits` | `_bound`; the session's revision per document; `_edit_counter`: the count the last job left |
| `executors` | every COM thread so far (the current one last): its queue, the job it runs, the document its guard took |
| `ready` | jobs that ended and whose coroutines the loop has not resumed, in order |
| `call` | the coroutines: where each is, what it saw, how many jobs it had |
| `cache`, `gate` | `_snapshot_cache` and who holds `_snapshot_gate` |
| `promised`, `names`, `answer`, `alone` | history: the preview the client holds, what undisturbed reads saw under which revision, what this step answered, which read had the seat for itself |

A job starts (its guard compares the active document and the edit count, `Guard`) and ends (its
effect lands, the count is taken, `Ended`) in two actions of its thread; its call goes on in an
action of the loop. The kind `choose` is `document_activate`, whose `_rebind` is a second job (`Rebind`). `detail`
is a read that goes on to the reused export: the gate, the key, export job, parse on another
thread, storing unless `_retire_snapshot` came between. `preview` and `check` are the two jobs
of `make_preview` and `check_preconditions`. `Cancel` leaves a job behind that still runs;
`Deadline` abandons the job and replaces the thread, with the jobs queued behind it staying on
the old one.

The operator edits and switches tabs between jobs: what they do *during* one counts as that
job's (`document_guard.py` says so). Each job's write lands at its end.

Checked by `seat`: two calls in flight out of three, of every kind, two documents, one edit and one
switch of the operator, writes and details that are cancelled, previews that outlive their
deadline. Two calls in flight are the least that race; the third is what looks afterwards. `Apart = TRUE` lets
the calls that choose a document run alone, since what two of them do to a write in flight breaks
`RevisionNamesContent` (section 6). A bulk write has two jobs, and `Disturbed = FALSE` keeps other calls and switches out from between
them - because `seat_slices`, a finding, shows what happens otherwise: a switch refuses the
second job, and what the first one drew never moves the revision (`com_backend.py:3241`). Since
`active_document_changed` is retryable (`engineering/errors.py:214`), the refusal invites the
client to draw it again.

`RevisionNamesContent` is about reads that had the seat for themselves; `PassedCheckHolds` about
previews of the document that is checked whose refresh was not refused (`Unseen`: `com_backend.py:3352`
swallows the refusal, and the check goes by what was known before); `ReusedHoldsOurWrites` about the server's own drawing, and only
until a deadline has replaced the COM thread (`OneThread`), for after that it fails with a fourth call.
What they do not say is in section 6.

Not modelled: connecting, documents that close or are renamed, an AutoCAD that restarts,
`UNDO` marks (the live engine's transactions), a counter that cannot be started,
`ApplicationBusyError` and the retry of rejected calls (`message_filter.py`), reads with
`guarded=False`.

### DrawingRefine

| State | In the code |
|---|---|
| `drawing`, `rev`, `stack` | the document: its edits by the round that made them, what a critique would find in it; its revision; `_transaction_stack` |
| `pc`, `issues`, `after`, `round`, `todo`, `rounds`, `leaving` | the coroutine of `refine_drawing` and its locals |
| `expected`, `start`, `last`, `seen` | the dry run's revision; `RevisionWatch` |
| `late`, `owed`, `quar`, `busy` | the engine as `DocumentLease` has it: a repair's worker left with the lock; the request's own begin, commit or rollback left so; the quarantine; a detached read |
| `callers`, `made`, `outside`, `lost`, `blind`, `stray` | history: the caller's own snapshots, the edits of repairs, those of others between our calls, those of them a rollback took away, the first critique that did not cover the drawing, the own begin or commit that landed after the answer |

What a repair does to the findings is any change (`Edited`): the handlers of
`engineering/repairs.py` are many, and the refiner must hold whatever they do. `Reads` is a
critique: the findings, or, where a check raised, some of them and one error. Between any two
calls of the request another client may edit; while a call of ours holds the lock it may not.

Checked by `refine`: an error, a warning, both repairable, two rounds of two edits, one edit of
another client, a guarded or a plain request, with and without a transaction of the caller's,
cancelled where the code has a handler, workers and reads past their deadline, checks that raise,
a begin that declines. The request's own begin, commit and rollbacks outlive their deadline too
(`OwnOverruns`): the request has been answered with an error when the abandoned worker pushes, keeps
or takes back (`OwedEnds`), and `RoundWhole` says exactly what such a begin or commit leaves. Two rounds are the least with one committed and one rolled back; two edits
make a round that is half done; with `MinScores = {95}` the warning alone (92) is below the
threshold, nothing at all is above.

Not modelled: another client's transactions on the shared stack, `document_close` while the
request runs, a commit or rollback whose own worker raises (a snapshot that cannot be read back),
a critique's cancelled read that still has its lease, the fingerprints of the preview (`LiveSeat` has those), the live engine.

## 4. Fairness

* `DocumentLease`: weak fairness of what the event loop does when it is ready - taking a free
  lock, waking, returning a finished worker's answer, firing an armed deadline, releasing a
  finished lease. The deadline that a *queued* call has itself is not assumed, so that
  `QueuedIsAnswered` shows that the lock comes free. Worker threads may hang for ever; an
  exit's may not (`ExitsOverrun = FALSE`).
* `CadBatch`: weak fairness of the batch itself and of the lease's deadline timer
  (`LateOverruns`). The worker a cancelled step left need never end.
* The other six have no fairness: their properties are safety. The refiner may wait for ever
  for the lock of a worker that never ends, as a batch may.

No specification needs strong fairness. `CHECK_DEADLOCK` is off: each system may rest with
its bounded calls, runs or writes used up.

## 5. Proofs

`DurableJournal_proofs.tla` proves, for every number of servers, ids, requests, attempts and
every memory size:

* `TypeCorrect`: `Spec => []TypeOK`, which includes that no memory exceeds `maxlen`.
* `AtMostOnceHolds`: `Spec => []AtMostOnce`, when servers do not share the folder
  (`Shared = FALSE`). With `Retryable = FALSE` it excepts no id but the lost ones.
* `SettledStaysHolds`: `Spec => SettledStays`, under the same assumption, which is needed
  (section 6).

`AtMostOnce` is not inductive: it says nothing of what keeps a second run away. The
strengthening `AtMostOnceInv` says it in eight parts. A run that took effect is the one the
row records, and that row is running or settled, both of which refuse or replay
(`AppliedBlocks`). A call that is refused with "retry" or cancelled while it waits has had no
effect (`WaitsUntouched`), so the id it frees is clean. The row of a call is its own (`CallHasRow`), no two calls have one id
(`OneCall`), and memory, which is asked first, says what the file says (`MemoryAgrees`);
memory starts empty (`FreshMemory`), calls live in live processes (`CallsAreUp`), and there is
one of those at a time (`OneAlive`). The proof has one lemma per action; the lemmas on
`Remember` and `Known` say what the bounded memory keeps and what begin is told. TLC checked
every part on the instance of `journal_restart` before it was proved. `SettledStays` follows
from the same invariant.

And, still under `Shared = FALSE`:

* `NoOrphanRowHolds`, `NoFalseCommitHolds`: `Spec => []NoOrphanRow`, `Spec => []NoFalseCommit`.
* `OneAnswerHolds`: `Spec => []OneAnswer`.
* `JournalImplementsAtMostOnce`: `Spec => ImplementsAtMostOnce`.

`FileInv` is about the file, and unlike `AtMostOnceInv` does not except the ids it lost: a
server on the file remembers what the file says (`MemoryIsFile`), the row of an open call is
its own (`OpenCallOnFile`) and no other's (`OneOpenCall`), a row's owner has been up (`OwnersStarted`), and while a server opens,
each running row's owner is still to visit or the row is selected (`SweepCovers`). The last is
why the sweep leaves no orphan: its list is read once, and no row starts to run while the only
live server opens. So a lookup finds nothing to settle, and what begin is told is the row
itself (`KnownIsFile`).

`AnswerInv` is about answers. One that was given is of the run the row records, and no other
run will be (`AnswersLast`); the row is settled, or it is a running one whose owner no longer uses
the file and so cannot settle it (`IsLast`) - the case of a server that degrades while a call
is under way, answers from memory, and leaves its row to the sweep of the next. A record in
memory is of the run its row records (`MemoryOfRow`), which a degraded server replays from.

For the refinement, `Life(id)` is a step of one id in the journal's own terms; there is one lemma
for each action that takes one, and `LifeIsAmoNext` turns a step of every id into one of
`AtMostOnceCall`.

The assumptions are those of `DurableJournal` (`JournalAssumption`, `NoneAssumption`), which the
runs evaluate.

`DocumentLease_proofs.tla` proves, for every number of calls and every set of documents open at
the start:

* `TypeCorrect`: `Spec => []TypeOK`.
* `WorkerHasLockHolds`: `Spec => []WorkerHasLock`, whatever exits do.
* `OneWorkerPerDrawingHolds`, `FencedHolds`, `RunsWhereRecordedHolds`: `Spec => []OneWorkerPerDrawing`
  and so on, when exits end before their deadline (`~ExitsOverrun`), which is needed (section 6).

Two invariants come first. `QueueInv`: who is in the lock's queue waits, and is there once.
`LockInv`: whoever *owns* a worker, running or leased, is the holder, and a worker runs only with
such an owner or after it was given up. `OneWorkerPerDrawing` needs more, `DrawInv`: what was given
up is a read (detached) or a write (abandoned), never an exit (`GivenUp`, the assumption at work);
while an owner is no exit there is no quarantine (`GateHolds`), and an owner's read or write is on
the active document, which no detached read is on (`OnActive`); a quarantine is an abandoned call's
and of the document that is still active (`QuarantineIs`); a fresh document is on no worker before
its call opened it (`FreshNames`), and a worker that has not started is nowhere (`NotStarted`); and
`OneWorkerPerDrawing`, `Fenced` and `RunsWhereRecorded` themselves, which need each other. The proof
has one lemma for what asks the gate (`AsksDraws`), one for the worker's steps (`WorkerDraws`) and
one for the loop's (`LoopDraws`). The assumption on the constants is `LeaseAssumption`.

`DrawingRefine_proofs.tla` proves, for every set of findings, thresholds, number of rounds, of edits
and of other clients' edits:

* `TypeCorrect`: `Spec => []TypeOK`.
* `RoundsAreWhole`, `QualityNeverFalls`: `Spec => []RoundWhole`, `Spec => []NeverWorse`, when no
  cancellation lands on a commit or on the rollback of a worse round (`ClosesAlone`), which is
  needed (section 6).
* `LossesAreReported`: `Spec => []LostIsReported`, with cancellations anywhere.

`RoundWhole` speaks of the end; `RoundInv` of the way there. A round is `Open` from its begin until its
commit or rollback lands, which may be after the answer (`owed`). In an open one (`OpenRound`) the stack is the
caller's with our snapshot on top, the snapshot is older than the round, and it and the drawing hold
every earlier round whole; outside one (`ClosedRound`) the stack is the caller's and every
round that has an outcome is whole (`Counted`). The edit of a worker that was left is of this round, and the
handler's rollback waits for it (`LateIs`), so the snapshot takes it back too. A call of the
transaction itself that was left is the last thing at work (`OwedIs`), and `StrayRound` says what it
leaves if it was the begin or the commit. `QualityInv` says, of a
request left to itself, what the issues in hand stand for: the drawing between rounds, the snapshot
within one (and while a rollback is still owed), and after the re-critique the drawing again; so what `_regressed` compares is what a
rollback would leave with what a commit would. `WatchInv` sorts other clients' edits: older than the
watch and then in every snapshot, named by an interleaved change, or newer than the last look, which
cannot be while a watched call is under way. A rollback takes away only what is not in the snapshot,
so only what is named. TLC checked the three on the instance of `refine` first. The assumption on
the constants is `RefineAssumption`.

`AtomicSave_proofs.tla` proves, for every number of writes, of servers and of servers alive at once,
with and without hard links, and with foreign writes while a recovery judges (`"race"`):

* `TypeCorrect`: `Spec => []TypeOK`, with all five mishaps.
* `LiveMarkersStayed`: `Spec => []LiveMarkersStay`, when no pid is used again, no save begins while an
  abandoned one of its process works, and a marker that is there can be read (`OneAtATime`).
* `TargetStaysWhole`, `StartsRepair`: `Spec => []TargetWhole`, `Spec => []StartRepairs`, when also copies
  into the target break only by a kill (`CopiesEnd`): the clean-up after an exception removes the file that
  would finish the copy.

Each of these assumptions is needed (section 6). `PidInv` is about the dead: a marker is under its owner's
pid (`MarkerOfKey`), a process that is up has started (`UpStarted`), and whom a recovery judges, or a
process found dead, is dead for good (`RecOfDead`, `DueDead`). Recoveries and lists are of a pass
(`RecPasses`). A start's pass is why `StartRepairs` holds, and not assumed to succeed: while it is under
way, each marker it has to answer for is still listed or at hand (`PassKeeps`), for nobody can make a
marker for the dead, and it ends only when the list has been come to; so none is left (`Repaired`), and
a target that is torn then was torn by a server that has lived since. `LiveInv` adds that a process saves
once at a time, so a marker that goes is the saving process's own or a dead one's. `FileInv` is about
files. A working save's file, marker and step agree (`SaveSteps`); a live process's temporary name is
its working save's, and a process that has not started has none (`TmpOfWork`); no file has two of the
names, and what has a temporary name is not in the target yet (`NamesApart`, `NotYetThere`), a write
without a file has left no trace (`FreshFile`), and a marker that expects a content is beside the file
that holds it (`Expects`). `RecStands` is what makes a recovery safe though it reads first and acts
later: while the temporary name stands, what it read of the marker and of that file still holds, so it
rolls back no copy that could be finished; the files it copies between have no other use (`RecOpen`).
`TornWhy` names the marker, of a dead process, that finishes a torn target, unless its file was taken
(`spoilt`). TLC checked every part on the instance of `save`,
and with `Mishaps = {"race"}`, before it was proved. The assumptions on the constants are
`SaveAssumption` and `NoRecord`.

`CadBatch_proofs.tla` proves, for plans of any length, any number of runs and of other clients' edits:

* `TypeCorrect`: `Spec => []TypeOK`.
* `CommittedHolds`: `Spec => []CommittedIsThere`.
* `AllOrNothingHolds`, `NoCheckpointLeftHolds`: `Spec => []AllOrNothing`, `Spec => []NoCheckpointLeft`,
  when no progress report is sent (section 6 says what a cancelled one does) and the undo stack can
  hold a snapshot of the caller, one of the batch and one of each step (`Deep`:
  `MaxStack >= MaxSteps + 2`; one less and `transaction_begin` drops the caller's snapshot in silence).

`DrawInv` is what a batch has drawn: nothing before its first step (`Fresh`), the edits of the steps
behind as long as none failed (`Drawn`), and a worker that was left is then of an earlier run or a begin,
for a step that is given up or cancelled is no longer a success. `GuardInv` is the checkpoint. Outside the
loop the stack is the caller's and nothing of the batch runs (`Unopened`); within it the snapshot just
above the caller's holds nothing of this run (`Opened`), so that unwinding to `base` gives both back.
`Roomy` counts: each step, and the worker that was left, opens at most one more, so nothing falls off
the end of the stack. Only a run that said that its checkpoint did not hold leaves the invariant, and
the properties claim nothing for it. The assumption on the constants is `BatchAssumption`.

`RevisionLineage_proofs.tla` proves, for every set of files and every number of calls and of calls at
once, with any constants:

* `TypeCorrect`: `Spec => []TypeOK`.

And under the assumptions of the `lineage` run (`Orderly`: no two files
record one document, a call that switches documents runs alone, and only a close or an activation comes
without an id of its own), all three needed (section 3):

* `NamesContentHolds`, `NeverBehindHolds`: `Spec => []RevisionNamesContent`, `Spec => []NeverBehind`.
* `OneEntryHolds`: `Spec => []OneEntryPerDocument`.
* `LossReportedHolds`: `Spec => LossIsReported`.

`RevisionNamesContent` says nothing of a document that is closed, and it is a document that is opened
again that could break it. `IInv` says what is known of such a one, in four parts. `TypeInv` has the
types, and that all revisions are below a bound, without which `Max` in `Resumed` chooses nothing
(`ResumedFacts`). `JournalInv` is the journal's side: a row at work is in the file (`RowKept`), a call
that does not switch documents ends on the document its row was opened on (`BoundTo`), so the row of
each answered edit spans the revision it was answered (`EditRow`). `HomeInv` ties documents to files: one
record each, with the open entry at or past it (`OneRecord`, `FileHome`), a fresh name is nobody's
(`FreshId`). `ContentInv` is the heart: what was told agrees with what is open and recorded (`Agree`),
and is known to the next start, from the record or the journal's file (`SeenDurable`) - so is what a
switching call is about to tell (`DidDurable`) and every entry but the one an edit still runs on
(`EntryDurable`), for their rows are queued or name another document. `FileGrows` says that no row is ever
replaced by one that knows less, `ReopenPast` that a reopening goes past whatever is durable, or stays at
the recorded revision with the recorded bytes. TLC checked every part on the instance of `lineage`
before it was proved. The assumptions on the constants are `LineageAssumption` and `NoneIsApart`.

`UndoHistory_proofs.tla` proves, for every depth of in-memory steps, number of revisions, rows, kept
rows, transactions and serialisations:

* `TypeCorrect`, `RowsHoldTheirRevisionHolds`, `UndoWalksBackHolds`: `Spec => []TypeOK`,
  `Spec => []RowsHoldTheirRevision`, `Spec => []UndoWalksBack`, with all mishaps.
* `RestoreIsUndoneHolds`: `Spec => []RestoreIsUndone`, when no eviction is cut short and every restored
  snapshot loads (`NoneTorn`): a live row without its file cannot be undone to, and the row that a failed
  undo leaves is used by a later restore (section 6).
* `RedoRetracesHolds`: `Spec => RedoRetraces`, when a rollback finds no in-memory steps
  (`NoMemoryRollback`): it leaves those of the edits it took back (section 6).

`TypeInv` has the types and that whatever is noted is of a revision that was. `HistInv` says that rows,
begins, the file and the undo base name contents that agree with what was drawn; `HistSame`, that no
revision that was is given another content, carries it over every step, and over a reopening.
`RestoreInv` follows a restore: the row of what it replaced is the one just behind the revision, and
is none of those that an undo skips (`ReplacedIsNext`). `WalkInv` is why undo walks back. The states that
undos left descend, each undone from below the one before, and the undo base is below them all
(`Descends`, `Walked`); that holds at each begin too, to which a rollback returns (`BeginsWalked`), at the
last save, from which a reopening goes on (`SavedWalked`), and for the rows to redo, whose bases the redo
takes back (`RedoWalked`). `RedoInv` lays the two redo stacks out on the history: each row to redo is a
state of it, preceded by the in-memory branch that was parked with it, one goes on where the one before
ends, and what memory has to redo comes last (`Layout`, `StoreLaid`, `MemoryLaid`). So whichever stack a
redo takes from, it takes the newest. TLC checked each of the four on instances larger than those of the
runs. The attempt to prove `BeginsWalked` showed that a rollback in the model forgot whether its begin
was on a reopened drawing of unknown base; the begin notes that now (`strayed`). The
assumption on the constants is `UndoAssumption`.

`LiveSeat_proofs.tla` proves, for every set of documents, every number of calls in flight and every number
of calls, jobs of a bulk write, edits and tab switches:

* `TypeCorrect`: `Spec => []TypeOK`, with any constants.
* `ReusedHoldsOurWritesHolds`: `Spec => []ReusedHoldsOurWrites`, with any constants.
* `RevisionNamesContentHolds`, `PassedCheckHoldsHolds`: `Spec => [](OneThread => RevisionNamesContent)` and
  `Spec => [](OneThread => PassedCheckHolds)`, when the calls that choose a document run alone, and so do bulk
  writes of several jobs (`Orderly`: `Apart /\ ~Disturbed`). Without either, TLC finds `RevisionNamesContent`
  violated (`seat_slices`, and section 6).

`OneThread` is no assumption on the constants: tools may overrun, and the proofs follow the engine up to the
first deadline that runs out (no thread is ever forgotten: `ThreadsGrow`). Beyond it, with the jobs of an old
thread beside those of the new one, `RevisionNamesContent` and `PassedCheckHolds` are what `seat` checks.

`OneInv` holds with one thread, for all constants. `LineInv` says that a call waits for one thing at a time: no two of the
queued jobs, the running job and the ended ones are of one call, and each is the one its call waits for.
`RunInv` and `CountInv` are what the guard leaves: while a guarded job runs its document is bound and counted,
and no count is ahead of its document. `CacheInv` is the export: what is stored, reported or on its way and
still valid holds what the server drew, and no draw is queued or running beside a stored one.
`SoleInv` needs `Orderly`. A call that has to be alone has the line for itself (`AloneInv`), a job that chooses
or binds a document and was left by its call has nothing around it (`OrphanInv`), a bulk write between its
jobs is still on its document (`DrewInv`) and none of its later jobs is refused (`RefusedInv`), and what waits
in `ready` was read in the bound document (`ReadInv`). The heart is `Known`: what a client was told of a document under a revision
is still there, or the revision has moved past it, or something is about to move it: a count that
the next guard finds changed, or a draw that has landed and whose call has not returned. A draw that its call
has left runs only once the revision has moved past what was told. Every step leaves a fact a fact (`StillKnown`); a read that stood alone
is a new one (`AloneRead`); and two facts under one revision agree where nothing is under way, which is where
both properties look. TLC checked every part on small instances before it was proved, and the failing attempts
gave the model `Apart` and the two disagreements of the live engine that section 6 names with constants.

Model-checked only: `LiveRowsUntouched` and, with several servers (`journal_shared`), the other
properties of the journal, for which the proofs' assumption is essential (`OneAlive`);
`QueuedIsAnswered` and `BatchEnds`, since liveness under fairness and ENABLED are out of the
prover's reach; `RevisionNamesContent` and `PassedCheckHolds` of `LiveSeat` after a deadline; and `RecoveryKeeps`. No module declares a RECURSIVE operator.

## 6. Where the code and its words disagree

Two runs expect a violation: `batch_cancel` and `seat_slices` (above, and under `findings` in
`PROJECT.json`). The others below need constants the passing runs leave out. Each is stated with
the values under which TLC finds it, where a module has it.

Journal and lease:

* A record `cancelled` or `refused` is one in which "nothing was written" (`_NOTHING_WRITTEN`,
  `engineering/errors.py:302`; "nothing ran", `operations.py:73`), and only then is an answer
  retryable (`retryable_for`). But `_interrupted_state` (`server.py:756`) asks only for the *last* worker
  outcome of the id, and `_kind_outcome` only for the kind of the error: a tool of several engine calls that is
  cancelled while it queues for its second one, or refused there because a detached read holds the
  document, is recorded so although the first has landed, and the same id runs again. In the model
  this is `MayRepeat`: with `Reqs = Compound = {tool}` and `ReadOnly = {}`, TLC finds `AtMostOnce` without that exception
  violated. `batch_cancel` shows the same for `cad_batch`.
* A server that remembers a cancelled run of an id asks its memory first and never the file, so
  it runs the id over a final answer that a second live server recorded meanwhile
  (`operations.py:522`). `Servers = {s1, s2}`, `Shared = TRUE`, `Retryable = TRUE`, `MaxAttempts = 3`,
  `MayFail = FALSE`, `ReadOnly = {}`: `SettledStays` is violated.
* An exit that itself outlives its deadline lifts its own quarantine, and the next call runs
  beside it (`ezdxf_backend.py:3252`). `ExitsOverrun = TRUE`, `MaxCalls = 2`, `Opened = {doc1}`:
  `OneWorkerPerDrawing` is violated.

Lineage, batch and save:

* A row's `revision_after` is read when the call ends, its `document_id` when it began: a call
  that changes the active document mixes two documents (`operations.py:398`). `MaxSaved = 1`,
  `InFlight = 1`, `Unnamed = {}`, `Foreign = {}`, `Apart = FALSE`: `LossIsReal` is violated by one
  `drawing_open`.
* "A revision is never issued twice for different content" (`lineage.py:26`) does not hold of a
  document that two files record, which `drawing_save_as` leaves behind (`Copies = TRUE`). The row of a
  `drawing_open` names the document that was active *before* it (`operations.py:398`), so a revision
  the open went up to is in its own path's record only; after a kill, opening the other file goes on
  below it. `Copies = TRUE`, `MaxSaved = 1`, `InFlight = 1`, `Foreign = {}`, `Unnamed = {}`:
  `NeverBehind` is violated. And a kill after the open's record but before its row leaves the revision
  in that record only, where `_revision_high` (`ezdxf_backend.py:2278`) does not look for another path:
  the rest as in `Lineage.cfg`, `Copies = TRUE`: `RevisionNamesContent` is violated.
* The last `report_progress` of a batch is awaited between the handler and the shielded close; a
  cancellation there leaves the checkpoint open (`server.py:6583`). `Requests = {"auto"}`,
  `Ops = {"edit"}`, `MaxRuns = 1`, `MaxOthers = 0`, `Progress = TRUE`: `NoCheckpointLeft` is violated.
* The begin of a batch's checkpoint is shielded so that "the outcome is always known"
  (`server.py:6323`), but not when it outruns its deadline (`ezdxf_backend.py:3053`): the batch raises, or
  runs on as `stop`, and its worker pushes a snapshot (`ezdxf_backend.py:9545`) that nothing closes, on
  which a later bare rollback lands. The client is told of the timeout, not of the snapshot.
  `Requests = {"rollback"}`, `Ops = {"edit"}`, `MaxSteps = 1`, `MaxRuns = 1`, `MaxOthers = 0`,
  `MayCancel = FALSE`: `NoCheckpointLeft` without `~said` is violated so.
* A server restarted under the pid of the dead one (pid 1 in the repository's image) takes the
  dead save's marker for its own (`atomic_write.py:477`). `Together = FALSE`, `MaxStarts = 3`,
  `Mishaps = {"same_pid"}`: `StartRepairs` and `TargetWhole` are violated.
* "A tmp of a dead process beside it that no marker names is deleted" (`atomic_write.py:516`; also `:34`); but
  `_orphan_tmps` skips only what the same pass handled (`:496`), and neither a marker whose resolution raised
  (`:537`) nor one that came after the glob is handled. With the constants of `save`, `TargetWhole`
  without `spoilt` is violated: a `drawing_open` lists no marker, another server dies in the middle of
  an in-place copy, and the sweep takes the checked file its marker still names.
* "A marker of a live process is never touched" (`atomic_write.py:517`); but one that cannot be read is
  removed before it is asked whose it is (`:529`). The rest as in `Save.cfg`, `Mishaps = {"unreadable"}`:
  `LiveMarkersStay` and `TargetWhole` are violated.
* The other mishaps, the rest as in `Save.cfg`. A copy that breaks with an exception leaves a torn target
  and no file: `Mishaps = {"copy_fails"}`, `TargetWhole`. The end of one of two saves of a process takes the
  marker and the name of the other: `Mishaps = {"overlap"}`, `LiveMarkersStay`, `TargetWhole` and
  `StartRepairs`. What another program writes between a recovery's reading and its acting is lost:
  `Mishaps = {"race"}`, `RecoveryKeeps`.

Undo:

* "A second undo keeps walking back and an undo after a restart does not step forward onto the
  state the first undo left" (`ezdxf_checkpoints.py:31`): after a restart that lost revisions, the
  newest row is recognised by its digest but its base is forgotten (`:320`). `MaxRev = 5`,
  `Ops = {"undo", "save"}`, `Mishaps = {"unsaved"}`, `Depths = {0}`, `Keep = 3`:
  `NeverStepsForward` is violated. Across the border of in-memory steps (`EZDXF_UNDO_DEPTH` of 1 or
  more; undo twice, redo twice, undo twice) it steps forward without a restart
  (`ezdxf_backend.py:5757`), which is why `UndoWalksBack` says `depth = 0`.
* `transaction_rollback` leaves the in-memory snapshots of the edits it took back
  (`ezdxf_backend.py:9601`; the mishap `"memory"`).
* An undo whose bytes do not load leaves its `pre_undo` row, which a later restore then uses
  (`ezdxf_checkpoints.py:448`).
* A kill between the unlinking of files and the writing of the index leaves a live row without its
  file (`checkpoints.py:430`; the mishap `"cut"`), and two servers' evictions overwrite each other's
  index (`checkpoints.py:420`, not modelled).

Live seat:

* A reused export may be older than the guard's look: an operator's edit that another call folds
  in while the export is parsed is stored over (`com_backend.py:3942`; `ReusedStandsStill`).
* A write that is cancelled while it runs moves the revision before it lands (`com_backend.py:3246`).
* The refresh before a look is swallowed when the guard refuses it (`com_backend.py:3352`): a check
  then goes by what was known before the operator's switch or edit. `PassedCheckHolds` leaves
  such a check out (`Unseen`).
* `check_preconditions` compares no document id (`engineering/changes/preview.py:410`), and it passes
  between the jobs of a bulk write, whose revision moves at its end (`com_backend.py:7684`).
* After a deadline the abandoned job and the new thread's jobs overlap (`com_backend.py:4102`,
  against `tests/test_cancel_safety_com.py:3`), and what an abandoned write draws later is absorbed
  by the next count (`com_backend.py:3683`). `Docs = {a}`, `Kinds = {"write", "detail", "preview"}`, `Slices = 1`,
  `Cancellable = {}`, `Overrunning = {"preview"}`, `MaxCalls = 4`, `MaxEdits = 0`, `MaxClicks = 0`:
  `ReusedHoldsOurWrites` without its condition `OneThread` is violated. A write is left on the old thread and
  draws during the export of the new one, which is stored.
* `_mutating` bumps the document that is bound when the loop resumes the write (`com_backend.py:3250`), not the one
  it drew into, though the revision "counts this server's own content-changing calls on the document"
  (`com_backend.py:3311`). A write ends while an activation's `_rebind` is in line; the `_rebind` binds another
  document before the loop gets to the write. `Calls = {c1, c2, c3}`, `Kinds = {"write", "choose", "look"}`, `Slices = 1`,
  `Apart = FALSE`, `Cancellable = {}`, `Overrunning = {}`, `MaxCalls = 6`, `MaxEdits = 0`, `MaxClicks = 0`:
  `RevisionNamesContent` is violated. With a tab switch of the operator two calls at once are enough
  (`Calls = {c1, c2}`, `MaxCalls = 5`, `MaxClicks = 1`).
* The second job of `_rebind` adopts a tab the operator chose meanwhile (`com_backend.py:3777`), and
  the loop clears `_transaction_active` after it, for a session that may have a transaction again
  (`com_backend.py:3785`).

Refiner:

* The commit, and the rollback of a round that made things worse, are outside the handler and not
  shielded (`refiner.py:381`), though a cancelled call "must leave no half-applied checkpoint"
  (`tests/test_cancel_rollbacks.py:3`). `CancelAt = {"commit"}`: `RoundWhole` is violated. Where one is
  refused because a read or a quarantine holds the document, the answer says only that, and the
  transaction stays open (`refused`).
* The begin is outside the handler too (`refiner.py:279`). When it outlives its deadline
  (`ezdxf_backend.py:3053`) the request raises, and its worker pushes a snapshot (`ezdxf_backend.py:9545`)
  that nothing closes; a commit that does (`refiner.py:381`) keeps a round of which the client
  has only an error. The rest as in `Refine.cfg`, `CancelAt = {}`, `Mishaps = {"overrun"}`:
  `RoundWhole` without its two cases for `stray` is violated by each.
* A check that raises in the re-critique counts as one error and hides all it would have found, so
  that "without allowing quality to regress" (`refiner.py:176`) fails. `Errors = {e1, e2}`,
  `Warnings = {w1}`, `Repairable = {w1}`, `MaxRounds = 1`, `MaxCalls = 1`, `MaxOthers = 0`,
  `Mishaps = {"check"}`: `NeverRegresses` is violated.
* The rollback after a re-critique that raised is not watched (`refiner.py:328`): an edit of another
  client that it takes away is not among the answer's interleaved changes.
* A preview's plan is made from a critique that is older than the identity it carries.

## 7. What is not modelled

Listed per component in `PROJECT.json`. In short: set edits, two servers on one checkpoint index,
the live engine's connection, checkpoints and transactions (planned, section 2); policy,
configuration, screening and discovery (decided once, or functions of one request); the engineering
algorithms and entity helpers (sequential work within one worker call, most of the repository's
lines: what they draw is a content to the models); benchmarks, plugin, scripts, templates.
