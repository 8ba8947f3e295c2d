-------------------------------- MODULE LiveSeat --------------------------------
(***************************************************************************)
(* The live engine (backends/com_backend.py): one AutoCAD that the operator *)
(* uses too, one session bound to one of its documents, and tool calls that *)
(* are coroutines of one event loop and send their jobs to one COM thread.  *)
(* Each job is guarded: it compares the active document with the bound one, *)
(* and AutoCAD's count of object changes with the one the last job left.    *)
(*                                                                         *)
(* A job starts and ends in two steps; its call goes on when the loop gets  *)
(* to it, in the order the jobs ended.  The operator acts between jobs: an  *)
(* edit made during one counts as that job's (backends/document_guard.py).  *)
(***************************************************************************)
EXTENDS Naturals, FiniteSets, SequencesExt

CONSTANTS
  Docs,          \* the documents open in AutoCAD
  Calls,         \* the calls that can be in flight at once
  Kinds,         \* the tools that are called
  Slices,        \* bound: the jobs of one bulk write (entity_batch_create, entity_delete_many)
  Disturbed,     \* may other calls and tab switches come between the jobs of a bulk write?
  Apart,         \* do the calls that choose a document run alone?
  Cancellable,   \* the tools a client may cancel
  Overrunning,   \* the tools that may outlive COM_CALL_TIMEOUT
  MaxCalls, MaxEdits, MaxClicks,   \* bounds: calls, operator edits, tab switches
  None

\* "write": a _mutating tool; "choose": document_activate (drawing_open, drawing_new);
\* "look": any guarded read; "detail": one that goes on to the reused export
\* (entity_get of a dimension or hatch); "preview", "check": make_preview and
\* check_preconditions.
ToolKinds == {"write", "choose", "look", "detail", "preview", "check"}

ASSUME SeatAssumption ==
  /\ None \notin Docs \cup Calls /\ None \notin Nat /\ Docs # {}
  /\ Kinds \subseteq ToolKinds
  /\ Cancellable \subseteq Kinds /\ Overrunning \subseteq Kinds
  /\ {Disturbed, Apart} \subseteq BOOLEAN
  /\ Slices \in Nat \ {0} /\ {MaxCalls, MaxEdits, MaxClicks} \subseteq Nat

VARIABLES
  active,      \* AutoCAD's ActiveDocument
  content,     \* of each document, how often each part of it changed
  bound,       \* the document of the session (_bound); None
  rev,         \* the revision of each known document
  edits,       \* the change count the last job left; None - the counter is not installed
  executors,   \* every COM thread made so far, the current one last: its queue, the
               \* job it runs, the document that job's guard took
  ready,       \* ended jobs whose calls the event loop has not resumed
  call,        \* the calls in flight
  cache,       \* the last export (_snapshot_cache); None
  gate,        \* the call that holds _snapshot_gate; None
  promised,    \* the preview the client holds; None
  names,       \* history: what an undisturbed read saw under which revision
  answer,      \* what this step told a client; None
  alone,       \* history: the read that began with nothing else in flight, while no
               \* other call began since; None
  made, clicks \* how many calls and tab switches there were

seat == <<active, content>>
session == <<bound, rev, edits>>
memory == <<cache, gate>>
client == <<promised, names, answer, alone>>
vars == <<seat, session, executors, ready, call, memory, client, made, clicks>>

-------------------------------------------------------------------------------
(* The documents *)

\* The server draws; the operator edits what a preview listed, or something else.
Parts == {"drawn", "listed", "other"}
OperatorEdits(d) == content[d]["listed"] + content[d]["other"]

\* _read_edit_count: the reactor counts every change, whoever made it.
Changes(d) == content[d]["drawn"] + OperatorEdits(d)

\* What a job read: the document its guard took, and what it held.
Seen(d) == [doc |-> d, holds |-> content[d]]
Unseen == [doc |-> None, holds |-> [p \in Parts |-> 0]]

\* The fingerprints of the listed entities.
Fingerprints(s) == <<s.doc, s.holds["listed"]>>

\* _snapshot_key, as memory holds it.
Key == [doc |-> bound, rev |-> rev[bound], edits |-> edits[bound]]

-------------------------------------------------------------------------------
(* The calls *)

Idle == [kind |-> "none", at |-> "idle", to |-> None, jobs |-> 0, left |-> 0,
         force |-> FALSE, valid |-> FALSE, seen |-> Unseen, given |-> None]
InFlight(c) == call[c].at # "idle"

\* Plausible bug: an end of its own for a cancelled call forgets the gate.
MutantEnds(c) == call' = [call EXCEPT ![c] = Idle] /\ gate' = gate

\* A call is over, and the async with that held the gate.
Ends(c) ==
  /\ call' = [call EXCEPT ![c] = Idle]
  /\ gate' = IF gate = c THEN None ELSE gate

\* _bump_revision: of the document bound now.
Bumped == IF bound = None THEN rev ELSE [rev EXCEPT ![bound] = @ + 1]

\* _retire_snapshot: an export under way is not stored either (_snapshot_epoch).
Retired == [c \in Calls |-> [call[c] EXCEPT !.valid = FALSE]]

Job(c, does) == [call |-> c, does |-> does, to |-> call[c].to]
NewExecutor == [queue |-> <<>>, running |-> None, doc |-> None]
Current == Len(executors)

Submits(c, does) ==
  executors' = [executors EXCEPT ![Current].queue = Append(@, Job(c, does))]

\* A client calls a tool: the call starts where its kind starts.
New(kind, at, to) ==
  [Idle EXCEPT !.kind = kind, !.at = at, !.to = to,
               !.given = IF kind = "check" THEN promised ELSE None]

\* Nothing is in flight, not even a job its call has left.
Quiet ==
  /\ \A c \in Calls : ~InFlight(c)
  /\ \A x \in DOMAIN executors : executors[x].running = None /\ executors[x].queue = <<>>

\* The bound Disturbed.
Calm == Disturbed \/ \A c \in Calls : call[c].jobs < 2

\* The bound Apart.
Admitted(kind) ==
  Apart => /\ kind = "choose" => Quiet
           /\ \A c \in Calls : call[c].kind # "choose"

Start(c, kind) ==
  /\ ~InFlight(c) /\ made < MaxCalls /\ kind \in Kinds /\ Calm /\ Admitted(kind)
  /\ made' = made + 1
  /\ alone' = IF kind \in {"look", "preview"} /\ Quiet THEN c ELSE None
  /\ answer' = None
  /\ UNCHANGED <<seat, session, ready, gate, promised, names, clicks>>

\* A job of a _mutating call retires the export as it is submitted.
StartWrite(c, jobs) ==
  /\ Start(c, "write")
  /\ jobs = 1 \/ Disturbed \/ Quiet
  /\ call' = [Retired EXCEPT ![c] = [New("write", "draw", None) EXCEPT !.jobs = jobs, !.left = jobs]]
  /\ cache' = None
  /\ Submits(c, "draw")

StartChoose(c, d) ==
  /\ Start(c, "choose")
  /\ call' = [call EXCEPT ![c] = New("choose", "select", d)]
  /\ executors' = [executors EXCEPT ![Current].queue = Append(@, [Job(c, "select") EXCEPT !.to = d])]
  /\ UNCHANGED cache

StartRead(c, kind) ==
  /\ kind \in {"look", "detail", "preview", "check"}
  /\ Start(c, kind)
  /\ kind = "check" => promised # None
  /\ call' = [call EXCEPT ![c] = New(kind, "read", None)]
  /\ Submits(c, "read")
  /\ UNCHANGED cache

-------------------------------------------------------------------------------
(* The COM thread *)

Unguarded == {"select", "rebind"}
NextJob(x) == Head(executors[x].queue)
MayBegin(x) == executors[x].running = None /\ executors[x].queue # <<>>

Begun(x, d) ==
  executors' = [executors EXCEPT ![x] = [queue |-> Tail(@.queue), running |-> NextJob(x), doc |-> d]]

\* Documents.Open, Activate and _bind_active_sync ask for no bound document.
BeginUnguarded(x) ==
  /\ MayBegin(x) /\ NextJob(x).does \in Unguarded
  /\ Begun(x, None)
  /\ answer' = None
  /\ UNCHANGED <<seat, session, ready, call, memory, promised, names, alone, made, clicks>>

\* _guard: another document is active, and nothing of the job runs.
Refuse(x) ==
  /\ MayBegin(x) /\ NextJob(x).does \notin Unguarded
  /\ bound # None /\ bound # active
  /\ executors' = [executors EXCEPT ![x].queue = Tail(@)]
  /\ ready' = Append(ready, [call |-> NextJob(x).call, result |-> "refused", seen |-> Unseen])
  /\ answer' = None
  /\ UNCHANGED <<seat, session, call, memory, promised, names, alone, made, clicks>>

\* Plausible bug: only a counter that was removed counts as a gap.
MutantOutside(d) == FALSE

\* _edit_counter_start: an outside change is one more revision.
Outside(d) == edits[d] \notin {None, Changes(d)}

\* _guard: the first call that touches a document binds it; then the counter.
Guard(x) ==
  /\ MayBegin(x) /\ NextJob(x).does \notin Unguarded
  /\ bound \in {None, active}
  /\ Begun(x, active)
  /\ bound' = active
  /\ rev' = IF Outside(active) THEN [rev EXCEPT ![active] = @ + 1] ELSE rev
  /\ edits' = [edits EXCEPT ![active] = Changes(active)]
  /\ IF bound = None THEN cache' = None /\ call' = Retired ELSE UNCHANGED <<cache, call>>
  /\ answer' = None
  /\ UNCHANGED <<seat, ready, gate, promised, names, alone, made, clicks>>

\* The job's end: a cancelled or abandoned call hears nothing of it.
Ended(x, does, s) ==
  /\ executors[x].running # None /\ executors[x].running.does = does
  /\ executors' = [executors EXCEPT ![x].running = None, ![x].doc = None]
  /\ ready' = IF executors[x].running.call = None THEN ready
              ELSE Append(ready, [call |-> executors[x].running.call, result |-> "ok", seen |-> s])
  /\ answer' = None
  /\ UNCHANGED <<rev, gate, promised, names, alone, made, clicks>>

\* _edit_counter_end, of the document bound now; a read that fails keeps the count.
Absorbed(counted) ==
  edits' = IF counted /\ edits[bound] # None
           THEN [edits EXCEPT ![bound] = Changes(bound)'] ELSE edits

EndRead(x, counted) ==
  /\ Ended(x, "read", Seen(executors[x].doc))
  /\ UNCHANGED <<seat, bound, call, cache>>
  /\ Absorbed(counted)

\* The job draws into the document its guard took.
EndDraw(x, counted) ==
  /\ Ended(x, "draw", Unseen)
  /\ content' = [content EXCEPT ![executors[x].doc]["drawn"] = @ + 1]
  /\ UNCHANGED <<active, bound, call, cache>>
  /\ Absorbed(counted)

EndSelect(x) ==
  /\ Ended(x, "select", Unseen)
  /\ active' = executors[x].running.to
  /\ UNCHANGED <<content, bound, edits, call, cache>>

\* _bind_active_sync binds what is active by then.
EndRebind(x) ==
  /\ Ended(x, "rebind", Unseen)
  /\ bound' = active
  /\ cache' = None
  /\ call' = Retired
  /\ UNCHANGED <<seat, edits>>

-------------------------------------------------------------------------------
(* The event loop *)

\* The loop resumes the call whose job ended first.
Resumes(c, at, result) ==
  /\ ready # <<>>
  /\ Head(ready).call = c /\ call[c].at = at /\ Head(ready).result = result
  /\ ready' = Tail(ready)
  /\ UNCHANGED <<seat, bound, edits, alone, made, clicks>>

Report == Head(ready).seen

Goes(c, at) == call' = [call EXCEPT ![c].at = at]

\* A bulk write between two of its jobs.
NextSlice(c) ==
  /\ Resumes(c, "draw", "ok") /\ call[c].left > 1
  /\ call' = [Retired EXCEPT ![c] = [call[c] EXCEPT !.left = @ - 1]]
  /\ cache' = None
  /\ Submits(c, "draw")
  /\ answer' = None
  /\ UNCHANGED <<rev, gate, promised, names>>

\* The wrapper _mutating adds to a write's return.
WriteReturns(c) ==
  /\ Resumes(c, "draw", "ok") /\ call[c].left = 1
  /\ Ends(c)
  /\ rev' = Bumped
  /\ answer' = None
  /\ UNCHANGED <<executors, cache, promised, names>>

\* A refusal reaches the client; the wrapper leaves the revision of a refused write,
\* whatever earlier jobs of it drew.
RefusalReturns(c) ==
  /\ \E at \in {"draw", "read", "export"} : Resumes(c, at, "refused")
  /\ Ends(c)
  /\ answer' = None
  /\ UNCHANGED <<rev, executors, cache, promised, names>>

\* document_activate, drawing_open, drawing_new: _rebind is a second job.
Rebind(c) ==
  /\ Resumes(c, "select", "ok")
  /\ Goes(c, "rebind")
  /\ Submits(c, "rebind")
  /\ answer' = None
  /\ UNCHANGED <<rev, memory, promised, names>>

ChooseReturns(c) ==
  /\ Resumes(c, "rebind", "ok")
  /\ Ends(c)
  /\ answer' = None
  /\ UNCHANGED <<rev, executors, cache, promised, names>>

\* An undisturbed read is noted with its document's revision.
LookReturns(c) ==
  /\ call[c].kind = "look" /\ Resumes(c, "read", "ok")
  /\ Ends(c)
  /\ names' = IF alone = c
              THEN names \cup {[doc |-> Report.doc, rev |-> rev[Report.doc], holds |-> Report.holds]}
              ELSE names
  /\ answer' = None
  /\ UNCHANGED <<rev, executors, cache, promised>>

\* make_preview and check_preconditions: the fingerprints first, the identity last.
Refresh(c) ==
  /\ call[c].kind \in {"preview", "check"} /\ Resumes(c, "read", "ok")
  /\ call' = [call EXCEPT ![c].at = "refresh", ![c].seen = Report]
  /\ Submits(c, "read")
  /\ answer' = None
  /\ UNCHANGED <<rev, memory, promised, names>>

\* document_identity, answered from memory.
Revision == IF bound = None THEN None ELSE rev[bound]

\* What the check compares; refresh_document_identity swallows every failure.
Holds(c) ==
  /\ Fingerprints(call[c].seen) = call[c].given.prints
  /\ Revision = call[c].given.rev

IdentityRead(c, s) ==
  /\ Ends(c)
  /\ promised' = IF call[c].kind = "check" THEN promised
                 ELSE [prints |-> Fingerprints(call[c].seen), rev |-> Revision,
                       whole |-> IF alone = c THEN s ELSE Unseen]
  /\ answer' = IF call[c].kind = "check" /\ Holds(c)
               THEN [told |-> "unchanged", of |-> bound, was |-> call[c].given.whole, is |-> s]
               ELSE None
  /\ UNCHANGED <<rev, cache, names>>

IdentityReturns(c) ==
  /\ \E result \in {"ok", "refused"} : Resumes(c, "refresh", result)
  /\ IdentityRead(c, Report)
  /\ UNCHANGED executors

-------------------------------------------------------------------------------
(* The reused export *)

\* entity_get goes to the export with what its own job read.
Detail(c) ==
  /\ call[c].kind = "detail" /\ Resumes(c, "read", "ok")
  /\ call' = [call EXCEPT ![c].at = "gate", ![c].seen = Report]
  /\ answer' = None
  /\ UNCHANGED <<rev, executors, memory, promised, names>>

\* _snapshot_with_reuse, once it holds the gate.
Enters(c) == call[c].at = "gate" /\ gate = None /\ UNCHANGED <<seat, session, ready, alone, made, clicks>>

Fresh == cache # None /\ cache.key = Key

\* The cached export answers; a record that entity_get misses in it forces a new one.
Reuse(c) ==
  /\ Enters(c) /\ Fresh /\ ~call[c].force
  /\ \/ Ends(c)
     \/ call' = [call EXCEPT ![c].force = TRUE] /\ UNCHANGED gate
  /\ answer' = [told |-> "reused", was |-> cache.seen, guard |-> call[c].seen, is |-> Seen(bound)]
  /\ UNCHANGED <<executors, cache, promised, names>>

Export(c) ==
  /\ Enters(c) /\ (~Fresh \/ call[c].force)
  /\ gate' = c
  /\ call' = [call EXCEPT ![c].at = "export", ![c].valid = TRUE]
  /\ cache' = None
  /\ Submits(c, "read")
  /\ answer' = None
  /\ UNCHANGED <<promised, names>>

\* take_snapshot parses the export on another thread; the loop goes on.
Parse(c) ==
  /\ Resumes(c, "export", "ok")
  /\ call' = [call EXCEPT ![c].at = "parse", ![c].seen = Report]
  /\ answer' = None
  /\ UNCHANGED <<rev, executors, memory, promised, names>>

\* Plausible bug: the export is stored whatever happened during it.
MutantMayStore(c) == TRUE

\* The key is read after the parse; an export that a write or a rebinding
\* overlapped is not stored.
MayStore(c) == call[c].valid

Parsed(c) ==
  /\ call[c].at = "parse"
  /\ Ends(c)
  /\ cache' = IF MayStore(c) THEN [key |-> Key, seen |-> call[c].seen] ELSE cache
  /\ answer' = None
  /\ UNCHANGED <<seat, session, executors, ready, promised, names, alone, made, clicks>>

\* COM_SNAPSHOT_TTL passes.
Expire ==
  /\ cache # None
  /\ cache' = None
  /\ answer' = None
  /\ UNCHANGED <<seat, session, executors, ready, call, gate, promised, names, alone, made, clicks>>

-------------------------------------------------------------------------------
(* Cancellation and the deadline *)

\* What waits, without what waits for c: one entry at most.
Without(s, c) ==
  LET at == {i \in DOMAIN s : s[i].call = c}
  IN  IF at = {} THEN s ELSE RemoveAt(s, CHOOSE i \in at : TRUE)

\* A queued job is cancelled with its call; a running one goes on without it.
Left(c) ==
  [x \in DOMAIN executors |->
     [executors[x] EXCEPT
        !.queue = Without(@, c),
        !.running = IF @ # None /\ @.call = c THEN [@ EXCEPT !.call = None] ELSE @]]

\* Plausible bug: the revision moves on a write's return only.
MutantLeftRevision(c) == rev

\* The wrapper's finally: the write was handed to AutoCAD, so the revision moves.
LeftRevision(c) == IF call[c].kind = "write" THEN Bumped ELSE rev

Cancel(c) ==
  /\ InFlight(c) /\ call[c].kind \in Cancellable
  /\ Ends(c)
  /\ executors' = Left(c)
  /\ ready' = Without(ready, c)
  /\ rev' = LeftRevision(c)
  /\ answer' = None
  /\ UNCHANGED <<seat, bound, edits, cache, promised, names, alone, made, clicks>>

\* The call's future is cancelled and the current executor is replaced, whichever
\* of them the call's job was on; the jobs queued behind it stay there.
Overruns(c) ==
  /\ call[c].kind \in Overrunning /\ call[c].at \notin {"idle", "gate", "parse"}
  /\ \A i \in DOMAIN ready : ready[i].call # c
  /\ executors' = Append(Left(c), NewExecutor)
  /\ UNCHANGED <<seat, bound, edits, ready, alone, made, clicks>>

Deadline(c) ==
  /\ Overruns(c) /\ call[c].at # "refresh"
  /\ Ends(c)
  /\ rev' = LeftRevision(c)
  /\ answer' = None
  /\ UNCHANGED <<cache, promised, names>>

\* refresh_document_identity swallows its own overrun.
RefreshOverruns(c) ==
  /\ Overruns(c) /\ call[c].at = "refresh"
  /\ IdentityRead(c, Unseen)

-------------------------------------------------------------------------------
(* The operator *)

NoJobRuns == \A x \in DOMAIN executors : executors[x].running = None

Click(d) ==
  /\ NoJobRuns /\ Calm /\ d # active /\ clicks < MaxClicks
  /\ active' = d
  /\ clicks' = clicks + 1
  /\ answer' = None
  /\ UNCHANGED <<content, session, executors, ready, call, memory, promised, names, alone, made>>

Edit(p) ==
  /\ NoJobRuns /\ p \in {"listed", "other"} /\ OperatorEdits(active) < MaxEdits
  /\ content' = [content EXCEPT ![active][p] = @ + 1]
  /\ answer' = None
  /\ UNCHANGED <<active, session, executors, ready, call, memory, promised, names, alone, made, clicks>>

-------------------------------------------------------------------------------
Init ==
  /\ active \in Docs
  /\ content = [d \in Docs |-> [p \in Parts |-> 0]]
  /\ bound = None
  /\ rev = [d \in Docs |-> 0]
  /\ edits = [d \in Docs |-> None]
  /\ executors = <<NewExecutor>>
  /\ ready = <<>>
  /\ call = [c \in Calls |-> Idle]
  /\ cache = None /\ gate = None
  /\ promised = None /\ names = {} /\ answer = None /\ alone = None
  /\ made = 0 /\ clicks = 0

Client(c) ==
  \/ (\E jobs \in 1..Slices : StartWrite(c, jobs)) \/ \E d \in Docs : StartChoose(c, d)
  \/ \E kind \in Kinds : StartRead(c, kind)
  \/ Cancel(c)

ComThread(x) ==
  \/ BeginUnguarded(x) \/ Refuse(x) \/ Guard(x)
  \/ EndSelect(x) \/ EndRebind(x)
  \/ \E counted \in BOOLEAN : EndRead(x, counted) \/ EndDraw(x, counted)

Loop(c) ==
  \/ NextSlice(c) \/ WriteReturns(c) \/ RefusalReturns(c)
  \/ Rebind(c) \/ ChooseReturns(c) \/ LookReturns(c) \/ Refresh(c) \/ IdentityReturns(c)
  \/ Detail(c) \/ Reuse(c) \/ Export(c) \/ Parse(c) \/ Parsed(c)

Timer == Expire \/ \E c \in Calls : Deadline(c) \/ RefreshOverruns(c)
Operator == (\E d \in Docs : Click(d)) \/ (\E p \in Parts : Edit(p))

Next ==
  \/ \E c \in Calls : Client(c) \/ Loop(c)
  \/ \E x \in DOMAIN executors : ComThread(x)
  \/ Timer \/ Operator

Spec == Init /\ [][Next]_vars

-------------------------------------------------------------------------------
(* Properties *)

Seens == [doc : Docs \cup {None}, holds : [Parts -> Nat]]

\* No deadline has replaced the COM thread; once one has, the jobs left on the old
\* thread run beside those of the new one.
OneThread == Current = 1

\* Types; and the engine's one gate is held exactly while a call exports or parses.
TypeOK ==
  /\ active \in Docs
  /\ content \in [Docs -> [Parts -> Nat]]
  /\ bound \in Docs \cup {None}
  /\ rev \in [Docs -> Nat]
  /\ edits \in [Docs -> Nat \cup {None}]
  /\ gate \in Calls \cup {None}
  /\ \A c \in Calls : call[c].at \in {"export", "parse"} <=> gate = c

\* A client that asks while nothing else is in flight reads one content under one
\* revision of a document: neither the server's own writes nor the operator's edits
\* leave the revision where it was (_mutating, _edit_counter_start and _end).
RevisionNamesContent ==
  \A a, b \in names : a.doc = b.doc /\ a.rev = b.rev => a.holds = b.holds

\* A check that finds the fingerprints and the revision of an undisturbed preview, all
\* in the previewed document, has the content that preview had: a change that races
\* the check is caught by one or the other (check_preconditions).
Unchanged == answer # None /\ answer.told = "unchanged" /\ Unseen \notin {answer.was, answer.is}

PassedCheckHolds ==
  Unchanged /\ answer.of = answer.was.doc /\ answer.is.doc = answer.was.doc
    => answer.is = answer.was

\* Until a deadline replaces the COM thread, a reused export is of the bound document
\* and holds everything the server drew (_retire_snapshot, _snapshot_epoch).
ReusedHoldsOurWrites ==
  OneThread /\ answer # None /\ answer.told = "reused"
    => /\ answer.was.doc = answer.is.doc
       /\ answer.was.holds["drawn"] = answer.is.holds["drawn"]

\* A reused export is what the guard found: "reused while it stands still".
ReusedStandsStill ==
  answer # None /\ answer.told = "reused" => answer.was = answer.guard
================================================================================
