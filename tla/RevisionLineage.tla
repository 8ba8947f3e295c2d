---------------------------- MODULE RevisionLineage ----------------------------
(***************************************************************************)
(* A saved drawing keeps its document_id and its content revision across    *)
(* processes, so that expected_revision means something after a restart:    *)
(* the registry of backends/ezdxf_backend.py, the lineage records of        *)
(* backends/lineage.py, and the rows of backends/journal_store.py that      *)
(* remember revisions issued after the last save.  One server at a time on  *)
(* the state folder; it may be killed between any two steps.                *)
(***************************************************************************)
EXTENDS Naturals, FiniteSets

CONSTANTS
  Paths,        \* the drawing files
  Foreign,      \* contents that programs other than this server write
  MaxCalls,     \* bound: how many calls are made
  MaxSaved,     \* bound: the revision an earlier session saved a file at
  Unnamed,      \* the kinds of call a client sends without an operation id of its own
  InFlight,     \* bound: how many calls run at once
  Apart,        \* does a call that switches documents run while no other does?
  Copies,       \* may two files record one document (drawing_save_as)?
  Untitled,     \* the registry's place of a document with no file (bound: one)
  None

\* A call is the number it has in the order they begin.
Calls == 1..MaxCalls

Kinds == {"look", "edit", "save", "open", "new", "close", "activate"}

ASSUME LineageAssumption ==
  /\ {MaxCalls, MaxSaved, InFlight} \subseteq Nat
  /\ {Apart, Copies} \subseteq BOOLEAN
  /\ None \notin Calls \cup Paths \cup Foreign \cup {Untitled} \cup Nat
  /\ Paths \cap (Calls \cup Foreign \cup {Untitled}) = {}
  /\ Foreign \cap Calls = {}
  /\ Unnamed \subseteq Kinds

\* After these another document may be the active one.
Switching == {"open", "new", "close", "activate"}

Slots == Paths \cup {Untitled}

\* A lineage and its document_id are minted together and never part, so one name
\* stands for both: the call that minted it, or the path an earlier session saved.
Ids == Calls \cup Paths

\* A content is named by the call that made it, the path that held it at the
\* start, or a foreign program.  Equal contents have equal sha256.
Contents == Calls \cup Paths \cup Foreign

\* An entry of the registry, a lineage record, a row of the journal, what an answer
\* speaks of.
Entries == [doc : Ids, rev : Nat, content : Contents]
Records == [doc : Ids, sha : Contents, rev : Nat, at : Nat]
Rows == [doc : Ids \cup {None}, before : Nat \cup {None}, after : Nat \cup {None},
         state : {"running", "committed", "failed", "cancelled", "unknown_commit"}]
Seen == Ids \X Nat \X Contents

ASSUME NoneIsApart == None \notin Entries \cup Records \cup Rows \cup Seen \cup (Calls \X Paths)

Max(S) == CHOOSE n \in S : \A k \in S : k <= n

VARIABLES
  up,       \* is the server running?
  disk,     \* the content of each file; None - there is no such file
  recs,     \* <STATE_DIR>/lineage: [doc, sha, rev, at] of each path; "at" - the
            \* last call begun when it was written (its "recorded" time)
  docs,     \* _docs: the entry of each slot, [doc, rev, content]
  active,   \* _active_key
  noted,    \* _issued_high: the <<doc, rev>> of entries that left the registry
  writing,  \* the call and path of a save between its file and its record
  kind, pc, \* each call: what it does; "idle", "begun", "found" (a file changed by
            \* another program), "ran", "over"
  did,      \* the <<doc, rev, content>> its answer speaks of
  said,     \* did this drawing_open report lost_since_save?
  mem,      \* the journal's records, in memory
  rows,     \* the journal's rows, in the file
  queued,   \* the calls whose last write to the file is still queued
  others,   \* the <<doc, rev>> of the journal's other rows: an earlier session's, and
            \* those of external_edit
  seen      \* the <<doc, rev, content>> clients were answered

regVars == <<docs, active, noted>>
callVars == <<kind, pc, did, said>>
journalVars == <<mem, rows, queued, others>>
vars == <<up, disk, recs, regVars, writing, callVars, journalVars, seen>>

-------------------------------------------------------------------------------
(* The registry *)

Open(s) == docs[s] # None

\* document_identity: the active document's id and revision, None without one.
ActiveDoc == IF active = None THEN None ELSE docs[active].doc
ActiveRev == IF active = None THEN None ELSE docs[active].rev

Facts(e) == <<e.doc, e.rev, e.content>>

Entry(d, n, content) == [doc |-> d, rev |-> n, content |-> content]

-------------------------------------------------------------------------------
(* The journal *)

Row(d, n) == [doc |-> d, before |-> n, after |-> None, state |-> "running"]

\* What the file holds once the queue is committed.
Flushed == [c \in Calls |-> IF c \in queued THEN mem[c] ELSE rows[c]]

\* begin: a mutating call's row is committed before it runs; a client id's
\* transaction also carries what earlier calls queued.
Begun(c, k, rec) ==
  /\ mem' = [mem EXCEPT ![c] = rec]
  /\ IF k \notin Unnamed THEN rows' = [Flushed EXCEPT ![c] = rec] /\ queued' = {}
     ELSE /\ rows' = IF k = "look" THEN rows ELSE [rows EXCEPT ![c] = rec]
          /\ UNCHANGED queued
  /\ UNCHANGED others

\* Plausible bug: a client id's final state is queued like any other.
MutantEnded(c, rec) ==
  /\ mem' = [mem EXCEPT ![c] = rec]
  /\ queued' = queued \cup {c}
  /\ UNCHANGED <<rows, others>>

\* finish: a client id's final state is committed before the answer leaves, a
\* server id's is queued.
Ended(c, rec) ==
  /\ mem' = [mem EXCEPT ![c] = rec]
  /\ IF kind[c] \notin Unnamed THEN rows' = [Flushed EXCEPT ![c] = rec] /\ queued' = {}
     ELSE queued' = queued \cup {c} /\ UNCHANGED rows
  /\ UNCHANGED others

RevisionsIn(r) == {r.before, r.after} \ {None}

\* max_revision, after the flush: what any recorded call saw of the document.
Journalled(d) ==
  {t[2] : t \in {x \in others : x[1] = d}} \cup
  UNION {RevisionsIn(r) : r \in {x \in {Flushed[c] : c \in Calls} \cup {mem[c] : c \in Calls} :
                                   x # None /\ x.doc = d}}

\* Plausible bug: the first revision after the save is taken for the saved one.
MutantIsLost(r, saved, at, c) ==
  \/ /\ r.state = "committed"
     /\ r.before # None /\ r.after # None
     /\ r.after > r.before /\ r.after > saved + 1
  \/ /\ r.state = "unknown_commit"
     /\ r.before # None
     /\ r.before > saved /\ c > at

\* _lost: a call the file of revision saved, recorded at at, does not hold.
IsLost(r, saved, at, c) ==
  \/ /\ r.state = "committed"
     /\ r.before # None /\ r.after # None
     /\ r.after > r.before /\ r.after > saved
  \/ /\ r.state = "unknown_commit"
     /\ r.before # None
     /\ r.before >= saved /\ c > at

\* lost_since_save finds such a row.
Lost(d, saved, at) ==
  \E c \in Calls : Flushed[c] # None /\ Flushed[c].doc = d /\ IsLost(Flushed[c], saved, at, c)

-------------------------------------------------------------------------------
(* Reopening a file: resolve_open *)

\* _lineage_open_elsewhere
Elsewhere(d, p) == \E s \in Slots \ {p} : Open(s) /\ docs[s].doc = d

\* _revision_high: every revision known to have been issued for the document.
Issued(d) ==
  {docs[s].rev : s \in {x \in Slots : Open(x) /\ docs[x].doc = d}}
    \cup {t[2] : t \in {x \in noted : x[1] = d}}
    \cup Journalled(d)

Changed(p) == disk[p] # recs[p].sha

Base(p) == IF Changed(p) THEN recs[p].rev + 1 ELSE recs[p].rev

\* Plausible bug: a revision issued and lost counts only beyond the next one.
MutantResumed(p) ==
  LET known == Issued(recs[p].doc) IN
    IF known # {} /\ Max(known) > Base(p) + 1 THEN Max(known) + 1 ELSE Base(p)

\* The revision the document continues at: the recorded one, one more if the
\* file changed, and past every one issued and lost (revision_floor).
Resumed(p) ==
  LET known == Issued(recs[p].doc) IN
    IF known # {} /\ Max(known) >= Base(p) /\ Max(known) > recs[p].rev
      THEN Max(known) + 1 ELSE Base(p)

Recorded == {p \in Paths : recs[p] # None}

Continues(p) == recs[p] # None /\ ~Elsewhere(recs[p].doc, p)

-------------------------------------------------------------------------------
(* A call *)

Last == Cardinality({c \in Calls : pc[c] # "idle"})

Running == {c \in Calls : pc[c] \in {"begun", "found", "ran"}}

\* The middleware opens the record on the document that is active now.
Begin(c, k) ==
  /\ up
  /\ pc[c] = "idle" /\ \A d \in 1..(c - 1) : pc[d] # "idle"
  /\ Cardinality(Running) < InFlight
  /\ Apart => \A d \in Running : k \notin Switching /\ kind[d] \notin Switching
  /\ kind' = [kind EXCEPT ![c] = k]
  /\ pc' = [pc EXCEPT ![c] = "begun"]
  /\ Begun(c, k, Row(ActiveDoc, ActiveRev))
  /\ UNCHANGED <<up, disk, recs, regVars, writing, did, said, seen>>

\* The worker of c runs its body: it has the document lock.
Runs(c, k) ==
  /\ pc[c] = "begun" /\ kind[c] = k
  /\ writing = None

Ran(c, facts) ==
  /\ pc' = [pc EXCEPT ![c] = "ran"]
  /\ did' = [did EXCEPT ![c] = facts]

Look(c) ==
  /\ Runs(c, "look")
  /\ active # None
  /\ Ran(c, Facts(docs[active]))
  /\ UNCHANGED <<up, disk, recs, regVars, writing, kind, said, journalVars, seen>>

\* Every content change moves the revision (_DirtyField): an edit, an undo, a
\* redo, a rollback.
Edit(c) ==
  /\ Runs(c, "edit")
  /\ active # None
  /\ docs' = [docs EXCEPT ![active] = Entry(@.doc, @.rev + 1, c)]
  /\ Ran(c, Facts(docs'[active]))
  /\ UNCHANGED <<up, disk, recs, active, noted, writing, kind, said, journalVars, seen>>

\* drawing_save, drawing_save_as: the file is replaced, atomically; a path that
\* another entry holds is refused.
SaveFile(c, p) ==
  /\ Runs(c, "save")
  /\ active # None
  /\ p = active \/ ~Open(p)
  /\ Copies \/ ActiveDoc \notin {recs[q].doc : q \in Recorded \ {p}}
  /\ disk' = [disk EXCEPT ![p] = docs[active].content]
  /\ writing' = <<c, p>>
  /\ UNCHANGED <<up, recs, regVars, callVars, journalVars, seen>>

\* Then its record is written, and the entry's path is the new one.
SaveRecord(c) ==
  /\ writing # None /\ writing[1] = c
  /\ LET p == writing[2]
         e == docs[active]
     IN /\ recs' = [recs EXCEPT ![p] = [doc |-> e.doc, sha |-> e.content, rev |-> e.rev, at |-> Last]]
        /\ docs' = [s \in Slots |-> IF s = p THEN e ELSE IF s = active THEN None ELSE docs[s]]
        /\ active' = p
        /\ Ran(c, Facts(e))
  /\ writing' = None
  /\ UNCHANGED <<up, disk, noted, kind, said, journalVars, seen>>

\* drawing_open: the journal's queue is committed, the document continued or
\* minted, an entry of the same path dropped, and the record written.  With a record
\* of other bytes, the change is still to be journalled.
Reopen(c, p) ==
  /\ Runs(c, "open")
  /\ disk[p] # None
  /\ LET e == IF Continues(p) THEN Entry(recs[p].doc, Resumed(p), disk[p]) ELSE Entry(c, 0, disk[p])
     IN /\ docs' = [docs EXCEPT ![p] = e]
        /\ recs' = [recs EXCEPT ![p] = [doc |-> e.doc, sha |-> disk[p], rev |-> e.rev, at |-> Last]]
        /\ did' = [did EXCEPT ![c] = Facts(e)]
  /\ pc' = [pc EXCEPT ![c] = IF recs[p] # None /\ Changed(p) THEN "found" ELSE "ran"]
  /\ active' = p
  /\ noted' = IF Open(p) THEN noted \cup {<<docs[p].doc, docs[p].rev>>} ELSE noted
  /\ said' = [said EXCEPT ![c] = Continues(p) /\ Lost(recs[p].doc, recs[p].rev, recs[p].at)]
  /\ IF Continues(p) THEN rows' = Flushed /\ queued' = {} ELSE UNCHANGED <<rows, queued>>
  /\ UNCHANGED <<up, disk, writing, kind, mem, others, seen>>

\* _journal_external_edit: a row of its own, committed as it begins, of the document
\* that is active now.
JournalChange(c) ==
  /\ pc[c] = "found"
  /\ pc' = [pc EXCEPT ![c] = "ran"]
  /\ others' = IF active = None THEN others ELSE others \cup {<<ActiveDoc, ActiveRev>>}
  /\ UNCHANGED <<up, disk, recs, regVars, writing, kind, did, said, mem, rows, queued, seen>>

\* drawing_new: a document of its own, with no file and no record.
New(c) ==
  /\ Runs(c, "new")
  /\ ~Open(Untitled)
  /\ docs' = [docs EXCEPT ![Untitled] = Entry(c, 0, c)]
  /\ active' = Untitled
  /\ Ran(c, Facts(docs'[Untitled]))
  /\ UNCHANGED <<up, disk, recs, noted, writing, kind, said, journalVars, seen>>

\* Plausible bug: the closed entry stays the active one.
MutantOthers(s) == {s}

Others(s) == IF {t \in Slots \ {s} : Open(t)} = {} THEN {None} ELSE {t \in Slots \ {s} : Open(t)}

\* drawing_close, document_close, discarding; the most recent other entry is next.
Close(c) ==
  /\ Runs(c, "close")
  /\ active # None
  /\ docs' = [docs EXCEPT ![active] = None]
  /\ noted' = noted \cup {<<docs[active].doc, docs[active].rev>>}
  /\ active' \in Others(active)
  /\ Ran(c, Facts(docs[active]))
  /\ UNCHANGED <<up, disk, recs, writing, kind, said, journalVars, seen>>

Activate(c, s) ==
  /\ Runs(c, "activate")
  /\ Open(s)
  /\ active' = s
  /\ Ran(c, Facts(docs[s]))
  /\ UNCHANGED <<up, disk, recs, docs, noted, writing, kind, said, journalVars, seen>>

\* The record is closed with the revision of the document that is active now,
\* the answer leaves; a call whose body was refused did nothing.
Finish(c) ==
  /\ pc[c] \in {"begun", "ran"}
  /\ \A p \in Paths : writing # <<c, p>>
  /\ Ended(c, [mem[c] EXCEPT !.after = ActiveRev,
                             !.doc = IF @ = None THEN ActiveDoc ELSE @,
                             !.state = IF pc[c] = "ran" THEN "committed" ELSE "failed"])
  /\ pc' = [pc EXCEPT ![c] = "over"]
  /\ seen' = IF did[c] = None THEN seen ELSE seen \cup {did[c]}
  /\ UNCHANGED <<up, disk, recs, regVars, writing, kind, did, said>>

-------------------------------------------------------------------------------
(* Around the calls *)

\* The flush thread, FLUSH_DELAY_S after the queue was first used.
Flush ==
  /\ queued # {}
  /\ rows' = Flushed /\ queued' = {}
  /\ UNCHANGED <<up, disk, recs, regVars, writing, callVars, mem, others, seen>>

\* A kill; a shutdown is a Flush and then this.
Kill ==
  /\ up
  /\ up' = FALSE
  /\ docs' = [s \in Slots |-> None] /\ active' = None /\ noted' = {}
  /\ writing' = None
  /\ pc' = [c \in Calls |-> IF c \in Running THEN "over" ELSE pc[c]]
  /\ did' = [c \in Calls |-> IF c \in Running THEN None ELSE did[c]]
  /\ mem' = [c \in Calls |-> None] /\ queued' = {}
  /\ UNCHANGED <<disk, recs, kind, said, rows, others, seen>>

\* The sweep of the next start: a running row is an unknown_commit, a read's is
\* cancelled.
Start ==
  /\ ~up
  /\ up' = TRUE
  /\ rows' = [c \in Calls |->
       IF rows[c] = None THEN None
       ELSE IF rows[c].state # "running" THEN rows[c]
       ELSE [rows[c] EXCEPT !.state = IF kind[c] = "look" THEN "cancelled" ELSE "unknown_commit"]]
  /\ UNCHANGED <<disk, recs, regVars, writing, callVars, mem, queued, others, seen>>

\* Another program writes a file: new bytes, or those it held at the start.  It
\* does so between two calls: within one, no step that follows reads the file
\* but the body's first, so that the write might as well come before or after.
ForeignWrite(p, content) ==
  /\ Running = {}
  /\ disk[p] # None
  /\ disk' = [disk EXCEPT ![p] = content]
  /\ UNCHANGED <<up, recs, regVars, writing, callVars, journalVars, seen>>

-------------------------------------------------------------------------------
\* The files an earlier session left: saved by it, one perhaps under two paths, never
\* seen by it, or not there yet.
Init ==
  /\ up = TRUE
  /\ recs \in [Paths -> {None} \cup [doc : Paths, sha : Paths, rev : 0..MaxSaved, at : {0}]]
  /\ \A p, q \in Paths : recs[p] # None =>
       /\ recs[p].sha \in {p, recs[p].doc} /\ (Copies \/ recs[p].doc = p)
       /\ recs[q] # None /\ recs[q].doc = recs[p].doc =>
            (recs[q].rev = recs[p].rev <=> recs[q].sha = recs[p].sha)
  /\ disk \in [Paths -> Paths \cup {None}]
  /\ \A p \in Paths : disk[p] \in IF recs[p] = None THEN {p, None} ELSE {recs[p].sha}
  /\ others = {<<recs[p].doc, recs[p].rev>> : p \in Recorded}
  /\ docs = [s \in Slots |-> None] /\ active = None /\ noted = {}
  /\ writing = None
  /\ kind = [c \in Calls |-> "look"] /\ pc = [c \in Calls |-> "idle"]
  /\ did = [c \in Calls |-> None] /\ said = [c \in Calls |-> FALSE]
  /\ mem = [c \in Calls |-> None] /\ rows = [c \in Calls |-> None] /\ queued = {}
  /\ seen = {}

Body(c) ==
  \/ Look(c) \/ Edit(c) \/ SaveRecord(c) \/ JournalChange(c) \/ New(c) \/ Close(c)
  \/ \E p \in Paths : SaveFile(c, p) \/ Reopen(c, p)
  \/ \E s \in Slots : Activate(c, s)

Next ==
  \/ \E c \in Calls : (\E k \in Kinds : Begin(c, k)) \/ Body(c) \/ Finish(c)
  \/ Flush \/ Kill \/ Start
  \/ \E p \in Paths : \E content \in Foreign \cup {p} : ForeignWrite(p, content)

Spec == Init /\ [][Next]_vars

-------------------------------------------------------------------------------
(* Properties *)

\* Types.
TypeOK ==
  /\ up \in BOOLEAN
  /\ disk \in [Paths -> Contents \cup {None}]
  /\ recs \in [Paths -> Records \cup {None}]
  /\ docs \in [Slots -> Entries \cup {None}]
  /\ active # None => active \in Slots /\ Open(active)
  /\ noted \subseteq Ids \X Nat
  /\ writing \in (Calls \X Paths) \cup {None}
  /\ kind \in [Calls -> Kinds]
  /\ pc \in [Calls -> {"idle", "begun", "found", "ran", "over"}]
  /\ did \in [Calls -> Seen \cup {None}]
  /\ said \in [Calls -> BOOLEAN]
  /\ mem \in [Calls -> Rows \cup {None}] /\ rows \in [Calls -> Rows \cup {None}]
  /\ queued \subseteq Calls /\ others \subseteq Ids \X Nat
  /\ seen \subseteq Seen

\* "A revision is never issued twice for different content" (lineage.py): whoever
\* was answered a document's revision, and finds the document at that revision -
\* after edits, saves, kills, foreign writes, under any path - finds that content.
RevisionNamesContent ==
  \A s \in Slots : \A t \in seen :
    (Open(s) /\ docs[s].doc = t[1] /\ docs[s].rev = t[2]) => docs[s].content = t[3]

\* No document is ever opened at a revision below one a client was answered: an
\* old expected_revision can be refused for ever.
NeverBehind ==
  \A s \in Slots : \A t \in seen : (Open(s) /\ docs[s].doc = t[1]) => docs[s].rev >= t[2]

\* "Two open documents never share an id", though two files may record the same
\* one (drawing_save_as leaves the first file's record behind).
OneEntryPerDocument ==
  \A s, t \in Slots : (Open(s) /\ Open(t) /\ docs[s].doc = docs[t].doc) => s = t

\* c opens the file at p as the document its record names.
OpensAgain(c, p) ==
  /\ pc[c] = "begun" /\ kind[c] = "open" /\ pc'[c] \in {"found", "ran"}
  /\ active' = p /\ recs[p] # None /\ did'[c][1] = recs[p].doc

\* An edit of d that the file saved at revision n does not hold.
Missing(e, d, n) ==
  kind[e] = "edit" /\ did[e] # None /\ did[e][1] = d /\ did[e][2] > n

\* drawing_open reports lost_since_save whenever the file lacks an edit that a
\* client was answered.
LossIsReported ==
  [][\A c \in Calls, p \in Paths :
       (OpensAgain(c, p) /\ \E e \in Calls : pc[e] = "over" /\ Missing(e, recs[p].doc, recs[p].rev))
         => said'[c]]_vars

\* drawing_open reports lost_since_save only if the file lacks an edit, or if a
\* call died and nobody can tell.
LossIsReal ==
  [][\A c \in Calls, p \in Paths :
       (OpensAgain(c, p) /\ said'[c])
         => \E e \in Calls : \/ Missing(e, recs[p].doc, recs[p].rev)
                             \/ rows[e] # None /\ rows[e].state = "unknown_commit"]_vars
===============================================================================
