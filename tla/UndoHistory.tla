------------------------------ MODULE UndoHistory -------------------------------
(***************************************************************************)
(* Undo and redo of one drawing of the headless engine: the in-memory      *)
(* steps of EZDXF_UNDO_DEPTH (backends/ezdxf_backend.py), the checkpoint   *)
(* store they continue in (backends/ezdxf_checkpoints.py, checkpoints.py), *)
(* the transactions whose snapshots end there, and the close or kill and   *)
(* the reopening from the file, which finds the rows and not the memory.   *)
(* Every call runs in one worker job that holds the document's lock, so    *)
(* one call is one step.  A content is named by the revision that drew it. *)
(***************************************************************************)
EXTENDS Naturals, Sequences, FiniteSets, SequencesExt

CONSTANTS
  MaxRev,      \* bound: revisions
  MaxEdits,    \* bound: revisions that draw something new
  MaxRows,     \* bound: checkpoints of the lineage
  MaxBegins,   \* bound: nested transactions; MAX_UNDO_STACK is not below it
  Keep,        \* CHECKPOINT_KEEP
  Depths,      \* values of EZDXF_UNDO_DEPTH
  Forms,       \* serialisations one content can have: two saves differ in their time
  Ops,         \* the tools that are called
  Mishaps,     \* "unsaved": a kill loses revisions; "no_row": a save's checkpoint is
               \* not written; "budget": another lineage's add evicts rows of this one;
               \* "cut": that eviction is killed between the files and the index;
               \* "load": the bytes of a restore do not load;
               \* "memory": a rollback while EZDXF_UNDO_DEPTH is above 0
  None

ASSUME UndoAssumption ==
  /\ {MaxRev, MaxEdits, MaxRows, Keep} \subseteq Nat \ {0} /\ MaxBegins \in Nat
  /\ Depths \subseteq Nat /\ Forms \subseteq Nat \ {0} /\ Forms # {}
  /\ Ops \subseteq {"undo", "redo", "restore", "label", "save", "transaction"}
  /\ Mishaps \subseteq {"unsaved", "no_row", "budget", "cut", "load", "memory"}
  /\ None \notin Nat

VARIABLES
  depth,       \* EZDXF_UNDO_DEPTH
  up,          \* is the drawing open?
  rev,         \* its revision; while closed, the highest one the journal recorded
  hist,        \* the content of each revision
  base,        \* undo_base, while undo_base_rev is the revision; None
  sha,         \* content_sha, while content_sha_rev is the revision: the form; 0 - unknown
  undoStack,   \* the in-memory snapshots, each by the revision it holds
  redoStack,
  parkedRedo,  \* memory branches set aside, by the row whose redo brings them back
  storeRedo,   \* the rows that undos replaced
  begins,      \* the open transactions: the revision, undo base and history of each begin
  s0,          \* a drawing_new row not yet written: its revision and form; None
  rows,        \* the lineage's index; a row's place is its seq + 1
  saved,       \* the file and its lineage record; None
  trail,       \* history: the states that undos left on the way to this content
  replaced,    \* history: the row of what a restore in place replaced, until the next
               \* change of the content; None
  strayed      \* history: the file was reopened, and no row told its undo base

memVars == <<base, sha, undoStack, redoStack, parkedRedo, storeRedo, begins>>
ghosts == <<trail, replaced, strayed>>
vars == <<depth, up, rev, hist, memVars, s0, rows, saved, ghosts>>

Revs == 0..MaxRev
Row == [kind : {"new", "open", "save", "transaction", "label", "pre_restore", "pre_undo"},
        rev : Revs, base : Revs, content : Revs, form : Forms \cup {0},
        evicted : BOOLEAN, there : BOOLEAN]

-------------------------------------------------------------------------------
(* The rows of the lineage *)

Empty == [i \in {} |-> <<>>]

NewRow(kind, r, b, f) ==
  [kind |-> kind, rev |-> r, base |-> b, content |-> hist[r], form |-> f,
   evicted |-> FALSE, there |-> TRUE]

S0Row == NewRow("new", s0.rev, s0.rev, s0.form)

\* _cp_rows: a pending S0 stands in front; it has no digest yet.
Pending == s0 # None /\ rows = <<>>
Shown == IF Pending THEN <<[S0Row EXCEPT !.form = 0]>> ELSE rows

\* _cp_materialize_s0
WithS0 == IF Pending THEN <<S0Row>> ELSE rows

\* _evict_lineage: the oldest rows beyond Keep, S0 and the new row apart.
Trimmed(rs) ==
  LET live == {i \in 2..Len(rs) : ~rs[i].evicted}
      Older(i) == {j \in live : j <= i}
      gone == {i \in live \ {Len(rs)} : Cardinality(Older(i)) <= Cardinality(live) - Keep} IN
  [i \in DOMAIN rs |-> IF i \in gone THEN [rs[i] EXCEPT !.evicted = TRUE, !.there = FALSE] ELSE rs[i]]

\* CheckpointStore.add
Added(row) == Trimmed(Append(WithS0, row))

Live(rs) == {i \in DOMAIN rs : ~rs[i].evicted}
Newest(S) == CHOOSE i \in S : \A j \in S : j <= i

\* _cp_effective: the revision an undo steps back from.
Effective == IF base = None THEN rev ELSE base

\* The state that is current: its revision, and the one it was reached as.
Here == [rev |-> rev, as |-> Effective]

\* Bound: the rows of the lineage.
Fits == Len(rows') <= MaxRows

IsCurrent(row) == sha # 0 /\ row.form = sha /\ row.content = hist[rev]

Candidates ==
  {i \in Live(Shown) :
     Shown[i].kind # "pre_undo" /\ Shown[i].rev < Effective /\ ~IsCurrent(Shown[i])}

Target ==
  CHOOSE i \in Candidates : \A j \in Candidates :
    \/ Shown[j].rev < Shown[i].rev
    \/ Shown[j].rev = Shown[i].rev /\ j <= i

\* _cp_capture_current: a row of this revision, or a new one.
Holding == {i \in Live(rows) : rows[i].rev = rev}
Captured(kind, f) == IF Holding # {} THEN rows ELSE Added(NewRow(kind, rev, Effective, f))

\* Plausible bug: the next row is named, though one holds the content already.
MutantBefore == Len(WithS0) + 1

Before == IF Holding # {} THEN Newest(Holding) ELSE Len(WithS0) + 1

-------------------------------------------------------------------------------
(* What every change of the content does *)

\* The revision moves; what was noted of the one before no longer holds.
Becomes(c) ==
  /\ rev < MaxRev
  /\ rev' = rev + 1
  /\ hist' = [hist EXCEPT ![rev + 1] = c]

\* _push_undo_snapshot on an empty stack
Baseline(r) == IF depth > 0 THEN <<r>> ELSE <<>>

\* A branch of redo is good while the revision is the one the last undo made: it is
\* dropped here with the base; the code drops it when an undo or redo next looks.
DropRedo == storeRedo' = <<>> /\ parkedRedo' = Empty

\* _cp_replace_document with the row i
Replace(i) ==
  /\ Becomes(Shown[i].content)
  /\ sha' = Shown[i].form
  /\ undoStack' = Baseline(rev + 1)

-------------------------------------------------------------------------------
(* The tools *)

\* Any tool that draws: _mark_dirty.
Edit ==
  /\ up
  /\ Cardinality({r \in 1..rev : hist[r] = r}) < MaxEdits
  /\ Becomes(rev + 1)
  /\ LET pushed == Append(undoStack, rev + 1) IN
     undoStack' = IF depth = 0 THEN undoStack
                  ELSE IF Len(pushed) > depth + 1 THEN Tail(pushed) ELSE pushed
  /\ redoStack' = IF depth = 0 THEN redoStack ELSE <<>>
  /\ DropRedo
  /\ base' = None /\ sha' = 0
  /\ trail' = <<>> /\ replaced' = None /\ strayed' = FALSE
  /\ UNCHANGED <<depth, up, begins, s0, rows, saved>>

\* drawing_undo within the in-memory steps
UndoInMemory ==
  /\ up /\ "undo" \in Ops
  /\ Len(undoStack) >= 2
  /\ LET held == undoStack[Len(undoStack) - 1] IN Becomes(hist[held]) /\ base' = held
  /\ undoStack' = Front(undoStack)
  /\ redoStack' = Append(redoStack, Last(undoStack))
  /\ DropRedo
  /\ sha' = 0
  /\ trail' = Append(trail, Here) /\ replaced' = None
  /\ UNCHANGED <<depth, up, begins, s0, rows, saved, strayed>>

\* Plausible bug: the memory branch is left where the next redo looks first.
MutantParked(i) == redoStack' = redoStack /\ UNCHANGED parkedRedo

\* The memory branch is set aside for the redo of the row i.
Parked(i) ==
  /\ redoStack' = <<>>
  /\ parkedRedo' = IF redoStack = <<>> THEN parkedRedo
                   ELSE [j \in DOMAIN parkedRedo \cup {i} |-> IF j = i THEN redoStack ELSE parkedRedo[j]]

\* _cp_undo_sync: the bytes are read first; a row without its file refuses.
UndoInStore ==
  /\ up /\ "undo" \in Ops
  /\ Len(undoStack) < 2
  /\ Candidates # {} /\ Shown[Target].there
  /\ \E f \in Forms : rows' = Captured("pre_undo", f)
  /\ s0' = IF Holding # {} THEN s0 ELSE None
  /\ Replace(Target)
  /\ Parked(Before)
  /\ storeRedo' = Append(storeRedo, Before)
  /\ base' = Shown[Target].base
  /\ trail' = Append(trail, Here) /\ replaced' = None
  /\ Fits
  /\ UNCHANGED <<depth, up, begins, saved, strayed>>

\* ... and its bytes do not load: the capture stays.
UndoDoesNotLoad ==
  /\ up /\ {"undo"} \subseteq Ops /\ "load" \in Mishaps
  /\ Len(undoStack) < 2
  /\ Candidates # {} /\ Shown[Target].there
  /\ Holding = {}
  /\ \E f \in Forms : rows' = Captured("pre_undo", f) /\ sha' = f
  /\ s0' = None
  /\ Fits
  /\ UNCHANGED <<depth, up, rev, hist, base, undoStack, redoStack, parkedRedo, storeRedo, begins,
                 saved, ghosts>>

\* drawing_redo within the in-memory steps
RedoInMemory ==
  /\ up /\ "redo" \in Ops
  /\ redoStack # <<>>
  /\ LET held == Last(redoStack) IN
     /\ Becomes(hist[held])
     /\ undoStack' = Append(undoStack, held)
     /\ base' = held
  /\ redoStack' = Front(redoStack)
  /\ DropRedo
  /\ sha' = 0
  /\ trail' = Front(trail) /\ replaced' = None
  /\ UNCHANGED <<depth, up, begins, s0, rows, saved, strayed>>

\* _cp_redo_sync: an evicted row refuses and stays the next one to redo.
RedoInStore ==
  /\ up /\ "redo" \in Ops
  /\ redoStack = <<>> /\ storeRedo # <<>>
  /\ LET i == Last(storeRedo) IN
     /\ ~rows[i].evicted /\ rows[i].there
     /\ Replace(i)
     /\ base' = rows[i].base
     /\ redoStack' = IF i \in DOMAIN parkedRedo THEN parkedRedo[i] ELSE <<>>
     /\ parkedRedo' = [j \in DOMAIN parkedRedo \ {i} |-> parkedRedo[j]]
  /\ storeRedo' = Front(storeRedo)
  /\ trail' = Front(trail) /\ replaced' = None
  /\ UNCHANGED <<depth, up, begins, s0, rows, saved, strayed>>

\* Plausible bug: the restored row's base is carried over, as an undo does.
MutantRestoredBase(row) == row.base

\* The next undo steps back to what a restore replaced, not past it.
RestoredBase(row) == None

\* checkpoint_restore in place
Restore ==
  /\ up /\ "restore" \in Ops
  /\ \E i \in Live(Shown), f \in Forms :
       /\ Shown[i].there
       /\ rows' = Captured("pre_restore", f)
       /\ Replace(i)
       /\ base' = RestoredBase(Shown[i])
  /\ s0' = IF Holding # {} THEN s0 ELSE None
  /\ redoStack' = <<>>
  /\ DropRedo
  /\ trail' = <<>> /\ replaced' = Before /\ strayed' = FALSE
  /\ Fits
  /\ UNCHANGED <<depth, up, begins, saved>>

\* checkpoint_create.  Bound: one row of the revision.
Label ==
  /\ up /\ "label" \in Ops
  /\ Holding = {}
  /\ \E f \in Forms : rows' = Added(NewRow("label", rev, Effective, f)) /\ sha' = f
  /\ s0' = None
  /\ Fits
  /\ UNCHANGED <<depth, up, rev, hist, base, undoStack, redoStack, parkedRedo, storeRedo, begins,
                 saved, ghosts>>

\* drawing_save: the file, its record, and - unless the newest row holds the same
\* revision, or cannot be written - a row.
Save ==
  /\ up /\ "save" \in Ops
  /\ \E f \in Forms :
       /\ saved' = [rev |-> rev, content |-> hist[rev], form |-> f, trail |-> trail, strayed |-> strayed]
       /\ sha' = f
       /\ LET same == Live(rows) # {} /\ rows[Newest(Live(rows))].rev = rev IN
          \/ ~same /\ rows' = Added(NewRow("save", rev, Effective, f)) /\ s0' = None
          \/ ~same /\ "no_row" \in Mishaps /\ rows' = WithS0 /\ s0' = None
          \/ same /\ UNCHANGED <<rows, s0>>
  /\ Fits
  /\ UNCHANGED <<depth, up, rev, hist, base, undoStack, redoStack, parkedRedo, storeRedo, begins, ghosts>>

\* transaction_begin
Begin ==
  /\ up /\ "transaction" \in Ops
  /\ Len(begins) < MaxBegins
  /\ begins' = Append(begins, [rev |-> rev, base |-> Effective, trail |-> trail, strayed |-> strayed])
  /\ UNCHANGED <<depth, up, rev, hist, base, sha, undoStack, redoStack, parkedRedo, storeRedo, s0,
                 rows, saved, ghosts>>

\* Plausible bug: the begin's snapshot gets the revision of the close.
MutantClosed(p, f) == [NewRow("transaction", rev, rev, f) EXCEPT !.content = hist[p.rev]]

\* _cp_transaction_closed: the begin's snapshot, its revision and base become a row.
Closed(p, f) == NewRow("transaction", p.rev, p.base, f)

\* transaction_commit
Commit ==
  /\ up /\ begins # <<>>
  /\ \E f \in Forms : rows' = Added(Closed(Last(begins), f))
  /\ s0' = None
  /\ begins' = Front(begins)
  /\ Fits
  /\ UNCHANGED <<depth, up, rev, hist, base, sha, undoStack, redoStack, parkedRedo, storeRedo, saved, ghosts>>

\* transaction_rollback: the in-memory steps stay as they are.
Rollback ==
  /\ up /\ begins # <<>>
  /\ depth = 0 \/ "memory" \in Mishaps
  /\ LET p == Last(begins) IN
     /\ Becomes(hist[p.rev])
     /\ \E f \in Forms : rows' = Added(Closed(p, f)) /\ sha' = f
     /\ base' = p.base
     /\ trail' = p.trail /\ strayed' = p.strayed
  /\ s0' = None
  /\ begins' = Front(begins)
  /\ DropRedo
  /\ replaced' = None
  /\ Fits
  /\ UNCHANGED <<depth, up, undoStack, redoStack, saved>>

-------------------------------------------------------------------------------
(* The other lineages of the store, the end of the session, the next one *)

\* _evict_budget of another lineage's add: the oldest rows with a file.  Bound: only
\* while no row is evicted.
Budget(n) ==
  /\ Live(rows) = DOMAIN rows
  /\ LET gone == {i \in Live(rows) : i <= n /\ rows[i].form # 0}
         torn == "cut" \in Mishaps IN
     /\ gone # {}
     /\ \E marked \in {TRUE} \cup (IF torn THEN {FALSE} ELSE {}) :
          rows' = [i \in DOMAIN rows |->
            IF i \in gone THEN [rows[i] EXCEPT !.evicted = marked, !.there = FALSE] ELSE rows[i]]
  /\ UNCHANGED <<depth, up, rev, hist, memVars, s0, saved, ghosts>>

BudgetEvicts == {"budget", "cut"} \cap Mishaps # {} /\ \E n \in DOMAIN rows : Budget(n)

\* The drawing is closed without saving, or its server killed.
Leave ==
  /\ up /\ saved # None
  /\ saved.rev = rev \/ "unsaved" \in Mishaps
  /\ up' = FALSE
  /\ base' = None /\ sha' = 0
  /\ undoStack' = <<>> /\ redoStack' = <<>> /\ begins' = <<>> /\ s0' = None
  /\ DropRedo
  /\ trail' = <<>> /\ replaced' = None /\ strayed' = FALSE
  /\ UNCHANGED <<depth, rev, hist, rows, saved>>

\* Plausible bug: a reopened drawing starts with no undo base.
MutantReopenedBase(row, r) == None

ReopenedBase(row, r) == IF row.rev = r THEN row.base ELSE None

\* drawing_open of the saved file, as its record and the journal continue it
\* (lineage.resolve_open), and _cp_on_open.
Reopen ==
  /\ ~up
  /\ LET floor == saved.rev < rev
         r == IF floor THEN rev + 1 ELSE rev
         live == Live(rows)
         row == rows[Newest(live)]
         same == /\ live # {}
                 /\ \/ row.form = saved.form /\ row.content = saved.content
                    \/ ~floor /\ row.rev = r
         stray == saved.strayed \/ ~(same /\ row.rev = r) IN
     /\ r <= MaxRev
     /\ rev' = r
     /\ hist' = [hist EXCEPT ![r] = saved.content]
     /\ rows' = IF same THEN rows
                ELSE Trimmed(Append(rows, [NewRow("open", r, r, saved.form) EXCEPT !.content = saved.content]))
     /\ base' = IF same THEN ReopenedBase(row, r) ELSE None
     /\ undoStack' = Baseline(r)
     /\ saved' = [saved EXCEPT !.rev = r, !.strayed = stray]
     /\ strayed' = stray
  /\ sha' = saved.form
  /\ trail' = saved.trail
  /\ up' = TRUE
  /\ Fits
  /\ UNCHANGED <<depth, redoStack, parkedRedo, storeRedo, begins, s0, replaced>>

-------------------------------------------------------------------------------
\* drawing_new has returned: a blank drawing, or a template's bytes.
Init ==
  /\ depth \in Depths
  /\ up = TRUE
  /\ rev = 0
  /\ hist = [r \in Revs |-> r]
  /\ base = None /\ sha = 0
  /\ undoStack = IF depth > 0 THEN <<0>> ELSE <<>>
  /\ redoStack = <<>> /\ parkedRedo = Empty /\ storeRedo = <<>> /\ begins = <<>>
  /\ \E f \in {0} \cup Forms : s0 = [rev |-> 0, form |-> f]
  /\ rows = <<>> /\ saved = None
  /\ trail = <<>> /\ replaced = None /\ strayed = FALSE

Next ==
  \/ Edit
  \/ UndoInMemory \/ UndoInStore \/ UndoDoesNotLoad
  \/ RedoInMemory \/ RedoInStore
  \/ Restore \/ Label \/ Save
  \/ Begin \/ Commit \/ Rollback
  \/ BudgetEvicts \/ Leave \/ Reopen

Spec == Init /\ [][Next]_vars

-------------------------------------------------------------------------------
(* Properties *)

\* Types.
TypeOK ==
  /\ depth \in Depths /\ up \in BOOLEAN /\ rev \in Revs /\ hist \in [Revs -> Revs]
  /\ base \in Revs \cup {None} /\ sha \in Forms \cup {0}
  /\ undoStack \in Seq(Revs) /\ Len(undoStack) <= depth + 1
  /\ redoStack \in Seq(Revs) /\ Len(redoStack) <= depth
  /\ DOMAIN parkedRedo \subseteq DOMAIN rows /\ \A i \in DOMAIN parkedRedo : parkedRedo[i] \in Seq(Revs)
  /\ storeRedo \in Seq(DOMAIN rows)
  /\ begins \in Seq([rev : Revs, base : Revs, trail : Seq([rev : Revs, as : Revs]), strayed : BOOLEAN])
  /\ Len(begins) <= MaxBegins
  /\ s0 \in [rev : Revs, form : Forms \cup {0}] \cup {None}
  /\ rows \in Seq(Row) /\ Len(rows) <= MaxRows
  /\ \A i \in DOMAIN rows : rows[i].base <= rows[i].rev
  /\ saved \in [rev : Revs, content : Revs, form : Forms, trail : Seq([rev : Revs, as : Revs]), strayed : BOOLEAN] \cup {None}
  /\ trail \in Seq([rev : Revs, as : Revs]) /\ replaced \in DOMAIN rows \cup {None} /\ strayed \in BOOLEAN

\* A row that is kept holds what the drawing was at the row's revision - although a
\* transaction's row is written when it closes, and a save at the newest row's revision
\* writes none - and what an undo steps back from names the content that is current.
RowsHoldTheirRevision ==
  /\ \A i \in Live(Shown) : Shown[i].content = hist[Shown[i].rev]
  /\ up => hist[Effective] = hist[rev]

Redo == RedoInMemory \/ RedoInStore

\* Redo retraces every undo: each brings back what the newest undo not yet redone
\* replaced, across the border between the in-memory steps and the store.
RedoRetraces == [][Redo => trail # <<>> /\ hist'[rev'] = hist[Last(trail).rev]]_vars

\* The revision of the state that drawing_undo would restore, if it finds one.
StepsBackTo ==
  IF ~up THEN {}
  ELSE IF Len(undoStack) >= 2 THEN {undoStack[Len(undoStack) - 1]}
  ELSE {Shown[i].rev : i \in IF Candidates = {} THEN {} ELSE {Target}}

\* After a checkpoint is restored in place the next undo returns to the state it
\* replaced, and not past it - as long as the index says that the row is kept.
RestoreIsUndone ==
  (replaced # None /\ ~rows[replaced].evicted) =>
    \/ hist[rev] = rows[replaced].content
    \/ /\ Len(undoStack) < 2 /\ Candidates # {}
       /\ Shown[Target].there /\ Shown[Target].content = rows[replaced].content

StepsForward == \E i \in DOMAIN trail : {trail[i].rev, trail[i].as} \cap StepsBackTo # {}

\* Without in-memory steps an undo keeps walking back: it restores no state that an
\* earlier undo left behind, in this session or, where a row tells the reopened
\* drawing's base, before it.
UndoWalksBack == depth = 0 /\ ~strayed => ~StepsForward

\* "A second undo keeps walking back and an undo after a restart does not step forward
\* onto the state the first undo left" (ezdxf_checkpoints.py:31) - whatever the restart
\* lost, and with in-memory steps too.
NeverStepsForward == ~StepsForward
================================================================================
