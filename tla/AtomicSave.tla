------------------------------- MODULE AtomicSave ------------------------------
(***************************************************************************)
(* The save protocol of the headless engine and the recovery of a save     *)
(* that a kill cut short (backends/atomic_write.py), for one target file:  *)
(* a marker, a temporary file beside the target, its check, the replace -  *)
(* or, where the target has a second hard link, a copy into it.  Servers   *)
(* come and go, two may be alive on the same folders, and other programs   *)
(* write the file.  A name in a folder is told from the file it names.     *)
(***************************************************************************)
EXTENDS Naturals, FiniteSets

CONSTANTS
  MaxWrites,   \* bound: saves, and writes of other programs
  MaxStarts,   \* bound: server processes, the dead one of the start included
  Together,    \* may two servers be alive at once?
  Links,       \* may the target have a second hard link?
  Mishaps,     \* "same_pid": a restarted server has the pid of the one before it;
               \* "overlap": a save begins while an abandoned one still works;
               \* "copy_fails": a copy into the target breaks half way;
               \* "race": the target is written while a recovery judges it;
               \* "unreadable": a marker that is there cannot be read
  None

ASSUME SaveAssumption ==
  /\ {MaxWrites, MaxStarts} \subseteq Nat \ {0}
  /\ Together \in BOOLEAN /\ Links \subseteq BOOLEAN
  /\ Mishaps \subseteq {"same_pid", "overlap", "copy_fails", "race", "unreadable"}
  /\ "same_pid" \in Mishaps => ~Together
  /\ None \notin 0..(MaxWrites + 2)

Procs == 1..MaxStarts
Writes == 1..MaxWrites

\* A file is named by the write that made it; 0: the one at the start; the last: a
\* temporary file of the dead process.
Orphan == MaxWrites + 1
Files == 0..Orphan

\* A file holds what one write wrote, or something half written.
Torn == MaxWrites + 2
Contents == Writes \cup {0, Torn}

\* A marker's data; a recovery: that data with what it read, and the file it copies into.
Markers == [owner : Procs, expected : Contents \cup {None}, previous : Contents \cup {None},
            inplace : BOOLEAN]
Recoveries == [key : Procs, data : Markers, now : Contents \cup {None},
               staged : Contents \cup {None}, into : Files \cup {None}]

ASSUME NoRecord == None \notin Markers /\ None \notin Recoveries

VARIABLES
  disk,      \* what each file holds
  target,    \* the file under the target's name; None - there is none
  linked,    \* has it a second name?
  tmp,       \* the file under the temporary name of a pid
  marker,    \* the marker of a pid
  up,        \* the processes that are alive
  started,   \* how many there have been
  proc,      \* the process of each save; 0 - another program
  pc,        \* "idle", "begun", "writing", "written", "verified", "copying", "landed",
             \* "undone", "done", "failed", "dead"
  ino,       \* the file a save has open to write
  into,      \* the file its copy goes to
  previous,  \* what the target held when it began
  inplace,   \* was the target hard linked then?
  passing,   \* the processes at a pass over the markers
  todo,      \* the markers a pass has listed and not come to yet
  rec,       \* the one it is at
  ready,     \* the processes whose pass at the start is over
  due,       \* the processes, dead when a process started, its pass has not failed on
  spoilt     \* has a sweep, or another recovery, taken the file that would finish a copy?

fileVars == <<disk, target, linked, tmp, marker>>
procVars == <<up, started>>
saveVars == <<proc, pc, ino, into, previous, inplace>>
passVars == <<passing, todo, ready, due, spoilt>>
vars == <<fileVars, procVars, saveVars, passVars, rec>>

-------------------------------------------------------------------------------
(* Files, processes, markers *)

Key(p) == IF "same_pid" \in Mishaps THEN 1 ELSE p

\* What the target's name holds; None - nothing.
Now == IF target = None THEN None ELSE disk[target]

Staged(k) == IF tmp[k] = None THEN None ELSE disk[tmp[k]]

Working(s) == pc[s] \in {"begun", "writing", "written", "verified", "copying", "landed", "undone"}

\* Plausible bug: every marker of another pid is taken for a dead process's.
MutantOwnerAlive(p, m) == Key(m.owner) = Key(p)

\* Plausible bug: any live server passes for the marker's owner.
MutantAnyAlive(p, m) == Key(m.owner) = Key(p) \/ up # {}

\* _owner_alive, asked by p: its own pid is a save of its own in flight.
OwnerAlive(p, m) == Key(m.owner) = Key(p) \/ m.owner \in up

\* Nobody writes the target while a recovery judges it.
Quiet == "race" \in Mishaps \/ \A p \in Procs : rec[p] = None

\* The engine of a process has one call at work - but for an abandoned one.
Free(p) ==
  /\ p \notin passing
  /\ "overlap" \in Mishaps \/ \A s \in Writes : proc[s] = p => ~Working(s)

\* The marker k is in place, and its checked temporary file can finish the copy.
CanFinish(k) ==
  /\ marker[k] # None /\ marker[k].inplace
  /\ marker[k].expected # None /\ marker[k].expected = Staged(k)

-------------------------------------------------------------------------------
(* atomic_write_dxf *)

\* The target's digest, and the marker in its phase "writing".
Begin(p, s) ==
  /\ pc[s] = "idle"
  /\ \A w \in 1..(s - 1) : pc[w] # "idle"
  /\ p \in ready /\ Free(p)
  /\ proc' = [proc EXCEPT ![s] = p]
  /\ pc' = [pc EXCEPT ![s] = "begun"]
  /\ previous' = [previous EXCEPT ![s] = Now]
  /\ inplace' = [inplace EXCEPT ![s] = linked /\ target # None]
  /\ marker' = [marker EXCEPT ![Key(p)] =
       [owner |-> p, expected |-> None, previous |-> Now, inplace |-> linked /\ target # None]]
  /\ UNCHANGED <<disk, target, linked, tmp, procVars, ino, into, rec, passVars>>

\* The temporary name is opened to write: a file that has it is emptied.
OpenTmp(s) ==
  /\ pc[s] = "begun"
  /\ LET k == Key(proc[s])
         f == IF tmp[k] = None THEN s ELSE tmp[k] IN
     /\ tmp' = [tmp EXCEPT ![k] = f]
     /\ disk' = [disk EXCEPT ![f] = Torn]
     /\ ino' = [ino EXCEPT ![s] = f]
  /\ pc' = [pc EXCEPT ![s] = "writing"]
  /\ UNCHANGED <<target, linked, marker, procVars, proc, into, previous, inplace, rec, passVars>>

\* All of the document is written - unless another save writes the same file.
WriteTmp(s) ==
  /\ pc[s] = "writing"
  /\ LET shared == \E w \in Writes \ {s} : pc[w] # "idle" /\ ino[w] = ino[s] IN
     \E c \in {s} \cup (IF shared THEN {Torn} ELSE {}) : disk' = [disk EXCEPT ![ino[s]] = c]
  /\ pc' = [pc EXCEPT ![s] = "written"]
  /\ UNCHANGED <<target, linked, tmp, marker, procVars, proc, ino, into, previous, inplace, rec, passVars>>

\* What has the temporary name is read back and checked; the marker says so.  The
\* check counts: what another save wrote may pass it, half a file does not.
Verify(s) ==
  /\ pc[s] = "written"
  /\ Staged(Key(proc[s])) \notin {None, Torn}
  /\ marker' = [marker EXCEPT ![Key(proc[s])] =
       [owner |-> proc[s], expected |-> Staged(Key(proc[s])), previous |-> previous[s], inplace |-> inplace[s]]]
  /\ pc' = [pc EXCEPT ![s] = "verified"]
  /\ UNCHANGED <<disk, target, linked, tmp, procVars, proc, ino, into, previous, inplace, rec, passVars>>

Replace(s) ==
  /\ pc[s] = "verified" /\ ~inplace[s]
  /\ tmp[Key(proc[s])] # None
  /\ Quiet
  /\ target' = tmp[Key(proc[s])]
  /\ linked' = FALSE
  /\ tmp' = [tmp EXCEPT ![Key(proc[s])] = None]
  /\ pc' = [pc EXCEPT ![s] = "landed"]
  /\ UNCHANGED <<disk, marker, procVars, proc, ino, into, previous, inplace, rec, passVars>>

\* _copy_into: the target's own file is overwritten from the temporary one.
CopyStart(s) ==
  /\ pc[s] = "verified" /\ inplace[s]
  /\ tmp[Key(proc[s])] # None
  /\ Quiet
  /\ disk' = [disk EXCEPT ![target] = Torn]
  /\ ino' = [ino EXCEPT ![s] = tmp[Key(proc[s])]]
  /\ into' = [into EXCEPT ![s] = target]
  /\ pc' = [pc EXCEPT ![s] = "copying"]
  /\ UNCHANGED <<target, linked, tmp, marker, procVars, proc, previous, inplace, rec, passVars>>

CopyEnd(s) ==
  /\ pc[s] = "copying"
  /\ Quiet
  /\ disk' = [disk EXCEPT ![into[s]] = disk[ino[s]]]
  /\ tmp' = [tmp EXCEPT ![Key(proc[s])] = None]
  /\ pc' = [pc EXCEPT ![s] = "landed"]
  /\ UNCHANGED <<target, linked, marker, procVars, proc, ino, into, previous, inplace, rec, passVars>>

\* A step raises - the writer, the check, a lock that outlasts the retries, a name
\* that is gone: the temporary name is removed, and then the marker.
Break(s) ==
  /\ \/ pc[s] \in {"begun", "writing", "written", "verified"}
     \/ pc[s] = "copying" /\ "copy_fails" \in Mishaps
  /\ tmp' = [tmp EXCEPT ![Key(proc[s])] = None]
  /\ pc' = [pc EXCEPT ![s] = "undone"]
  /\ UNCHANGED <<disk, target, linked, marker, procVars, proc, ino, into, previous, inplace, rec, passVars>>

Unmark(s) ==
  /\ pc[s] \in {"landed", "undone"}
  /\ marker' = [marker EXCEPT ![Key(proc[s])] = None]
  /\ pc' = [pc EXCEPT ![s] = IF pc[s] = "landed" THEN "done" ELSE "failed"]
  /\ UNCHANGED <<disk, target, linked, tmp, procVars, proc, ino, into, previous, inplace, rec, passVars>>

-------------------------------------------------------------------------------
(* resolve_pending *)

\* The markers that are there: a server's start lists them, and a drawing_open of the
\* target does.
Pending == {k \in Procs : marker[k] # None}

BeginPass(p) ==
  /\ p \in ready /\ Free(p)
  /\ passing' = passing \cup {p}
  /\ todo' = [todo EXCEPT ![p] = Pending]
  /\ UNCHANGED <<fileVars, procVars, saveVars, rec, ready, due, spoilt>>

\* The next of them is gone by now, or its owner lives; or it cannot be read, and is
\* removed, whoever owns it.
Skip(p, k) ==
  /\ k \in todo[p] /\ rec[p] = None
  /\ \/ (marker[k] # None => OwnerAlive(p, marker[k])) /\ UNCHANGED marker
     \/ "unreadable" \in Mishaps /\ marker' = [marker EXCEPT ![k] = None]
  /\ todo' = [todo EXCEPT ![p] = @ \ {k}]
  /\ UNCHANGED <<disk, target, linked, tmp, procVars, saveVars, rec, passing, ready, due, spoilt>>

\* Its owner is dead: its data and the digests of both files are read.
Judge(p, k) ==
  /\ k \in todo[p] /\ rec[p] = None
  /\ marker[k] # None /\ ~OwnerAlive(p, marker[k])
  /\ \A s \in Writes : pc[s] = "copying" => "race" \in Mishaps
  /\ todo' = [todo EXCEPT ![p] = @ \ {k}]
  /\ rec' = [rec EXCEPT ![p] = [key |-> k, data |-> marker[k], now |-> Now,
                                staged |-> Staged(k), into |-> None]]
  /\ UNCHANGED <<fileVars, procVars, saveVars, passing, ready, due, spoilt>>

\* The dead save's file had replaced the target.
Completed(r) == r.data.expected # None /\ r.now = r.data.expected

\* Plausible bug: the in-place mode is forgotten.
MutantFinishes(r) ==
  /\ r.data.expected # None /\ r.staged = r.data.expected
  /\ r.now = r.data.previous

\* Plausible bug: a verified temporary file is put in place whatever the target is now.
MutantOverwrites(r) == r.data.expected # None /\ r.staged = r.data.expected

\* Its checked temporary file is there, and the target is as it began.
Finishes(r) ==
  /\ r.data.expected # None /\ r.staged = r.data.expected
  /\ r.now = r.data.previous \/ r.data.inplace

\* The temporary name and the marker are removed; the target is left as it is.
RollBack(p) ==
  /\ rec[p] # None
  /\ Completed(rec[p]) \/ ~Finishes(rec[p])
  /\ tmp' = [tmp EXCEPT ![rec[p].key] = None]
  /\ marker' = [marker EXCEPT ![rec[p].key] = None]
  /\ rec' = [rec EXCEPT ![p] = None]
  /\ UNCHANGED <<disk, target, linked, procVars, saveVars, passVars>>

FinishReplace(p) ==
  /\ rec[p] # None
  /\ ~Completed(rec[p]) /\ Finishes(rec[p])
  /\ ~rec[p].data.inplace \/ rec[p].now = None
  /\ tmp[rec[p].key] # None
  /\ target' = tmp[rec[p].key]
  /\ linked' = FALSE
  /\ tmp' = [tmp EXCEPT ![rec[p].key] = None]
  /\ marker' = [marker EXCEPT ![rec[p].key] = None]
  /\ rec' = [rec EXCEPT ![p] = None]
  /\ UNCHANGED <<disk, procVars, saveVars, passVars>>

\* The start and the end of its copy: both files stay open whatever their names do.
FinishCopy(p) ==
  /\ rec[p] # None
  /\ ~Completed(rec[p]) /\ Finishes(rec[p])
  /\ rec[p].data.inplace /\ rec[p].now # None
  /\ tmp[rec[p].key] # None
  /\ \/ /\ rec[p].into = None
        /\ disk' = [disk EXCEPT ![target] = Torn]
        /\ rec' = [rec EXCEPT ![p].into = target]
        /\ UNCHANGED <<tmp, marker, spoilt>>
     \/ /\ rec[p].into # None
        /\ disk' = [disk EXCEPT ![rec[p].into] = rec[p].staged]
        /\ tmp' = [tmp EXCEPT ![rec[p].key] = None]
        /\ marker' = [marker EXCEPT ![rec[p].key] = None]
        /\ rec' = [rec EXCEPT ![p] = None]
        /\ spoilt' = (spoilt \/ (target # rec[p].into /\ Now = Torn))
  /\ UNCHANGED <<target, linked, procVars, saveVars, passing, todo, ready, due>>

\* The pass of p failed on these: if it is that of its start, that is not asked of it.
Excuse(p, owners) == [due EXCEPT ![p] = IF p \in ready THEN @ ELSE @ \ owners]

\* An OSError - a file that cannot be read, is gone, or breaks off the copy; or a copy
\* whose source has lost its name: the marker stays, and the pass goes on.
FinishFails(p) ==
  /\ rec[p] # None
  /\ \/ disk' = disk
     \/ /\ rec[p].into # None /\ tmp[rec[p].key] = None
        /\ disk' = [disk EXCEPT ![rec[p].into] = rec[p].staged]
  /\ rec' = [rec EXCEPT ![p] = None]
  /\ due' = Excuse(p, {rec[p].data.owner})
  /\ UNCHANGED <<target, linked, tmp, marker, procVars, saveVars, passing, todo, ready, spoilt>>

\* The target stays locked: SaveLockedError is no OSError, and ends the pass.
StaysLocked(p) ==
  /\ p \in passing /\ rec[p] # None
  /\ ~Completed(rec[p]) /\ Finishes(rec[p])
  /\ rec' = [rec EXCEPT ![p] = None]
  /\ passing' = passing \ {p}
  /\ todo' = [todo EXCEPT ![p] = {}]
  /\ ready' = ready \cup {p}
  /\ due' = Excuse(p, {rec[p].data.owner} \cup
                      {marker[k].owner : k \in todo[p] \cap Pending})
  /\ UNCHANGED <<fileVars, procVars, saveVars, spoilt>>

\* _orphan_tmps, after a drawing_open's pass: the temporary file of a dead process,
\* though a marker may stand that names it - one the pass failed on, or whose owner
\* lived or was not listed when the pass came by.
Sweep(p, q) ==
  /\ p \in passing \cap ready /\ todo[p] = {} /\ rec[p] = None
  /\ q \notin up /\ Key(q) # Key(p)
  /\ tmp[Key(q)] # None
  /\ tmp' = [tmp EXCEPT ![Key(q)] = None]
  /\ spoilt' = (spoilt \/ (Now = Torn /\ CanFinish(Key(q))))
  /\ UNCHANGED <<disk, target, linked, marker, procVars, saveVars, rec, passing, todo, ready, due>>

\* All that was listed has been come to; what dies from now on is a later pass's.
EndPass(p) ==
  /\ p \in passing /\ todo[p] = {} /\ rec[p] = None
  /\ p \in ready => \A q \in Procs \ up : Key(q) # Key(p) => tmp[Key(q)] = None
  /\ passing' = passing \ {p}
  /\ ready' = ready \cup {p}
  /\ UNCHANGED <<fileVars, procVars, saveVars, rec, todo, due, spoilt>>

-------------------------------------------------------------------------------
(* Processes and other programs *)

\* A server starts, and its pass over the markers with it.
Start(p) ==
  /\ p = started + 1
  /\ Together \/ up = {}
  /\ up' = up \cup {p}
  /\ started' = p
  /\ due' = [due EXCEPT ![p] = (1..started) \ up]
  /\ passing' = passing \cup {p}
  /\ todo' = [todo EXCEPT ![p] = Pending]
  /\ UNCHANGED <<fileVars, saveVars, rec, ready, spoilt>>

\* Plausible bug: the process is given up while its worker still saves.
MutantKill(p) ==
  /\ p \in up
  /\ up' = up \ {p}
  /\ ready' = ready \ {p} /\ passing' = passing \ {p}
  /\ todo' = [todo EXCEPT ![p] = {}]
  /\ rec' = [rec EXCEPT ![p] = None]
  /\ due' = [due EXCEPT ![p] = {}]
  /\ UNCHANGED <<fileVars, started, saveVars, spoilt>>

Kill(p) ==
  /\ p \in up
  /\ up' = up \ {p}
  /\ ready' = ready \ {p} /\ passing' = passing \ {p}
  /\ pc' = [s \in Writes |-> IF proc[s] = p /\ Working(s) THEN "dead" ELSE pc[s]]
  /\ todo' = [todo EXCEPT ![p] = {}]
  /\ rec' = [rec EXCEPT ![p] = None]
  /\ due' = [due EXCEPT ![p] = {}]
  /\ UNCHANGED <<fileVars, started, proc, ino, into, previous, inplace, spoilt>>

\* Another program writes the target: into its file, or a new file under its name.
ForeignWrite(s) ==
  /\ pc[s] = "idle"
  /\ \A w \in 1..(s - 1) : pc[w] # "idle"
  /\ Quiet
  /\ \A w \in Writes : pc[w] # "copying"
  /\ \/ target # None /\ disk' = [disk EXCEPT ![target] = s] /\ UNCHANGED <<target, linked>>
     \/ disk' = [disk EXCEPT ![s] = s] /\ target' = s /\ linked' = FALSE
  /\ pc' = [pc EXCEPT ![s] = "done"]
  /\ UNCHANGED <<tmp, marker, procVars, proc, ino, into, previous, inplace, rec, passVars>>

-------------------------------------------------------------------------------
\* A process has died; the target is there or not, and perhaps a temporary file
\* whose marker a power loss took.
Init ==
  /\ disk = [f \in Files |-> IF f = 0 THEN 0 ELSE Torn]
  /\ target \in {None, 0}
  /\ linked \in (IF target = None THEN {FALSE} ELSE Links)
  /\ tmp \in {[k \in Procs |-> None], [k \in Procs |-> IF k = 1 THEN Orphan ELSE None]}
  /\ marker = [k \in Procs |-> None]
  /\ up = {} /\ started = 1
  /\ proc = [s \in Writes |-> 0]
  /\ pc = [s \in Writes |-> "idle"]
  /\ ino = [s \in Writes |-> None]
  /\ into = [s \in Writes |-> None]
  /\ previous = [s \in Writes |-> None]
  /\ inplace = [s \in Writes |-> FALSE]
  /\ rec = [p \in Procs |-> None]
  /\ passing = {} /\ ready = {}
  /\ todo = [p \in Procs |-> {}] /\ due = [p \in Procs |-> {}]
  /\ spoilt = FALSE

Save(s) ==
  \/ OpenTmp(s) \/ WriteTmp(s) \/ Verify(s)
  \/ Replace(s) \/ CopyStart(s) \/ CopyEnd(s)
  \/ Break(s) \/ Unmark(s)

Recover(p) == RollBack(p) \/ FinishReplace(p) \/ FinishCopy(p) \/ FinishFails(p) \/ StaysLocked(p)

Next ==
  \/ \E p \in Procs, s \in Writes : Begin(p, s)
  \/ \E s \in Writes : Save(s) \/ ForeignWrite(s)
  \/ \E p, k \in Procs : Skip(p, k) \/ Judge(p, k) \/ Sweep(p, k)
  \/ \E p \in Procs : BeginPass(p) \/ Recover(p) \/ EndPass(p) \/ Start(p) \/ Kill(p)

Spec == Init /\ [][Next]_vars

-------------------------------------------------------------------------------
(* Properties *)

\* Types.
TypeOK ==
  /\ disk \in [Files -> Contents]
  /\ target \in Files \cup {None} /\ linked \in BOOLEAN
  /\ tmp \in [Procs -> Files \cup {None}]
  /\ marker \in [Procs -> Markers \cup {None}]
  /\ up \subseteq Procs /\ ready \subseteq up /\ passing \subseteq up
  /\ todo \in [Procs -> SUBSET Procs] /\ due \in [Procs -> SUBSET Procs]
  /\ spoilt \in BOOLEAN
  /\ started \in Procs
  /\ proc \in [Writes -> Procs \cup {0}]
  /\ \A s \in Writes : Working(s) => proc[s] \in up
  /\ pc \in [Writes -> {"idle", "begun", "writing", "written", "verified", "copying", "landed",
                        "undone", "done", "failed", "dead"}]
  /\ ino \in [Writes -> Files \cup {None}] /\ into \in [Writes -> Files \cup {None}]
  /\ previous \in [Writes -> Contents \cup {None}]
  /\ inplace \in [Writes -> BOOLEAN]
  /\ rec \in [Procs -> Recoveries \cup {None}]

\* The target is never half written - but for a hard-linked one while it is copied
\* into, and then, should the copy be cut short by a kill, a marker is left and the
\* checked temporary file that finishes it - until a sweep takes that file, or a second
\* recovery of the same marker does, whose copy went to the file the name had before.
TargetWhole ==
  Now = Torn =>
    \/ \E s \in Writes : pc[s] = "copying" /\ into[s] = target
    \/ \E k \in Procs : CanFinish(k)
    \/ spoilt

\* A recovery never takes back what was written after the dead save began: it puts
\* that save's file only over what the save itself found (or tore).
RecoveryKeeps ==
  [][\A s \in Writes :
       (pc[s] = "dead" /\ ~inplace[s] /\ Now' = s /\ Now # s) => Now \in {previous[s], Torn}]_vars

\* The one pass of a start is enough: of the servers that were dead by then it leaves
\* no marker but those its recovery failed on, and no torn target - one that is torn
\* afterwards is so by a server that has lived since.
StartRepairs ==
  \A p \in ready :
    /\ \A k \in Procs : marker[k] # None => marker[k].owner \notin due[p]
    /\ Now = Torn => \/ \E s \in Writes : pc[s] = "copying" /\ into[s] = target
                     \/ \E k \in Procs : CanFinish(k) /\ marker[k].owner \notin due[p]
                     \/ spoilt

\* A marker of a live process is never touched: while its save works and nothing
\* broke, the marker is there to name it.
LiveMarkersStay ==
  \A s \in Writes : Working(s) => marker[Key(proc[s])] # None
===============================================================================
