----------------------------- MODULE AtomicSave_proofs -------------------------
(***************************************************************************)
(* Proofs about AtomicSave, for any number of writes, of servers and of    *)
(* servers alive at once, with and without hard links: the types, that a   *)
(* live save's marker stays, that the target is whole or a marker is left  *)
(* that makes it so, and that one pass of a start repairs what it finds.   *)
(***************************************************************************)
EXTENDS AtomicSave, TLAPS

\* Each server process has a pid of its own.
OwnPid == "same_pid" \notin Mishaps

\* A process saves a path once at a time, and a marker that is there can be read.
OneAtATime == OwnPid /\ "overlap" \notin Mishaps /\ "unreadable" \notin Mishaps

\* And a copy into the target breaks only by a kill.
CopiesEnd == OneAtATime /\ "copy_fails" \notin Mishaps

-------------------------------------------------------------------------------
(* Invariants *)

\* What a save that writes or copies has open is a file; a recovery copies a content.
HasOpen ==
  /\ \A s \in Writes : pc[s] \in {"writing", "copying"} => ino[s] \in Files
  /\ \A p \in Procs : rec[p] # None /\ rec[p].into # None => rec[p].staged \in Contents

TypeInv == TypeOK /\ HasOpen

\* A marker is under its owner's pid, and its owner has started.
MarkerOfKey == \A k \in Procs : marker[k] # None => marker[k].owner = k /\ k <= started

UpStarted == \A p \in up : p <= started

\* A recovery is of a process that is dead, and stays so.
RecOfDead ==
  \A p \in Procs : rec[p] # None =>
    rec[p].key = rec[p].data.owner /\ rec[p].key <= started /\ rec[p].key \notin up

\* So is what a process found dead when it started.
DueDead == \A p \in Procs : \A q \in due[p] : q <= started /\ q \notin up

\* What is listed, and what is judged, is of a pass.
RecPasses == \A p \in Procs : (rec[p] # None => p \in passing) /\ \A k \in todo[p] : p \in passing

\* The pass of a start has what it has to answer for listed, or at hand.
PassKeeps ==
  \A p \in passing \ ready, k \in Procs : marker[k] # None /\ k \in due[p] =>
    k \in todo[p] \/ (rec[p] # None /\ rec[p].key = k)

\* When it is over, no marker of those is left.
Repaired == \A p \in ready, k \in Procs : marker[k] # None => k \notin due[p]

PidInv ==
  /\ TypeInv /\ MarkerOfKey /\ UpStarted /\ RecOfDead /\ DueDead
  /\ RecPasses /\ PassKeeps /\ Repaired

OneSave == \A s, t \in Writes : Working(s) /\ Working(t) /\ proc[s] = proc[t] => s = t

LiveInv == PidInv /\ OneSave /\ LiveMarkersStay

\* The temporary name of a live process is its working save's; of one that has not
\* started there is none.
TmpOfWork ==
  /\ \A p \in up : tmp[p] # None => \E s \in Writes : Working(s) /\ proc[s] = p
  /\ \A p \in Procs : p > started => tmp[p] = None

\* A working save: its file, and what its marker says of it.
Steps(s) ==
  /\ pc[s] \in {"begun", "landed", "undone"} => tmp[proc[s]] = None
  /\ pc[s] \in {"writing", "written", "verified", "copying"} => tmp[proc[s]] = s /\ ino[s] = s
  /\ pc[s] \in {"begun", "writing", "written"} => marker[proc[s]].expected = None
  /\ pc[s] \in {"verified", "copying"} => marker[proc[s]].expected = s /\ marker[proc[s]].inplace = inplace[s]
  /\ pc[s] = "copying" => inplace[s]
  /\ pc[s] \in {"written", "verified", "copying"} => disk[s] = s

SaveSteps == \A s \in Writes : Working(s) => Steps(s)

\* A save has only its own file open.
OwnFile == \A s \in Writes : ino[s] \in {None, s}

\* No file has two temporary names, nor one and the target's, nor is copied into while
\* it has one.
NamesApart ==
  /\ \A j, k \in Procs : tmp[j] # None /\ tmp[j] = tmp[k] => j = k
  /\ \A k \in Procs : tmp[k] # None => tmp[k] # target /\ \A s \in Writes : into[s] # tmp[k]

\* A write that has not made its file has left no trace.
FreshFile ==
  \A s \in Writes : pc[s] \in {"idle", "begun"} =>
    s # target /\ Now # s /\ (\A k \in Procs : tmp[k] # s) /\ \A t \in Writes : into[t] # s

\* What has a temporary name is not yet in the target.
NotYetThere == \A k \in Procs : tmp[k] # None => Now # tmp[k]

\* A marker that expects a content: the temporary file, if it is there, holds it.
Expects ==
  \A k \in Procs : marker[k] # None /\ marker[k].expected # None =>
    /\ marker[k].expected \in Writes
    /\ tmp[k] # None => tmp[k] = marker[k].expected /\ disk[tmp[k]] = marker[k].expected

\* What a recovery read still stands while the temporary name does.
RecStands ==
  \A p \in Procs : rec[p] # None /\ tmp[rec[p].key] # None =>
    /\ marker[rec[p].key] = rec[p].data
    /\ rec[p].data.expected # None => /\ rec[p].staged = rec[p].data.expected
                                      /\ rec[p].now # rec[p].data.expected

\* The marker of a dead process that finishes a copy which was cut short.
Resumable(k) ==
  k \notin up /\ marker[k] # None /\ marker[k].inplace /\ marker[k].expected # None /\ tmp[k] # None

\* The files a recovery copies between: a checked one that has no other name, and one
\* that has no temporary name; neither is yet to be made.
RecOpen ==
  \A p \in Procs : rec[p] # None /\ rec[p].into # None =>
    /\ rec[p].staged \in Writes
    /\ \A k \in Procs : tmp[k] # None => tmp[k] # rec[p].into
    /\ \A k \in Procs \ {rec[p].key} : tmp[k] # rec[p].staged
    /\ \A t \in Writes : pc[t] \in {"idle", "begun"} => t # rec[p].into /\ t # rec[p].staged

\* The target is torn by a copy that goes on, or by one that can be finished.
TornWhy ==
  Now = Torn => \/ \E s \in Writes : pc[s] = "copying" /\ into[s] = target
                \/ \E k \in Procs : Resumable(k)
                \/ spoilt

FileInv ==
  /\ TmpOfWork /\ SaveSteps /\ OwnFile /\ NamesApart /\ FreshFile
  /\ NotYetThere /\ Expects /\ RecStands /\ RecOpen /\ TornWhy

SaveInv == LiveInv /\ FileInv

-------------------------------------------------------------------------------
(* Types *)

\* What the bounds say of names and contents.
LEMMA Names ==
  /\ MaxWrites \in Nat /\ MaxStarts \in Nat /\ Procs \subseteq Nat /\ 1 \in Procs
  /\ Writes \subseteq Files /\ 0 \in Files /\ Orphan \in Files /\ None \notin Files
  /\ Writes \subseteq Contents /\ 0 \in Contents /\ Torn \in Contents /\ None \notin Contents
  /\ 0 \notin Writes /\ Orphan \notin Contents /\ Torn \notin Files
BY SaveAssumption DEF Procs, Writes, Files, Orphan, Contents, Torn

\* The key of a process is a process.
LEMMA KeyType == \A p \in Procs : Key(p) \in Procs
BY Names DEF Key

\* What a name holds is a content, or nothing.
LEMMA Holds ==
  ASSUME TypeOK
  PROVE  Now \in Contents \cup {None} /\ \A k \in Procs : Staged(k) \in Contents \cup {None}
BY Names DEF TypeOK, Now, Staged

\* A working save is of a live process.
LEMMA WorkersUp ==
  ASSUME TypeOK, NEW s \in Writes, Working(s)
  PROVE  proc[s] \in up /\ proc[s] \in Procs /\ Key(proc[s]) \in Procs
BY KeyType DEF TypeOK

\* A save that begins.
LEMMA BeginType == ASSUME TypeInv, NEW p \in Procs, NEW s \in Writes, Begin(p, s) PROVE TypeInv'
<1> USE DEF TypeInv, TypeOK
<1>1. [owner |-> p, expected |-> None, previous |-> Now, inplace |-> linked /\ target # None] \in Markers
  BY Holds DEF Markers
<1>2. marker' \in [Procs -> Markers \cup {None}]
  BY <1>1, KeyType DEF Begin
<1>3. proc' \in [Writes -> Procs \cup {0}]
  BY DEF Begin
<1>4. pc' = [pc EXCEPT ![s] = "begun"]
  BY DEF Begin
<1>5. previous' \in [Writes -> Contents \cup {None}]
  BY Holds DEF Begin
<1>6. inplace' \in [Writes -> BOOLEAN]
  <2>1. (linked /\ target # None) \in BOOLEAN
    OBVIOUS
  <2>2. QED
    BY <2>1 DEF Begin
<1>7. \A t \in Writes : Working(t)' => proc'[t] \in up'
  <2>1. p \in up /\ up' = up /\ proc' = [proc EXCEPT ![s] = p]
    BY DEF Begin, procVars
  <2>2. proc'[s] \in up'
    BY <2>1
  <2>3. \A t \in Writes \ {s} : Working(t)' => Working(t) /\ proc'[t] = proc[t]
    BY <1>4, <2>1 DEF Working
  <2>4. QED
    BY <2>1, <2>2, <2>3
<1>8. HasOpen'
  BY <1>4 DEF Begin, HasOpen
<1>9. QED
  BY <1>2, <1>3, <1>4, <1>5, <1>6, <1>7, <1>8 DEF Begin, fileVars, procVars, saveVars, passVars

\* A save that works on.
LEMMA SaveType == ASSUME TypeInv, NEW s \in Writes, Save(s) PROVE TypeInv'
<1> USE DEF TypeInv, TypeOK, procVars, passVars
<1>0. Working(s) /\ proc[s] \in up /\ proc[s] \in Procs /\ Key(proc[s]) \in Procs
  BY WorkersUp DEF Save, OpenTmp, WriteTmp, Verify, Replace, CopyStart, CopyEnd, Break, Unmark, Working
<1>1. CASE OpenTmp(s)
  <2> DEFINE f == IF tmp[Key(proc[s])] = None THEN s ELSE tmp[Key(proc[s])]
  <2>1. f \in Files
    BY <1>0, Names
  <2>2. /\ tmp' = [tmp EXCEPT ![Key(proc[s])] = f] /\ disk' = [disk EXCEPT ![f] = Torn]
        /\ ino' = [ino EXCEPT ![s] = f] /\ pc' = [pc EXCEPT ![s] = "writing"] /\ rec' = rec
    BY <1>1 DEF OpenTmp
  <2> HIDE DEF f
  <2>3. tmp' \in [Procs -> Files \cup {None}] /\ disk' \in [Files -> Contents] /\ ino' \in [Writes -> Files \cup {None}]
    BY <2>1, <2>2, Names
  <2>4. \A t \in Writes : Working(t)' => proc[t] \in up
    BY <1>0, <2>2 DEF Working
  <2>5. HasOpen'
    BY <2>1, <2>2 DEF HasOpen
  <2>6. QED
    BY <1>1, <2>2, <2>3, <2>4, <2>5 DEF OpenTmp
<1>2. CASE WriteTmp(s)
  <2>1. PICK c \in {s, Torn} : disk' = [disk EXCEPT ![ino[s]] = c]
    BY <1>2 DEF WriteTmp
  <2>2. disk' \in [Files -> Contents]
    BY <2>1, Names
  <2>3. pc' = [pc EXCEPT ![s] = "written"] /\ UNCHANGED <<proc, up, ino, rec>>
    BY <1>2 DEF WriteTmp
  <2>4. (\A t \in Writes : Working(t)' => proc[t] \in up) /\ HasOpen'
    BY <1>0, <2>3 DEF Working, HasOpen
  <2>5. QED
    BY <1>2, <2>2, <2>3, <2>4 DEF WriteTmp
<1>3. CASE Verify(s)
  <2>1. [owner |-> proc[s], expected |-> Staged(Key(proc[s])), previous |-> previous[s], inplace |-> inplace[s]] \in Markers
    BY <1>0, Holds DEF Markers
  <2>2. marker' \in [Procs -> Markers \cup {None}]
    BY <1>0, <1>3, <2>1 DEF Verify
  <2>3. pc' = [pc EXCEPT ![s] = "verified"] /\ UNCHANGED <<proc, up, ino, rec>>
    BY <1>3 DEF Verify
  <2>4. (\A t \in Writes : Working(t)' => proc[t] \in up) /\ HasOpen'
    BY <1>0, <2>3 DEF Working, HasOpen
  <2>5. QED
    BY <1>3, <2>2, <2>3, <2>4 DEF Verify
<1>4. CASE Replace(s)
  <2>1. target' \in Files \cup {None} /\ linked' \in BOOLEAN /\ tmp' \in [Procs -> Files \cup {None}]
    BY <1>0, <1>4 DEF Replace
  <2>2. pc' = [pc EXCEPT ![s] = "landed"] /\ UNCHANGED <<proc, up, ino, rec>>
    BY <1>4 DEF Replace
  <2>3. (\A t \in Writes : Working(t)' => proc[t] \in up) /\ HasOpen'
    BY <1>0, <2>2 DEF Working, HasOpen
  <2>4. QED
    BY <1>4, <2>1, <2>2, <2>3 DEF Replace
<1>5. CASE CopyStart(s)
  <2>1. disk' \in [Files -> Contents] /\ ino' \in [Writes -> Files \cup {None}] /\ into' \in [Writes -> Files \cup {None}] /\ ino'[s] \in Files
    BY <1>0, <1>5, Names DEF CopyStart
  <2>2. pc' = [pc EXCEPT ![s] = "copying"] /\ UNCHANGED <<proc, up, rec>> /\ \A t \in Writes \ {s} : ino'[t] = ino[t]
    BY <1>5 DEF CopyStart
  <2>3. (\A t \in Writes : Working(t)' => proc[t] \in up) /\ HasOpen'
    BY <1>0, <2>1, <2>2 DEF Working, HasOpen
  <2>4. QED
    BY <1>5, <2>1, <2>2, <2>3 DEF CopyStart
<1>6. CASE CopyEnd(s)
  <2>1. disk' \in [Files -> Contents] /\ tmp' \in [Procs -> Files \cup {None}]
    BY <1>0, <1>6 DEF CopyEnd, HasOpen
  <2>2. pc' = [pc EXCEPT ![s] = "landed"] /\ UNCHANGED <<proc, up, ino, rec>>
    BY <1>6 DEF CopyEnd
  <2>3. (\A t \in Writes : Working(t)' => proc[t] \in up) /\ HasOpen'
    BY <1>0, <2>2 DEF Working, HasOpen
  <2>4. QED
    BY <1>6, <2>1, <2>2, <2>3 DEF CopyEnd
<1>7. CASE Break(s)
  <2>1. tmp' \in [Procs -> Files \cup {None}]
    BY <1>0, <1>7 DEF Break
  <2>2. pc' = [pc EXCEPT ![s] = "undone"] /\ UNCHANGED <<proc, up, ino, rec>>
    BY <1>7 DEF Break
  <2>3. (\A t \in Writes : Working(t)' => proc[t] \in up) /\ HasOpen'
    BY <1>0, <2>2 DEF Working, HasOpen
  <2>4. QED
    BY <1>7, <2>1, <2>2, <2>3 DEF Break
<1>8. CASE Unmark(s)
  <2>1. marker' \in [Procs -> Markers \cup {None}]
    BY <1>0, <1>8 DEF Unmark
  <2>2. pc' = [pc EXCEPT ![s] = IF pc[s] = "landed" THEN "done" ELSE "failed"] /\ UNCHANGED <<proc, up, ino, rec>>
    BY <1>8 DEF Unmark
  <2>3. (\A t \in Writes : Working(t)' => proc[t] \in up) /\ HasOpen'
    BY <1>0, <2>2 DEF Working, HasOpen
  <2>4. QED
    BY <1>8, <2>1, <2>2, <2>3 DEF Unmark
<1>9. QED
  BY <1>1, <1>2, <1>3, <1>4, <1>5, <1>6, <1>7, <1>8 DEF Save

\* A recovery that works on.
LEMMA RecoverType == ASSUME TypeInv, NEW p \in Procs, rec[p] # None, Recover(p) PROVE TypeInv'
<1> USE DEF TypeInv, TypeOK
<1>0. rec[p] \in Recoveries /\ rec[p].key \in Procs /\ rec[p].into \in Files \cup {None} /\ rec[p].staged \in Contents \cup {None}
  BY DEF Recoveries
<1>00. [rec EXCEPT ![p] = None] \in [Procs -> Recoveries \cup {None}]
  OBVIOUS
<1>1. UNCHANGED <<up, started, proc, pc, ino, into, previous, inplace>>
  BY DEF Recover, RollBack, FinishReplace, FinishCopy, FinishFails, StaysLocked, procVars, saveVars
<1>2. (\A s \in Writes : Working(s)' => proc'[s] \in up') /\ \A s \in Writes : pc'[s] \in {"writing", "copying"} => ino'[s] \in Files
  BY <1>1 DEF Working, HasOpen
<1>20. rec' = [rec EXCEPT ![p] = None] => HasOpen'
  BY <1>2 DEF HasOpen
<1>3. CASE RollBack(p)
  BY <1>0, <1>00, <1>1, <1>2, <1>20, <1>3 DEF RollBack, passVars
<1>4. CASE FinishReplace(p)
  <2>1. target' \in Files \cup {None} /\ linked' \in BOOLEAN
    BY <1>0, <1>4 DEF FinishReplace
  <2>2. QED
    BY <1>0, <1>00, <1>1, <1>2, <1>20, <1>4, <2>1 DEF FinishReplace, passVars
<1>5. CASE FinishCopy(p) /\ rec[p].into = None
  <2>1. [rec[p] EXCEPT !.into = target] \in Recoveries
    BY <1>0 DEF Recoveries
  <2>2. disk' \in [Files -> Contents] /\ rec' \in [Procs -> Recoveries \cup {None}]
    BY <1>5, <2>1, Names DEF FinishCopy
  <2>3. HasOpen'
    <3>1. rec'[p].staged = rec[p].staged /\ rec[p].staged \in Contents /\ \A q \in Procs \ {p} : rec'[q] = rec[q]
      BY <1>0, <1>5 DEF FinishCopy, Finishes, Recoveries
    <3>2. QED
      BY <1>2, <3>1 DEF HasOpen
  <2>4. QED
    BY <1>1, <1>2, <1>5, <2>2, <2>3 DEF FinishCopy
<1>6. CASE FinishCopy(p) /\ rec[p].into # None
  <2>1. rec[p].staged \in Contents
    <3>1. rec[p].data.expected # None /\ rec[p].staged = rec[p].data.expected
      BY <1>6 DEF FinishCopy, Finishes
    <3>2. QED
      BY <1>0, <3>1
  <2>2. disk' \in [Files -> Contents]
    BY <1>6, <2>1 DEF FinishCopy
  <2>3. tmp' \in [Procs -> Files \cup {None}] /\ marker' \in [Procs -> Markers \cup {None}] /\ rec' \in [Procs -> Recoveries \cup {None}] /\ spoilt' \in BOOLEAN
    BY <1>0, <1>00, <1>6 DEF FinishCopy
  <2>4. QED
    BY <1>1, <1>2, <1>20, <1>6, <2>2, <2>3 DEF FinishCopy
<1>7. CASE FinishFails(p)
  <2>1. rec[p].into # None => rec[p].staged \in Contents
    BY DEF HasOpen
  <2>2. disk' \in [Files -> Contents]
    BY <1>0, <1>7, <2>1 DEF FinishFails
  <2>3. due' \in [Procs -> SUBSET Procs]
    BY <1>7 DEF FinishFails, Excuse
  <2>4. QED
    BY <1>00, <1>1, <1>2, <1>20, <1>7, <2>2, <2>3 DEF FinishFails
<1>8. CASE StaysLocked(p)
  <2>1. due' \in [Procs -> SUBSET Procs]
    BY <1>8 DEF StaysLocked, Excuse
  <2>2. todo' \in [Procs -> SUBSET Procs] /\ ready' \subseteq up' /\ passing' \subseteq up'
    BY <1>1, <1>8 DEF StaysLocked
  <2>3. QED
    BY <1>00, <1>1, <1>2, <1>20, <1>8, <2>1, <2>2 DEF StaysLocked, fileVars
<1>9. QED
  BY <1>3, <1>4, <1>5, <1>6, <1>7, <1>8 DEF Recover

\* The other steps.
LEMMA TypeKept == TypeInv /\ [Next]_vars => TypeInv'
<1> SUFFICES ASSUME TypeInv, [Next]_vars PROVE TypeInv'
  OBVIOUS
<1> USE DEF TypeInv, TypeOK
<1>1. CASE UNCHANGED vars
  BY <1>1 DEF vars, fileVars, procVars, saveVars, passVars, Working, HasOpen
<1>2. ASSUME NEW s \in Writes, ForeignWrite(s) PROVE TypeInv'
  <2>1. disk' \in [Files -> Contents]
    BY <1>2, Names DEF ForeignWrite
  <2>0. target' \in Files \cup {None} /\ (linked' = linked \/ linked' = FALSE)
    BY <1>2, Names DEF ForeignWrite
  <2>2. pc' = [pc EXCEPT ![s] = "done"]
    BY <1>2 DEF ForeignWrite
  <2>3. QED
    BY <1>2, <2>0, <2>1, <2>2 DEF ForeignWrite, Working, HasOpen, procVars, passVars
<1>3. ASSUME NEW p \in Procs, NEW k \in Procs, Judge(p, k) PROVE TypeInv'
  <2>1. [key |-> k, data |-> marker[k], now |-> Now, staged |-> Staged(k), into |-> None] \in Recoveries
    BY <1>3, Holds DEF Judge, Recoveries
  <2>2. rec' \in [Procs -> Recoveries \cup {None}]
    BY <1>3, <2>1 DEF Judge
  <2>3. HasOpen'
    <3>1. rec'[p].into = None /\ \A q \in Procs \ {p} : rec'[q] = rec[q]
      BY <1>3 DEF Judge
    <3>2. QED
      BY <1>3, <3>1 DEF Judge, saveVars, HasOpen
  <2>4. QED
    BY <1>3, <2>2, <2>3 DEF Judge, fileVars, procVars, saveVars, Working
<1>4. ASSUME NEW p \in Procs, NEW q \in Procs, Sweep(p, q) PROVE TypeInv'
  <2>1. tmp' \in [Procs -> Files \cup {None}]
    BY <1>4, KeyType DEF Sweep
  <2>2. QED
    BY <1>4, <2>1 DEF Sweep, procVars, saveVars, Working, HasOpen
<1>5. ASSUME NEW p \in Procs, Start(p) PROVE TypeInv'
  <2>1. (1..started) \ up \subseteq Procs
    BY SaveAssumption DEF Procs
  <2>2. due' \in [Procs -> SUBSET Procs] /\ up \subseteq up'
    BY <1>5, <2>1 DEF Start
  <2>3. QED
    BY <1>5, <2>2 DEF Start, Pending, fileVars, saveVars, Working, HasOpen
<1>6. ASSUME NEW p \in Procs, BeginPass(p) \/ EndPass(p) \/ \E k \in Procs : Skip(p, k) PROVE TypeInv'
  <2>1. marker' \in [Procs -> Markers \cup {None}]
    BY <1>6 DEF BeginPass, EndPass, Skip, fileVars
  <2>2. QED
    BY <1>6, <2>1 DEF BeginPass, EndPass, Skip, Pending, fileVars, procVars, saveVars, Working, HasOpen
<1>7. ASSUME NEW p \in Procs, Kill(p) PROVE TypeInv'
  <2>1. pc' \in [Writes -> {"idle", "begun", "writing", "written", "verified", "copying", "landed",
                            "undone", "done", "failed", "dead"}]
    BY <1>7 DEF Kill
  <2>2. rec' \in [Procs -> Recoveries \cup {None}]
    BY <1>7 DEF Kill
  <2>3. \A s \in Writes : pc'[s] \in {"dead", pc[s]} /\ (Working(s)' => Working(s) /\ proc[s] # p)
    BY <1>7 DEF Kill, Working
  <2>4. (\A s \in Writes : Working(s)' => proc'[s] \in up') /\ HasOpen'
    BY <1>7, <2>2, <2>3 DEF Kill, HasOpen
  <2>5. QED
    BY <1>7, <2>1, <2>2, <2>4 DEF Kill, fileVars
<1>8. QED
  <2>1. \A p \in Procs : Recover(p) => rec[p] # None
    BY DEF Recover, RollBack, FinishReplace, FinishCopy, FinishFails, StaysLocked
  <2>2. QED
    BY <1>1, <1>2, <1>3, <1>4, <1>5, <1>6, <1>7, <2>1, BeginType, SaveType, RecoverType DEF Next

\* The state at the start has the types.
LEMMA InitTypes == Init => TypeInv
<1> SUFFICES ASSUME Init PROVE TypeInv
  OBVIOUS
<1>1. disk \in [Files -> Contents] /\ target \in Files \cup {None} /\ tmp \in [Procs -> Files \cup {None}]
  BY Names DEF Init
<1>2. linked \in BOOLEAN
  BY SaveAssumption DEF Init
<1>3. (\A s \in Writes : Working(s) => proc[s] \in up) /\ HasOpen
  BY DEF Init, Working, HasOpen
<1>4. started \in Procs /\ up = {} /\ ready = {} /\ passing = {} /\ inplace \in [Writes -> BOOLEAN]
  BY Names DEF Init
<1>5. QED
  BY <1>1, <1>2, <1>3, <1>4, Names DEF Init, TypeInv, TypeOK

\* The types hold in every state, whatever goes wrong.
THEOREM TypeCorrect == Spec => []TypeOK
BY InitTypes, TypeKept, PTL DEF Spec, TypeInv

-------------------------------------------------------------------------------
(* Markers of the dead and of the living *)

\* With a pid of its own, a process is its key.
LEMMA KeyIs == OwnPid => \A p : Key(p) = p
BY DEF OwnPid, Key

\* A step that starts and kills no process and comes to no marker, marks for live ones
\* only, and ends a recovery with its marker or without being asked for it.
LEMMA PidQuiet ==
  ASSUME OwnPid, PidInv, TypeInv', UNCHANGED <<procVars, passing, todo, ready>>,
         \A p \in Procs : due'[p] \subseteq due[p],
         \A k \in Procs : \/ marker'[k] = marker[k] \/ marker'[k] = None
                          \/ k \in up /\ marker'[k].owner = k,
         \A p \in Procs : rec'[p] # None =>
           rec[p] # None /\ rec'[p].key = rec[p].key /\ rec'[p].data = rec[p].data,
         \A p \in passing \ ready : rec[p] # None /\ rec'[p] = None =>
           marker'[rec[p].key] = None \/ rec[p].key \notin due'[p]
  PROVE  PidInv'
<1> USE DEF procVars
<1>0. TypeOK /\ TypeInv'
  BY DEF PidInv, TypeInv
<1>1. MarkerOfKey' /\ UpStarted'
  BY DEF PidInv, MarkerOfKey, UpStarted
<1>2. RecOfDead' /\ RecPasses'
  BY DEF PidInv, RecOfDead, RecPasses
<1>3. DueDead'
  BY DEF PidInv, DueDead
<1>4. \A p \in Procs, k \in Procs : marker'[k] # None /\ k \in due'[p] => marker'[k] = marker[k] /\ k \in due[p]
  BY DEF PidInv, DueDead
<1>5. Repaired' /\ PassKeeps'
  <2>1. ready \subseteq Procs /\ passing \subseteq Procs
    BY <1>0 DEF TypeOK
  <2>2. Repaired'
    BY <1>4, <2>1 DEF PidInv, Repaired
  <2>3. ASSUME NEW p \in passing \ ready, NEW k \in Procs, marker'[k] # None, k \in due'[p]
        PROVE  k \in todo[p] \/ (rec'[p] # None /\ rec'[p].key = k)
    <3>1. marker[k] # None /\ k \in due[p]
      BY <1>4, <2>1, <2>3
    <3>2. k \in todo[p] \/ (rec[p] # None /\ rec[p].key = k)
      BY <2>3, <3>1 DEF PidInv, PassKeeps
    <3>3. QED
      BY <2>1, <2>3, <3>2
  <2>4. QED
    BY <2>2, <2>3 DEF PassKeeps
<1>6. QED
  BY <1>0, <1>1, <1>2, <1>3, <1>5 DEF PidInv

\* No step breaks what is said of pids.
LEMMA PidKept == OwnPid /\ PidInv /\ [Next]_vars => PidInv'
<1> SUFFICES ASSUME OwnPid, PidInv, [Next]_vars PROVE PidInv'
  OBVIOUS
<1>0. TypeInv /\ TypeInv' /\ TypeOK /\ ready \subseteq Procs /\ passing \subseteq Procs
  BY TypeKept DEF PidInv, TypeInv, TypeOK
<1>1. CASE UNCHANGED vars
  <2>1. UNCHANGED <<procVars, marker, rec, passing, todo, ready, due>>
    BY <1>1 DEF vars, fileVars, passVars
  <2>2. QED
    BY <1>0, <2>1, PidQuiet
<1>2. ASSUME NEW p \in Procs, NEW s \in Writes, Begin(p, s) PROVE PidInv'
  <2>1. p \in up /\ UNCHANGED <<procVars, rec, passing, todo, ready, due>>
    BY <1>0, <1>2 DEF Begin, TypeOK, passVars
  <2>2. marker' = [marker EXCEPT ![p] = [owner |-> p, expected |-> None, previous |-> Now, inplace |-> linked /\ target # None]]
    BY <1>2, KeyIs DEF Begin
  <2>3. \A k \in Procs : marker'[k] = marker[k] \/ (k \in up /\ marker'[k].owner = k)
    BY <1>0, <2>1, <2>2 DEF TypeOK
  <2>4. QED
    BY <1>0, <2>1, <2>3, PidQuiet
<1>3. ASSUME NEW s \in Writes, Save(s) PROVE PidInv'
  <2>1. Working(s) /\ proc[s] \in up /\ UNCHANGED <<procVars, rec, passing, todo, ready, due>>
    BY <1>0, <1>3, WorkersUp DEF Save, OpenTmp, WriteTmp, Verify, Replace, CopyStart, CopyEnd, Break, Unmark, Working, passVars
  <2>2. CASE Verify(s)
    <3>1. marker' = [marker EXCEPT ![proc[s]] = [owner |-> proc[s], expected |-> Staged(proc[s]), previous |-> previous[s], inplace |-> inplace[s]]]
      BY <2>2, KeyIs DEF Verify
    <3>2. \A k \in Procs : marker'[k] = marker[k] \/ (k \in up /\ marker'[k].owner = k)
      BY <1>0, <2>1, <3>1 DEF TypeOK
    <3>3. QED
      BY <1>0, <2>1, <3>2, PidQuiet
  <2>3. CASE ~Verify(s)
    <3>1. \A k \in Procs : marker'[k] = marker[k] \/ marker'[k] = None
      BY <1>0, <1>3, <2>3 DEF Save, OpenTmp, WriteTmp, Replace, CopyStart, CopyEnd, Break, Unmark, TypeOK
    <3>2. QED
      BY <1>0, <2>1, <3>1, PidQuiet
  <2>4. QED
    BY <2>2, <2>3
<1>4. ASSUME NEW s \in Writes, ForeignWrite(s) PROVE PidInv'
  <2>1. UNCHANGED <<procVars, marker, rec, passing, todo, ready, due>>
    BY <1>4 DEF ForeignWrite, passVars
  <2>2. QED
    BY <1>0, <2>1, PidQuiet
<1>5. ASSUME NEW p \in Procs, NEW k \in Procs, Judge(p, k) PROVE PidInv'
  <2>1. /\ UNCHANGED <<procVars, marker, passing, ready, due>> /\ marker[k] # None /\ marker[k].owner \notin up
        /\ rec' = [rec EXCEPT ![p] = [key |-> k, data |-> marker[k], now |-> Now, staged |-> Staged(k), into |-> None]]
        /\ todo' = [todo EXCEPT ![p] = @ \ {k}] /\ rec[p] = None /\ k \in todo[p]
    BY <1>5 DEF Judge, OwnerAlive, fileVars
  <2>2. marker[k].owner = k /\ k <= started
    BY <2>1 DEF PidInv, MarkerOfKey
  <2>3. rec'[p].key = k /\ rec'[p].data = marker[k] /\ \A q \in Procs \ {p} : rec'[q] = rec[q] /\ todo'[q] = todo[q]
    BY <1>0, <2>1 DEF TypeOK
  <2>4. MarkerOfKey' /\ UpStarted' /\ DueDead' /\ Repaired'
    BY <2>1 DEF PidInv, MarkerOfKey, UpStarted, DueDead, Repaired, procVars
  <2>5. RecOfDead'
    BY <2>1, <2>2, <2>3 DEF PidInv, RecOfDead, procVars
  <2>6. RecPasses'
    <3>1. p \in passing
      BY <2>1 DEF PidInv, RecPasses
    <3>2. QED
      BY <2>1, <2>3, <3>1 DEF PidInv, RecPasses
  <2>7. PassKeeps'
    <3>1. rec'[p] # None
      <4>1. rec'[p] \in Recoveries \cup {None} /\ [key |-> k, data |-> marker[k], now |-> Now, staged |-> Staged(k), into |-> None] \in Recoveries
        BY <1>0, <2>1, Holds DEF TypeInv, TypeOK, Recoveries
      <4>2. QED
        BY <1>0, <2>1, <4>1, NoRecord DEF TypeOK
    <3>2. todo'[p] = todo[p] \ {k}
      BY <1>0, <2>1 DEF TypeOK
    <3>3. \A q \in passing \ ready, j \in Procs : marker[j] # None /\ j \in due[q] =>
             j \in todo'[q] \/ (rec'[q] # None /\ rec'[q].key = j)
      BY <1>0, <2>1, <2>3, <3>1, <3>2 DEF PidInv, PassKeeps
    <3>4. QED
      BY <2>1, <3>3 DEF PassKeeps
  <2>8. QED
    BY <1>0, <2>4, <2>5, <2>6, <2>7 DEF PidInv
<1>6. ASSUME NEW p \in Procs, NEW k \in Procs, Sweep(p, k) PROVE PidInv'
  <2>1. UNCHANGED <<procVars, marker, rec, passing, todo, ready, due>>
    BY <1>6 DEF Sweep
  <2>2. QED
    BY <1>0, <2>1, PidQuiet
<1>7. ASSUME NEW p \in Procs, NEW k \in Procs, Skip(p, k) PROVE PidInv'
  <2>1. /\ UNCHANGED <<procVars, rec, passing, ready, due>> /\ todo' = [todo EXCEPT ![p] = @ \ {k}]
        /\ \/ marker' = marker /\ (marker[k] # None => marker[k].owner = p \/ marker[k].owner \in up)
           \/ marker' = [marker EXCEPT ![k] = None]
    BY <1>7, KeyIs DEF Skip, OwnerAlive
  <2>2. \A j \in Procs : marker'[j] \in {marker[j], None}
    BY <1>0, <2>1 DEF TypeOK
  <2>3. MarkerOfKey' /\ UpStarted' /\ DueDead' /\ Repaired' /\ RecOfDead' /\ RecPasses'
    BY <1>0, <2>1, <2>2 DEF PidInv, MarkerOfKey, UpStarted, DueDead, Repaired, RecOfDead, RecPasses, procVars
  <2>4. PassKeeps'
    <3>1. SUFFICES ASSUME NEW q \in passing \ ready, NEW j \in Procs, marker'[j] # None, j \in due[q]
                   PROVE  j \in todo'[q] \/ (rec[q] # None /\ rec[q].key = j)
      BY <2>1 DEF PassKeeps
    <3>2. marker[j] # None /\ (j \in todo[q] \/ (rec[q] # None /\ rec[q].key = j))
      BY <2>2, <3>1 DEF PidInv, PassKeeps
    <3>3. j \notin up /\ marker[j].owner = j /\ q \in up
      BY <1>0, <3>1, <3>2 DEF PidInv, DueDead, MarkerOfKey, TypeOK
    <3>4. q = p => j # k
      BY <1>0, <2>1, <3>1, <3>2, <3>3 DEF TypeOK
    <3>5. QED
      BY <1>0, <2>1, <3>2, <3>4 DEF TypeOK
  <2>5. QED
    BY <1>0, <2>3, <2>4 DEF PidInv
<1>8. ASSUME NEW p \in Procs, Recover(p), ~StaysLocked(p) PROVE PidInv'
  <2>1. UNCHANGED <<procVars, passing, todo, ready>> /\ rec[p] # None
    BY <1>8 DEF Recover, RollBack, FinishReplace, FinishCopy, FinishFails, passVars
  <2>2. \A k \in Procs : marker'[k] = marker[k] \/ marker'[k] = None
    BY <1>0, <1>8 DEF Recover, RollBack, FinishReplace, FinishCopy, FinishFails, TypeOK
  <2>3. rec' = [rec EXCEPT ![p] = None] \/ rec' = [rec EXCEPT ![p].into = target]
    BY <1>8 DEF Recover, RollBack, FinishReplace, FinishCopy, FinishFails
  <2>4. rec[p] \in Recoveries /\ rec[p].key \in Procs
    BY <1>0, <2>1 DEF TypeOK, Recoveries
  <2>5. \A q \in Procs : rec'[q] # None => rec[q] # None /\ rec'[q].key = rec[q].key /\ rec'[q].data = rec[q].data
    BY <1>0, <2>1, <2>3, <2>4 DEF TypeOK, Recoveries
  <2>6. (\A q \in Procs : due'[q] \subseteq due[q])
    BY <1>0, <1>8 DEF Recover, RollBack, FinishReplace, FinishCopy, FinishFails, Excuse, passVars, TypeOK
  <2>7. rec'[p] = None => marker'[rec[p].key] = None \/ (p \notin ready => rec[p].key \notin due'[p])
    <3>1. CASE RollBack(p) \/ FinishReplace(p) \/ (FinishCopy(p) /\ rec[p].into # None)
      BY <1>0, <2>4, <3>1 DEF RollBack, FinishReplace, FinishCopy, TypeOK
    <3>2. CASE FinishCopy(p) /\ rec[p].into = None
      <4>1. [rec[p] EXCEPT !.into = target] \in Recoveries
        BY <1>0, <2>4 DEF Recoveries, TypeOK
      <4>2. rec'[p] \in Recoveries
        BY <1>0, <3>2, <4>1 DEF FinishCopy, TypeOK
      <4>3. QED
        BY <4>2, NoRecord
    <3>3. CASE FinishFails(p)
      <4>1. rec[p].key = rec[p].data.owner
        BY <2>1 DEF PidInv, RecOfDead
      <4>2. QED
        BY <1>0, <3>3, <4>1 DEF FinishFails, Excuse, TypeOK
    <3>4. QED
      BY <1>8, <3>1, <3>2, <3>3 DEF Recover
  <2>8. \A q \in passing \ ready : rec[q] # None /\ rec'[q] = None =>
           marker'[rec[q].key] = None \/ rec[q].key \notin due'[q]
    BY <1>0, <2>3, <2>7 DEF TypeOK
  <2>9. QED
    BY <1>0, <2>1, <2>2, <2>5, <2>6, <2>8, PidQuiet
<1>9. ASSUME NEW p \in Procs, BeginPass(p) PROVE PidInv'
  <2>1. /\ UNCHANGED <<procVars, marker, rec, ready, due>> /\ p \in ready
        /\ passing' = passing \cup {p} /\ todo' = [todo EXCEPT ![p] = Pending]
    BY <1>9 DEF BeginPass, fileVars
  <2>2. PassKeeps'
    BY <1>0, <2>1 DEF PidInv, PassKeeps, TypeOK
  <2>3. QED
    BY <1>0, <2>1, <2>2 DEF PidInv, MarkerOfKey, UpStarted, DueDead, Repaired, RecOfDead, RecPasses, procVars
<1>10. ASSUME NEW p \in Procs, EndPass(p) \/ StaysLocked(p) PROVE PidInv'
  <2>1. /\ UNCHANGED <<procVars, marker>> /\ p \in passing /\ passing' = passing \ {p} /\ ready' = ready \cup {p}
        /\ rec'[p] = None /\ todo'[p] = {} /\ \A q \in Procs \ {p} : rec'[q] = rec[q] /\ todo'[q] = todo[q] /\ due'[q] = due[q]
    BY <1>0, <1>10 DEF PidInv, RecPasses, EndPass, StaysLocked, Excuse, fileVars, TypeOK
  <2>2. due'[p] \subseteq due[p] /\ (p \in ready => due'[p] = due[p])
    BY <1>0, <1>10 DEF EndPass, StaysLocked, Excuse, TypeOK
  <2>3. p \notin ready => \A k \in Procs : marker[k] # None => k \notin due'[p]
    <3>1. SUFFICES ASSUME p \notin ready, NEW k \in Procs, marker[k] # None, k \in due'[p]
                   PROVE  FALSE
      OBVIOUS
    <3>2. k \in todo[p] \/ (rec[p] # None /\ rec[p].key = k)
      BY <2>1, <2>2, <3>1 DEF PidInv, PassKeeps
    <3>3. CASE EndPass(p)
      BY <3>2, <3>3 DEF EndPass
    <3>4. CASE StaysLocked(p)
      <4>1. /\ rec[p] # None /\ rec[p].key = rec[p].data.owner
            /\ due'[p] = due[p] \ ({rec[p].data.owner} \cup {marker[j].owner : j \in todo[p] \cap Pending})
        BY <1>0, <3>1, <3>4 DEF StaysLocked, Excuse, TypeOK, PidInv, RecOfDead
      <4>2. k # rec[p].key /\ k \in todo[p] \cap Pending
        BY <3>1, <3>2, <4>1 DEF Pending
      <4>3. marker[k].owner = k
        BY <3>1 DEF PidInv, MarkerOfKey
      <4>4. QED
        BY <3>1, <4>1, <4>2, <4>3
    <3>5. QED
      BY <1>10, <3>3, <3>4
  <2>4. Repaired'
    BY <1>0, <2>1, <2>2, <2>3 DEF PidInv, Repaired
  <2>5. PassKeeps'
    <3>1. \A q \in passing' \ ready' : q \in passing \ ready /\ q \in Procs \ {p}
      BY <1>0, <2>1
    <3>2. marker' = marker
      BY <2>1
    <3>3. ASSUME NEW q \in passing' \ ready', NEW k \in Procs, marker'[k] # None, k \in due'[q]
          PROVE  k \in todo'[q] \/ (rec'[q] # None /\ rec'[q].key = k)
      <4>1. q \in passing \ ready /\ rec'[q] = rec[q] /\ todo'[q] = todo[q] /\ due'[q] = due[q]
        BY <2>1, <3>1, <3>3
      <4>2. k \in todo[q] \/ (rec[q] # None /\ rec[q].key = k)
        BY <1>0, <3>2, <3>3, <4>1 DEF PidInv, PassKeeps
      <4>3. QED
        BY <4>1, <4>2
    <3>4. QED
      BY <3>3 DEF PassKeeps
  <2>6. MarkerOfKey' /\ UpStarted' /\ RecOfDead' /\ RecPasses'
    BY <2>1 DEF PidInv, MarkerOfKey, UpStarted, RecOfDead, RecPasses, procVars
  <2>7. DueDead'
    BY <2>1, <2>2 DEF PidInv, DueDead, procVars
  <2>8. QED
    BY <1>0, <2>4, <2>5, <2>6, <2>7 DEF PidInv
<1>11. ASSUME NEW p \in Procs, Start(p) PROVE PidInv'
  <2>1. /\ p = started + 1 /\ up' = up \cup {p} /\ started' = p /\ due' = [due EXCEPT ![p] = (1..started) \ up]
        /\ passing' = passing \cup {p} /\ todo' = [todo EXCEPT ![p] = Pending]
        /\ UNCHANGED <<marker, rec, ready>>
    BY <1>11 DEF Start, fileVars
  <2>2. started \in Nat /\ Procs \subseteq Nat /\ up \subseteq Procs /\ ready \subseteq up
    BY <1>0, Names DEF TypeOK
  <2>3. p \notin up
    BY <2>1, <2>2 DEF PidInv, UpStarted
  <2>4. MarkerOfKey' /\ UpStarted'
    BY <2>1, <2>2 DEF PidInv, MarkerOfKey, UpStarted
  <2>5. RecOfDead' /\ RecPasses'
    <3>1. \A q \in Procs : rec[q] # None => rec[q].key \in Nat
      BY <1>0, <2>2 DEF TypeOK, Recoveries
    <3>2. QED
      BY <2>1, <2>2, <3>1 DEF PidInv, RecOfDead, RecPasses
  <2>6. DueDead'
    <3>1. \A q \in due'[p] : q <= started' /\ q \notin up'
      BY <1>0, <2>1, <2>2 DEF TypeOK
    <3>2. ASSUME NEW q \in Procs \ {p}, NEW t \in due'[q] PROVE t <= started' /\ t \notin up'
      <4>1. t \in due[q] /\ t \in Procs
        BY <1>0, <2>1, <3>2 DEF TypeOK
      <4>2. QED
        BY <2>1, <2>2, <3>2, <4>1 DEF PidInv, DueDead
    <3>3. QED
      BY <3>1, <3>2 DEF DueDead
  <2>7. Repaired'
    <3>1. \A q \in ready' : q # p /\ due'[q] = due[q]
      BY <1>0, <2>1, <2>2, <2>3 DEF TypeOK
    <3>2. QED
      BY <2>1, <3>1 DEF PidInv, Repaired
  <2>8. PassKeeps'
    <3>1. \A q \in passing' : q # p => q \in passing /\ due'[q] = due[q] /\ todo'[q] = todo[q]
      BY <1>0, <2>1 DEF TypeOK
    <3>2. \A k \in Procs : marker'[k] # None => k \in todo'[p]
      BY <1>0, <2>1 DEF Pending, TypeOK
    <3>3. QED
      BY <2>1, <3>1, <3>2 DEF PidInv, PassKeeps
  <2>9. QED
    BY <1>0, <2>4, <2>5, <2>6, <2>7, <2>8 DEF PidInv
<1>12. ASSUME NEW p \in Procs, Kill(p) PROVE PidInv'
  <2>1. /\ up' = up \ {p} /\ ready' = ready \ {p} /\ passing' = passing \ {p} /\ rec' = [rec EXCEPT ![p] = None]
        /\ due' = [due EXCEPT ![p] = {}] /\ todo' = [todo EXCEPT ![p] = {}]
        /\ UNCHANGED <<marker, started>>
    BY <1>12 DEF Kill, fileVars
  <2>2. rec'[p] = None /\ due'[p] = {} /\ \A q \in Procs \ {p} : rec'[q] = rec[q] /\ due'[q] = due[q] /\ todo'[q] = todo[q]
    BY <1>0, <2>1 DEF TypeOK
  <2>3. MarkerOfKey' /\ UpStarted' /\ RecOfDead' /\ DueDead'
    BY <2>1, <2>2 DEF PidInv, MarkerOfKey, UpStarted, RecOfDead, DueDead
  <2>6. RecPasses'
    <3>1. todo'[p] = {}
      BY <1>0, <2>1 DEF TypeOK
    <3>2. QED
      BY <2>1, <2>2, <3>1 DEF PidInv, RecPasses
  <2>4. PassKeeps' /\ Repaired'
    BY <1>0, <2>1, <2>2 DEF PidInv, PassKeeps, Repaired
  <2>5. QED
    BY <1>0, <2>3, <2>4, <2>6 DEF PidInv
<1>13. QED
  BY <1>1, <1>2, <1>3, <1>4, <1>5, <1>6, <1>7, <1>8, <1>9, <1>10, <1>11, <1>12 DEF Next

\* They hold at the start.
LEMMA InitPids == Init => PidInv
<1> SUFFICES ASSUME Init PROVE PidInv
  OBVIOUS
<1>1. up = {} /\ ready = {} /\ passing = {} /\ (\A k \in Procs : marker[k] = None /\ rec[k] = None /\ due[k] = {} /\ todo[k] = {})
  BY DEF Init
<1>2. QED
  BY <1>1, InitTypes DEF PidInv, MarkerOfKey, UpStarted, RecOfDead, DueDead, RecPasses, PassKeeps, Repaired

\* No step breaks what is said of working saves.
LEMMA LiveKept == OneAtATime /\ LiveInv /\ [Next]_vars => LiveInv'
<1> SUFFICES ASSUME OneAtATime, LiveInv, [Next]_vars PROVE OneSave' /\ LiveMarkersStay'
  BY PidKept DEF LiveInv, OneAtATime
<1>0. OwnPid /\ PidInv /\ TypeInv /\ TypeOK /\ (\A p : Key(p) = p)
  BY KeyIs DEF LiveInv, OneAtATime, PidInv, TypeInv
<1>1. CASE UNCHANGED vars
  <2>1. UNCHANGED <<pc, proc, marker>>
    BY <1>1 DEF vars, fileVars, saveVars
  <2>2. QED
    BY <2>1 DEF LiveInv, OneSave, LiveMarkersStay, Working
<1>2. ASSUME NEW p \in Procs, NEW s \in Writes, Begin(p, s) PROVE OneSave' /\ LiveMarkersStay'
  <2>1. /\ proc' = [proc EXCEPT ![s] = p] /\ pc' = [pc EXCEPT ![s] = "begun"]
        /\ marker' = [marker EXCEPT ![p] = [owner |-> p, expected |-> None, previous |-> Now, inplace |-> linked /\ target # None]]
        /\ \A w \in Writes : proc[w] = p => ~Working(w)
    BY <1>0, <1>2 DEF Begin, Free, OneAtATime
  <2>2. [owner |-> p, expected |-> None, previous |-> Now, inplace |-> linked /\ target # None] \in Markers
    BY <1>0, Holds, Names DEF Markers
  <2>3. marker'[p] # None /\ \A k \in Procs \ {p} : marker'[k] = marker[k]
    BY <1>0, <2>1, <2>2, NoRecord DEF TypeOK
  <2>4. /\ proc'[s] = p
        /\ \A t \in Writes \ {s} : /\ proc'[t] = proc[t]
                                   /\ Working(t)' => Working(t) /\ proc[t] # p /\ proc[t] \in Procs
    BY <1>0, <2>1, WorkersUp DEF Working, TypeOK
  <2>5. OneSave'
    BY <2>4 DEF LiveInv, OneSave
  <2>6. LiveMarkersStay'
    BY <1>0, <2>3, <2>4 DEF LiveInv, LiveMarkersStay
  <2>7. QED
    BY <2>5, <2>6
<1>3. ASSUME NEW s \in Writes, Save(s) PROVE OneSave' /\ LiveMarkersStay'
  <2>1. Working(s) /\ proc[s] \in Procs /\ proc' = proc
    BY <1>0, <1>3, WorkersUp DEF Save, OpenTmp, WriteTmp, Verify, Replace, CopyStart, CopyEnd, Break, Unmark, Working
  <2>2. \E a \in {"writing", "written", "verified", "landed", "copying", "undone", "done", "failed"} : pc' = [pc EXCEPT ![s] = a]
    BY <1>3 DEF Save, OpenTmp, WriteTmp, Verify, Replace, CopyStart, CopyEnd, Break, Unmark
  <2>3. \A t \in Writes : Working(t)' => Working(t)
    BY <1>0, <2>1, <2>2 DEF Working, TypeOK
  <2>4. OneSave'
    BY <2>1, <2>3 DEF LiveInv, OneSave
  <2>5. LiveMarkersStay'
    <3>1. CASE Unmark(s)
      <4>1. ~Working(s)' /\ marker' = [marker EXCEPT ![proc[s]] = None]
        BY <1>0, <3>1 DEF Unmark, Working, TypeOK
      <4>2. \A t \in Writes : Working(t)' => proc[t] # proc[s] /\ proc[t] \in Procs
        BY <1>0, <2>1, <2>3, <4>1, WorkersUp DEF LiveInv, OneSave
      <4>3. \A t \in Writes : Working(t)' => marker'[proc[t]] = marker[proc[t]]
        BY <1>0, <4>1, <4>2 DEF TypeOK
      <4>4. QED
        BY <1>0, <2>1, <2>3, <4>3 DEF LiveInv, LiveMarkersStay
    <3>2. CASE Verify(s)
      <4>1. [owner |-> proc[s], expected |-> Staged(proc[s]), previous |-> previous[s], inplace |-> inplace[s]] \in Markers
        BY <1>0, <2>1, Holds DEF Markers, TypeOK
      <4>2. marker' = [marker EXCEPT ![proc[s]] = [owner |-> proc[s], expected |-> Staged(proc[s]), previous |-> previous[s], inplace |-> inplace[s]]]
        BY <1>0, <3>2 DEF Verify
      <4>3. \A k \in Procs : marker[k] # None => marker'[k] # None
        BY <1>0, <2>1, <4>1, <4>2, NoRecord DEF TypeOK
      <4>4. \A t \in Writes : Working(t)' => proc[t] \in Procs
        BY <1>0, <2>3, WorkersUp
      <4>5. QED
        BY <1>0, <2>1, <2>3, <4>3, <4>4 DEF LiveInv, LiveMarkersStay
    <3>3. CASE ~Unmark(s) /\ ~Verify(s)
      <4>1. marker' = marker
        BY <1>3, <3>3 DEF Save, OpenTmp, WriteTmp, Replace, CopyStart, CopyEnd, Break
      <4>2. QED
        BY <1>0, <2>1, <2>3, <4>1 DEF LiveInv, LiveMarkersStay
    <3>4. QED
      BY <3>1, <3>2, <3>3
  <2>6. QED
    BY <2>4, <2>5
<1>4. ASSUME NEW s \in Writes, ForeignWrite(s) PROVE OneSave' /\ LiveMarkersStay'
  <2>1. pc' = [pc EXCEPT ![s] = "done"] /\ UNCHANGED <<proc, marker>>
    BY <1>4 DEF ForeignWrite
  <2>2. \A t \in Writes : Working(t)' => Working(t)
    BY <1>0, <2>1 DEF Working, TypeOK
  <2>3. QED
    BY <1>0, <2>1, <2>2 DEF LiveInv, OneSave, LiveMarkersStay
<1>5. CASE \E p, k \in Procs : Skip(p, k) \/ Judge(p, k) \/ Sweep(p, k)
  <2>1. UNCHANGED <<pc, proc, marker>>
    BY <1>5 DEF Skip, Judge, Sweep, saveVars, fileVars, OneAtATime
  <2>2. QED
    BY <2>1 DEF LiveInv, OneSave, LiveMarkersStay, Working
<1>6. ASSUME NEW p \in Procs, Recover(p) PROVE OneSave' /\ LiveMarkersStay'
  <2>1. rec[p] # None /\ UNCHANGED <<pc, proc>> /\ (marker' = marker \/ marker' = [marker EXCEPT ![rec[p].key] = None])
    BY <1>6 DEF Recover, RollBack, FinishReplace, FinishCopy, FinishFails, StaysLocked, saveVars, fileVars
  <2>2. rec[p].key \notin up
    BY <1>0, <2>1 DEF PidInv, RecOfDead
  <2>3. \A t \in Writes : Working(t)' => Working(t) /\ marker'[proc[t]] = marker[proc[t]]
    BY <1>0, <2>1, <2>2, WorkersUp DEF Working, TypeOK
  <2>4. QED
    BY <1>0, <2>1, <2>3 DEF LiveInv, OneSave, LiveMarkersStay
<1>7. CASE \E p \in Procs : BeginPass(p) \/ EndPass(p) \/ Start(p)
  <2>1. UNCHANGED <<pc, proc, marker>>
    BY <1>7 DEF BeginPass, EndPass, Start, saveVars, fileVars
  <2>2. QED
    BY <2>1 DEF LiveInv, OneSave, LiveMarkersStay, Working
<1>8. ASSUME NEW p \in Procs, Kill(p) PROVE OneSave' /\ LiveMarkersStay'
  <2>1. UNCHANGED <<proc, marker>> /\ \A t \in Writes : Working(t)' => Working(t)
    BY <1>0, <1>8 DEF Kill, Working, fileVars, TypeOK
  <2>2. QED
    BY <1>0, <2>1 DEF LiveInv, OneSave, LiveMarkersStay
<1>9. QED
  BY <1>1, <1>2, <1>3, <1>4, <1>5, <1>6, <1>7, <1>8 DEF Next

\* It holds at the start, where nothing is saved.
LEMMA InitLive == Init => LiveInv
<1>1. Init => \A s \in Writes : ~Working(s)
  BY DEF Init, Working
<1>2. QED
  BY <1>1, InitPids DEF LiveInv, OneSave, LiveMarkersStay

\* The marker of a working save stays until it ends or its process dies: no recovery of
\* another server takes it.
THEOREM LiveMarkersStayed ==
  ASSUME OneAtATime
  PROVE  Spec => []LiveMarkersStay
<1>1. LiveInv /\ [Next]_vars => LiveInv'
  BY LiveKept
<1>2. LiveInv => LiveMarkersStay
  BY DEF LiveInv
<1>3. QED
  BY <1>1, <1>2, InitLive, PTL DEF Spec

-------------------------------------------------------------------------------
(* The target *)

\* What the proofs below start from.
LEMMA Known ==
  ASSUME CopiesEnd, SaveInv
  PROVE  /\ LiveInv /\ PidInv /\ FileInv /\ TypeInv /\ TypeOK /\ (\A p : Key(p) = p)
         /\ \A s \in Writes : Working(s) => /\ proc[s] \in up /\ proc[s] \in Procs
                                            /\ marker[proc[s]] # None /\ Steps(s)
BY KeyIs, WorkersUp DEF CopiesEnd, OneAtATime, SaveInv, LiveInv, PidInv, TypeInv, FileInv, SaveSteps, LiveMarkersStay

\* The name is the same, and so is what it holds.
LEMMA SameNow ==
  ASSUME target' = target, target # None => disk'[target] = disk[target]
  PROVE  Now' = Now
BY DEF Now

\* A step of the process p and its save s, in what it leaves to the others.
LEMMA OthersStand ==
  ASSUME CopiesEnd, SaveInv, NEW p \in up, NEW s \in Writes, UNCHANGED <<up, started, rec>>,
         \A k \in Procs \ {p} : tmp'[k] = tmp[k] /\ marker'[k] = marker[k],
         \A t \in Writes \ {s} : /\ pc'[t] = pc[t] /\ proc'[t] = proc[t] /\ ino'[t] = ino[t]
                                 /\ inplace'[t] = inplace[t]
                                 /\ pc[t] \in {"written", "verified", "copying"} => disk'[t] = disk[t],
         \A t \in Writes \ {s} : Working(t) => proc[t] # p,
         Working(s) => proc[s] = p, proc'[s] = p, Working(s)' => Steps(s)', Working(s)' \/ tmp'[p] = None
  PROVE  TmpOfWork' /\ SaveSteps' /\ RecStands'
<1>1. \A t \in Writes \ {s} : Working(t)' => Working(t) /\ Steps(t)'
  <2>1. TAKE t \in Writes \ {s}
  <2>2. HAVE Working(t)'
  <2>3. Working(t)
    BY <2>2 DEF Working
  <2>4. Steps(t) /\ proc[t] \in Procs \ {p}
    BY <2>3, Known
  <2>5. QED
    BY <2>3, <2>4 DEF Steps
<1>2. SaveSteps'
  BY <1>1 DEF SaveSteps
<1>3. \A t \in Writes \ {s} : Working(t) => Working(t)'
  BY DEF Working
<1>4. TmpOfWork'
  <2>1. TmpOfWork /\ up \subseteq Procs /\ (\A q \in up : q <= started) /\ started \in Nat
    BY Known, Names DEF FileInv, PidInv, UpStarted, TypeOK
  <2>2. \A q \in up \ {p} : tmp'[q] # None => \E t \in Writes : Working(t)' /\ proc'[t] = q
    <3>1. TAKE q \in up \ {p}
    <3>2. HAVE tmp'[q] # None
    <3>3. PICK t \in Writes : Working(t) /\ proc[t] = q
      BY <2>1, <3>1, <3>2 DEF TmpOfWork
    <3>4. CASE t # s
      BY <1>3, <3>3, <3>4
    <3>5. t # s
      BY <3>3
    <3>6. QED
      BY <3>4, <3>5
  <2>3. \A q \in Procs : q > started => tmp'[q] = None
    <3>1. \A q \in Procs : q > started => q # p
      BY <2>1, Names
    <3>2. QED
      BY <2>1, <3>1 DEF TmpOfWork
  <2>4. tmp'[p] # None => \E t \in Writes : Working(t)' /\ proc'[t] = p
    OBVIOUS
  <2>5. \A q \in up : tmp'[q] # None => \E t \in Writes : Working(t)' /\ proc'[t] = q
    BY <2>2, <2>4
  <2>6. QED
    BY <2>3, <2>5 DEF TmpOfWork
<1>5. RecStands'
  <2>1. RecStands /\ RecOfDead /\ TypeOK
    BY Known DEF FileInv, PidInv
  <2>2. \A q \in Procs : rec[q] # None => rec[q].key \in Procs \ {p}
    BY <2>1 DEF RecOfDead, TypeOK, Recoveries
  <2>3. QED
    BY <2>1, <2>2 DEF RecStands
<1>6. QED
  BY <1>2, <1>4, <1>5

\* A step that gives no temporary name, and starts no copy of a recovery.
LEMMA OpenStands ==
  ASSUME CopiesEnd, SaveInv,
         \A k \in Procs : tmp'[k] \in {tmp[k], None},
         \A q \in Procs : rec'[q] # None /\ rec'[q].into # None =>
           rec[q] # None /\ rec'[q].into = rec[q].into /\ rec'[q].key = rec[q].key /\ rec'[q].staged = rec[q].staged,
         \A t \in Writes : pc'[t] \in {"idle", "begun"} => pc[t] \in {"idle", "begun"}
  PROVE  RecOpen'
<1>1. RecOpen
  BY Known DEF FileInv
<1>2. \A k \in Procs, t \in Writes : tmp[k] # t => tmp'[k] # t
  BY Names
<1>3. QED
  BY <1>1, <1>2 DEF RecOpen

\* A step that only takes temporary names away, and marks nothing to expect.
LEMMA FilesStand ==
  ASSUME CopiesEnd, SaveInv, UNCHANGED <<target, disk, into, ino>>,
         \A q \in Procs : rec'[q] # None /\ rec'[q].into # None =>
           rec[q] # None /\ rec'[q].into = rec[q].into /\ rec'[q].key = rec[q].key /\ rec'[q].staged = rec[q].staged,
         \A k \in Procs : tmp'[k] \in {tmp[k], None},
         \A k \in Procs : marker'[k] \in {marker[k], None} \/ marker'[k].expected = None,
         \A t \in Writes : pc'[t] \in {"idle", "begun"} => pc[t] \in {"idle", "begun"}
  PROVE  OwnFile' /\ NamesApart' /\ FreshFile' /\ NotYetThere' /\ Expects' /\ RecOpen'
<1>1. Now' = Now
  BY SameNow
<1>2. OwnFile /\ NamesApart /\ FreshFile /\ NotYetThere /\ Expects
  BY Known DEF FileInv
<1>3. OwnFile' /\ NotYetThere' /\ Expects'
  BY <1>1, <1>2 DEF OwnFile, NotYetThere, Expects
<1>4. NamesApart'
  BY <1>2 DEF NamesApart
<1>5. FreshFile'
  <2>1. \A k \in Procs, t \in Writes : tmp[k] # t => tmp'[k] # t
    BY Names
  <2>2. QED
    BY <1>1, <1>2, <2>1 DEF FreshFile
<1>6. RecOpen'
  BY OpenStands
<1>7. QED
  BY <1>3, <1>4, <1>5, <1>6

\* A step that tears nothing, and leaves what can be resumed.
LEMMA TornStands ==
  ASSUME CopiesEnd, SaveInv, Now' = Torn => Now = Torn, UNCHANGED <<target, into>>, spoilt => spoilt',
         \A k \in Procs : Resumable(k) => Resumable(k)',
         \A t \in Writes : pc[t] = "copying" /\ into[t] = target => pc'[t] = "copying" \/ \E k \in Procs : Resumable(k)'
  PROVE  TornWhy'
<1>1. TornWhy
  BY Known DEF FileInv
<1>2. QED
  BY <1>1 DEF TornWhy

\* A step of live processes leaves what can be resumed.
LEMMA StillResumable ==
  ASSUME CopiesEnd, SaveInv, NEW p \in up, up' = up, \A k \in Procs \ {p} : tmp'[k] = tmp[k] /\ marker'[k] = marker[k]
  PROVE  \A k \in Procs : Resumable(k) => Resumable(k)'
BY DEF Resumable

\* A save begins.
LEMMA BeginFiles == ASSUME CopiesEnd, SaveInv, NEW p \in Procs, NEW s \in Writes, Begin(p, s) PROVE FileInv'
<1>0. TypeOK /\ FileInv /\ p \in up
  BY Known DEF Begin, TypeOK
<1>1. /\ proc' = [proc EXCEPT ![s] = p] /\ pc' = [pc EXCEPT ![s] = "begun"] /\ pc[s] = "idle"
      /\ marker' = [marker EXCEPT ![p] = [owner |-> p, expected |-> None, previous |-> Now, inplace |-> linked /\ target # None]]
      /\ \A w \in Writes : proc[w] = p => ~Working(w)
      /\ inplace' = [inplace EXCEPT ![s] = linked /\ target # None]
      /\ UNCHANGED <<disk, target, tmp, up, started, ino, into, rec, spoilt>>
  BY Known DEF Begin, Free, CopiesEnd, OneAtATime, procVars, passVars
<1>2. marker'[p].expected = None /\ \A k \in Procs \ {p} : marker'[k] = marker[k]
  BY <1>0, <1>1 DEF TypeOK
<1>3. tmp[p] = None
  BY <1>0, <1>1 DEF FileInv, TmpOfWork
<1>4. proc'[s] = p /\ pc'[s] = "begun" /\ ~Working(s)
  BY <1>0, <1>1 DEF TypeOK, Working
<1>5. Steps(s)'
  BY <1>1, <1>2, <1>3, <1>4 DEF Steps
<1>6. \A t \in Writes \ {s} : pc'[t] = pc[t] /\ proc'[t] = proc[t] /\ inplace'[t] = inplace[t]
  BY <1>0, <1>1 DEF TypeOK
<1>7. TmpOfWork' /\ SaveSteps' /\ RecStands'
  BY <1>0, <1>1, <1>2, <1>3, <1>4, <1>5, <1>6, OthersStand
<1>8. OwnFile' /\ NamesApart' /\ FreshFile' /\ NotYetThere' /\ Expects' /\ RecOpen'
  <2>1. \A t \in Writes : pc'[t] \in {"idle", "begun"} => pc[t] \in {"idle", "begun"}
    BY <1>1, <1>6
  <2>2. QED
    BY <1>1, <1>2, <2>1, FilesStand
<1>9. TornWhy'
  BY <1>0, <1>1, <1>2, <1>6, SameNow, StillResumable, TornStands
<1>10. QED
  BY <1>7, <1>8, <1>9 DEF FileInv

\* What a working save's step changes of itself.
LEMMA SaveFrame ==
  ASSUME CopiesEnd, SaveInv, NEW s \in Writes, Save(s)
  PROVE  /\ Working(s) /\ proc[s] \in up /\ proc[s] \in Procs /\ marker[proc[s]] # None /\ Steps(s)
         /\ UNCHANGED <<up, started, rec, proc, inplace, spoilt>>
         /\ \A t \in Writes \ {s} : /\ pc'[t] = pc[t] /\ proc'[t] = proc[t] /\ ino'[t] = ino[t] /\ into'[t] = into[t]
                                    /\ inplace'[t] = inplace[t]
                                    /\ Working(t) => proc[t] # proc[s] /\ proc[t] \in Procs /\ Steps(t)
         /\ \A k \in Procs \ {proc[s]} : tmp'[k] = tmp[k] /\ marker'[k] = marker[k]
         /\ (\A k \in Procs : Resumable(k) => Resumable(k)')
<1>0. TypeOK /\ (\A p : Key(p) = p)
  BY Known
<1>1. Working(s)
  BY DEF Save, OpenTmp, WriteTmp, Verify, Replace, CopyStart, CopyEnd, Break, Unmark, Working
<1>2. proc[s] \in up /\ proc[s] \in Procs /\ marker[proc[s]] # None /\ Steps(s)
  BY <1>1, Known
<1>3. UNCHANGED <<up, started, rec, proc, inplace, spoilt>>
  BY DEF Save, OpenTmp, WriteTmp, Verify, Replace, CopyStart, CopyEnd, Break, Unmark, procVars, passVars
<1>4. \A t \in Writes \ {s} : pc'[t] = pc[t] /\ ino'[t] = ino[t] /\ into'[t] = into[t]
  BY <1>0 DEF Save, OpenTmp, WriteTmp, Verify, Replace, CopyStart, CopyEnd, Break, Unmark, TypeOK
<1>5. \A k \in Procs \ {proc[s]} : tmp'[k] = tmp[k] /\ marker'[k] = marker[k]
  BY <1>0 DEF Save, OpenTmp, WriteTmp, Verify, Replace, CopyStart, CopyEnd, Break, Unmark, TypeOK
<1>6. \A t \in Writes \ {s} : Working(t) => proc[t] # proc[s] /\ proc[t] \in Procs /\ Steps(t)
  BY <1>1, Known DEF LiveInv, OneSave
<1>7. \A k \in Procs : Resumable(k) => Resumable(k)'
  BY <1>2, <1>3, <1>5, StillResumable
<1>8. QED
  BY <1>1, <1>2, <1>3, <1>4, <1>5, <1>6, <1>7

\* The temporary name is opened: its file is new.
LEMMA OpenTmpFiles == ASSUME CopiesEnd, SaveInv, NEW s \in Writes, OpenTmp(s) PROVE FileInv'
<1>0. TypeOK /\ FileInv /\ (\A p : Key(p) = p) /\ s \in Files
  BY Known, Names
<1>1. Save(s)
  BY DEF Save
<1>2. pc[s] = "begun" /\ tmp[proc[s]] = None /\ marker[proc[s]].expected = None /\ proc[s] \in Procs /\ proc[s] \in up
  BY <1>1, SaveFrame DEF OpenTmp, Steps
<1>3. /\ tmp' = [tmp EXCEPT ![proc[s]] = s] /\ disk' = [disk EXCEPT ![s] = Torn]
      /\ ino' = [ino EXCEPT ![s] = s] /\ pc' = [pc EXCEPT ![s] = "writing"]
      /\ UNCHANGED <<target, marker, into>>
  BY <1>0, <1>2 DEF OpenTmp
<1>4. FreshFile /\ NamesApart /\ NotYetThere /\ Expects /\ OwnFile
  BY <1>0 DEF FileInv
<1>5. s # target /\ Now # s /\ (\A k \in Procs : tmp[k] # s) /\ \A t \in Writes : into[t] # s
  BY <1>2, <1>4 DEF FreshFile
<1>6. Now' = Now
  BY <1>0, <1>3, <1>5, SameNow DEF TypeOK
<1>7. tmp'[proc[s]] = s /\ ino'[s] = s /\ pc'[s] = "writing" /\ \A k \in Procs \ {proc[s]} : tmp'[k] = tmp[k]
  BY <1>0, <1>2, <1>3 DEF TypeOK
<1>8. Steps(s)' /\ Working(s)' /\ proc'[s] = proc[s]
  BY <1>1, <1>2, <1>3, <1>7, SaveFrame DEF Steps, Working
<1>9. \A t \in Writes \ {s} : disk'[t] = disk[t]
  BY <1>0, <1>3, Names DEF TypeOK
<1>10. TmpOfWork' /\ SaveSteps' /\ RecStands'
  BY <1>1, <1>2, <1>8, <1>9, SaveFrame, OthersStand
<1>11. OwnFile'
  BY <1>1, <1>4, <1>7, SaveFrame DEF OwnFile
<1>12. NamesApart'
  BY <1>3, <1>4, <1>5, <1>7 DEF NamesApart
<1>13. FreshFile'
  <2>1. SUFFICES ASSUME NEW t \in Writes, pc'[t] \in {"idle", "begun"}
                 PROVE  t # target' /\ Now' # t /\ (\A k \in Procs : tmp'[k] # t) /\ \A u \in Writes : into'[u] # t
    BY DEF FreshFile
  <2>2. t # s /\ pc[t] \in {"idle", "begun"}
    BY <1>1, <1>7, <2>1, SaveFrame
  <2>3. QED
    BY <1>3, <1>4, <1>6, <1>7, <2>2 DEF FreshFile
<1>14. NotYetThere'
  BY <1>4, <1>5, <1>6, <1>7 DEF NotYetThere
<1>15. Expects'
  <2>1. \A k \in Procs \ {proc[s]} : tmp[k] # None => disk'[tmp[k]] = disk[tmp[k]]
    BY <1>0, <1>3, <1>5 DEF TypeOK
  <2>2. QED
    BY <1>2, <1>3, <1>4, <1>7, <2>1 DEF Expects
<1>16. TornWhy'
  BY <1>1, <1>2, <1>3, <1>6, SaveFrame, TornStands
<1>17. RecOpen'
  <2>1. RecOpen /\ rec' = rec /\ \A t \in Writes : pc'[t] \in {"idle", "begun"} => pc[t] \in {"idle", "begun"}
    BY <1>0, <1>1, <1>7, SaveFrame DEF FileInv
  <2>2. \A q \in Procs : rec[q] # None /\ rec[q].into # None => s # rec[q].into /\ s # rec[q].staged
    BY <1>2, <2>1 DEF RecOpen
  <2>3. \A k \in Procs : tmp'[k] \in {tmp[k], s}
    BY <1>7
  <2>4. QED
    BY <2>1, <2>2, <2>3 DEF RecOpen
<1>18. QED
  BY <1>10, <1>11, <1>12, <1>13, <1>14, <1>15, <1>16, <1>17 DEF FileInv

\* It is written, by this save alone.
LEMMA WriteTmpFiles == ASSUME CopiesEnd, SaveInv, NEW s \in Writes, WriteTmp(s) PROVE FileInv'
<1>0. TypeOK /\ FileInv /\ s \in Files
  BY Known, Names
<1>1. Save(s)
  BY DEF Save
<1>2. pc[s] = "writing" /\ tmp[proc[s]] = s /\ ino[s] = s /\ marker[proc[s]].expected = None /\ proc[s] \in Procs /\ proc[s] \in up
  BY <1>1, SaveFrame DEF WriteTmp, Steps
<1>3. FreshFile /\ NamesApart /\ NotYetThere /\ Expects /\ OwnFile
  BY <1>0 DEF FileInv
<1>4. \A w \in Writes \ {s} : ino[w] # ino[s]
  BY <1>0, <1>2, <1>3, Names DEF OwnFile
<1>5. disk' = [disk EXCEPT ![s] = s] /\ pc' = [pc EXCEPT ![s] = "written"] /\ UNCHANGED <<target, tmp, marker, ino, into>>
  BY <1>2, <1>4 DEF WriteTmp
<1>6. s # target /\ (\A k \in Procs \ {proc[s]} : tmp[k] # s)
  BY <1>0, <1>2, <1>3, Names DEF NamesApart
<1>7. Now' = Now
  BY <1>0, <1>5, <1>6, SameNow DEF TypeOK
<1>8. disk'[s] = s /\ pc'[s] = "written" /\ \A t \in Writes \ {s} : disk'[t] = disk[t]
  BY <1>0, <1>5, Names DEF TypeOK
<1>9. Steps(s)' /\ Working(s)' /\ proc'[s] = proc[s]
  BY <1>1, <1>2, <1>5, <1>8, SaveFrame DEF Steps, Working
<1>10. TmpOfWork' /\ SaveSteps' /\ RecStands'
  BY <1>1, <1>2, <1>8, <1>9, SaveFrame, OthersStand
<1>11. OwnFile' /\ NamesApart' /\ NotYetThere'
  BY <1>3, <1>5, <1>7 DEF OwnFile, NamesApart, NotYetThere
<1>12. FreshFile'
  <2>1. \A t \in Writes : pc'[t] \in {"idle", "begun"} => pc[t] \in {"idle", "begun"}
    BY <1>1, <1>8, SaveFrame
  <2>2. QED
    BY <1>3, <1>5, <1>7, <2>1 DEF FreshFile
<1>13. Expects'
  <2>1. \A k \in Procs \ {proc[s]} : tmp[k] # None => disk'[tmp[k]] = disk[tmp[k]]
    BY <1>0, <1>5, <1>6 DEF TypeOK
  <2>2. QED
    BY <1>2, <1>3, <1>5, <2>1 DEF Expects
<1>14. TornWhy'
  BY <1>1, <1>2, <1>5, <1>7, SaveFrame, TornStands
<1>15. RecOpen'
  BY <1>1, <1>5, <1>8, SaveFrame, OpenStands
<1>16. QED
  BY <1>10, <1>11, <1>12, <1>13, <1>14, <1>15 DEF FileInv

\* It is checked: its marker expects it.
LEMMA VerifyFiles == ASSUME CopiesEnd, SaveInv, NEW s \in Writes, Verify(s) PROVE FileInv'
<1>0. TypeOK /\ FileInv /\ s \in Files /\ (\A p : Key(p) = p)
  BY Known, Names
<1>1. Save(s)
  BY DEF Save
<1>2. pc[s] = "written" /\ tmp[proc[s]] = s /\ ino[s] = s /\ disk[s] = s /\ proc[s] \in Procs /\ proc[s] \in up
  BY <1>1, SaveFrame DEF Verify, Steps
<1>3. FreshFile /\ NamesApart /\ NotYetThere /\ Expects /\ OwnFile
  BY <1>0 DEF FileInv
<1>4. Staged(proc[s]) = s
  BY <1>0, <1>2, Names DEF Staged
<1>5. /\ marker' = [marker EXCEPT ![proc[s]] = [owner |-> proc[s], expected |-> s, previous |-> previous[s], inplace |-> inplace[s]]]
      /\ pc' = [pc EXCEPT ![s] = "verified"] /\ UNCHANGED <<disk, target, tmp, ino, into>>
  BY <1>0, <1>4 DEF Verify
<1>6. /\ marker'[proc[s]].expected = s /\ marker'[proc[s]].inplace = inplace[s] /\ pc'[s] = "verified"
      /\ \A k \in Procs \ {proc[s]} : marker'[k] = marker[k]
  BY <1>0, <1>2, <1>5 DEF TypeOK
<1>7. Now' = Now
  BY <1>5, SameNow
<1>8. Steps(s)' /\ Working(s)' /\ proc'[s] = proc[s]
  BY <1>1, <1>2, <1>5, <1>6, SaveFrame DEF Steps, Working
<1>9. TmpOfWork' /\ SaveSteps' /\ RecStands'
  BY <1>1, <1>2, <1>5, <1>8, SaveFrame, OthersStand
<1>10. OwnFile' /\ NamesApart' /\ NotYetThere'
  BY <1>3, <1>5, <1>7 DEF OwnFile, NamesApart, NotYetThere
<1>11. FreshFile'
  <2>1. \A t \in Writes : pc'[t] \in {"idle", "begun"} => pc[t] \in {"idle", "begun"}
    BY <1>1, <1>6, SaveFrame
  <2>2. QED
    BY <1>3, <1>5, <1>7, <2>1 DEF FreshFile
<1>12. Expects'
  BY <1>2, <1>3, <1>5, <1>6 DEF Expects
<1>13. TornWhy'
  BY <1>1, <1>2, <1>5, <1>7, SaveFrame, TornStands
<1>14. RecOpen'
  BY <1>1, <1>5, <1>6, SaveFrame, OpenStands
<1>15. QED
  BY <1>9, <1>10, <1>11, <1>12, <1>13, <1>14 DEF FileInv

\* It takes the target's name.
LEMMA ReplaceFiles == ASSUME CopiesEnd, SaveInv, NEW s \in Writes, Replace(s) PROVE FileInv'
<1>0. TypeOK /\ FileInv /\ s \in Files /\ (\A p : Key(p) = p)
  BY Known, Names
<1>1. Save(s)
  BY DEF Save
<1>2. pc[s] = "verified" /\ tmp[proc[s]] = s /\ ino[s] = s /\ disk[s] = s /\ proc[s] \in Procs /\ proc[s] \in up
  BY <1>1, SaveFrame DEF Replace, Steps
<1>3. FreshFile /\ NamesApart /\ NotYetThere /\ Expects /\ OwnFile
  BY <1>0 DEF FileInv
<1>4. /\ target' = s /\ tmp' = [tmp EXCEPT ![proc[s]] = None] /\ pc' = [pc EXCEPT ![s] = "landed"]
      /\ UNCHANGED <<disk, marker, ino, into>>
  BY <1>0, <1>2 DEF Replace
<1>5. Now' = s
  BY <1>0, <1>2, <1>4, Names DEF Now
<1>6. tmp'[proc[s]] = None /\ pc'[s] = "landed" /\ \A k \in Procs \ {proc[s]} : tmp'[k] = tmp[k] /\ tmp[k] # s
  <2>1. tmp'[proc[s]] = None /\ pc'[s] = "landed" /\ \A k \in Procs \ {proc[s]} : tmp'[k] = tmp[k]
    BY <1>0, <1>2, <1>4 DEF TypeOK
  <2>2. s # None /\ \A k \in Procs \ {proc[s]} : tmp[k] # s
    BY <1>2, <1>3, Names DEF NamesApart
  <2>3. QED
    BY <2>1, <2>2
<1>7. Steps(s)' /\ Working(s)' /\ proc'[s] = proc[s]
  BY <1>1, <1>2, <1>4, <1>6, SaveFrame DEF Steps, Working
<1>8. TmpOfWork' /\ SaveSteps' /\ RecStands'
  BY <1>1, <1>2, <1>4, <1>7, SaveFrame, OthersStand
<1>9. OwnFile' /\ NotYetThere'
  BY <1>3, <1>4, <1>5, <1>6 DEF OwnFile, NotYetThere
<1>10. NamesApart'
  BY <1>3, <1>4, <1>6 DEF NamesApart
<1>11. FreshFile'
  <2>1. SUFFICES ASSUME NEW t \in Writes, pc'[t] \in {"idle", "begun"}
                 PROVE  t # target' /\ Now' # t /\ (\A k \in Procs : tmp'[k] # t) /\ \A u \in Writes : into'[u] # t
    BY DEF FreshFile
  <2>2. t # s /\ pc[t] \in {"idle", "begun"}
    BY <1>1, <1>6, <2>1, SaveFrame
  <2>3. None # t
    BY <2>1, Names
  <2>4. QED
    BY <1>3, <1>4, <1>5, <1>6, <2>2, <2>3 DEF FreshFile
<1>12. Expects'
  BY <1>3, <1>4, <1>6 DEF Expects
<1>13. TornWhy'
  <2>1. Torn \notin Writes
    BY Names
  <2>2. QED
    BY <1>5, <2>1 DEF TornWhy
<1>14. RecOpen'
  BY <1>1, <1>6, SaveFrame, OpenStands
<1>15. QED
  BY <1>8, <1>9, <1>10, <1>11, <1>12, <1>13, <1>14 DEF FileInv

\* Or it is copied into the target's file.
LEMMA CopyStartFiles == ASSUME CopiesEnd, SaveInv, NEW s \in Writes, CopyStart(s) PROVE FileInv'
<1>0. TypeOK /\ FileInv /\ s \in Files /\ (\A p : Key(p) = p)
  BY Known, Names
<1>1. Save(s)
  BY DEF Save
<1>2. /\ pc[s] = "verified" /\ tmp[proc[s]] = s /\ ino[s] = s /\ disk[s] = s /\ proc[s] \in Procs /\ proc[s] \in up
      /\ inplace[s] /\ marker[proc[s]].expected = s /\ marker[proc[s]].inplace = inplace[s]
  BY <1>1, SaveFrame DEF CopyStart, Steps
<1>3. FreshFile /\ NamesApart /\ NotYetThere /\ Expects /\ OwnFile
  BY <1>0 DEF FileInv
<1>4. /\ disk' = [disk EXCEPT ![target] = Torn] /\ ino' = [ino EXCEPT ![s] = s] /\ into' = [into EXCEPT ![s] = target]
      /\ pc' = [pc EXCEPT ![s] = "copying"] /\ UNCHANGED <<target, tmp, marker>>
  BY <1>0, <1>2 DEF CopyStart
<1>5. Now' \in {None, Torn}
  BY <1>0, <1>4 DEF Now, TypeOK
<1>6. ino'[s] = s /\ into'[s] = target /\ pc'[s] = "copying"
  BY <1>0, <1>4 DEF TypeOK
<1>7. \A k \in Procs : tmp[k] # None => disk'[tmp[k]] = disk[tmp[k]]
  BY <1>0, <1>3, <1>4 DEF TypeOK, NamesApart
<1>8. disk'[s] = s
  <2>1. tmp[proc[s]] # None
    BY <1>0, <1>2, Names
  <2>2. QED
    BY <1>2, <1>7, <2>1
<1>9. \A t \in Writes \ {s} : Working(t) /\ pc[t] \in {"written", "verified", "copying"} => disk'[t] = disk[t]
  <2>1. TAKE t \in Writes \ {s}
  <2>2. HAVE Working(t) /\ pc[t] \in {"written", "verified", "copying"}
  <2>3. tmp[proc[t]] = t /\ proc[t] \in Procs
    BY <2>2, Known DEF Steps
  <2>4. QED
    BY <1>7, <2>3, Names
<1>10. \A t \in Writes \ {s} : pc[t] \in {"written", "verified", "copying"} => disk'[t] = disk[t]
  BY <1>9 DEF Working
<1>11. Steps(s)' /\ Working(s)' /\ proc'[s] = proc[s]
  BY <1>1, <1>2, <1>4, <1>6, <1>8, SaveFrame DEF Steps, Working
<1>12. TmpOfWork' /\ SaveSteps' /\ RecStands'
  BY <1>1, <1>2, <1>4, <1>10, <1>11, SaveFrame, OthersStand
<1>13. OwnFile'
  BY <1>1, <1>3, <1>6, SaveFrame DEF OwnFile
<1>14. NotYetThere'
  <2>1. \A k \in Procs : tmp[k] # None => tmp[k] \notin {None, Torn}
    BY <1>0, Names DEF TypeOK
  <2>2. QED
    BY <1>4, <1>5, <2>1 DEF NotYetThere
<1>15. NamesApart'
  <2>1. \A k \in Procs, t \in Writes : tmp[k] # None => into'[t] # tmp[k]
    BY <1>1, <1>3, <1>6, SaveFrame DEF NamesApart
  <2>2. QED
    BY <1>3, <1>4, <2>1 DEF NamesApart
<1>16. FreshFile'
  <2>1. SUFFICES ASSUME NEW t \in Writes, pc'[t] \in {"idle", "begun"}
                 PROVE  t # target' /\ Now' # t /\ (\A k \in Procs : tmp'[k] # t) /\ \A u \in Writes : into'[u] # t
    BY DEF FreshFile
  <2>2. t # s /\ pc[t] \in {"idle", "begun"}
    BY <1>1, <1>6, <2>1, SaveFrame
  <2>3. t # target /\ (\A k \in Procs : tmp[k] # t) /\ \A u \in Writes : into[u] # t
    BY <1>3, <2>2 DEF FreshFile
  <2>4. t \notin {None, Torn}
    BY <2>1, Names
  <2>5. \A u \in Writes : into'[u] # t
    BY <1>1, <1>6, <2>3, SaveFrame
  <2>6. QED
    BY <1>4, <1>5, <2>3, <2>4, <2>5
<1>17. Expects'
  BY <1>3, <1>4, <1>7 DEF Expects
<1>18. TornWhy'
  BY <1>4, <1>6 DEF TornWhy
<1>19. RecOpen'
  BY <1>1, <1>4, <1>6, SaveFrame, OpenStands
<1>20. QED
  BY <1>12, <1>13, <1>14, <1>15, <1>16, <1>17, <1>18, <1>19 DEF FileInv

\* The copy ends.
LEMMA CopyEndFiles == ASSUME CopiesEnd, SaveInv, NEW s \in Writes, CopyEnd(s) PROVE FileInv'
<1>0. TypeOK /\ FileInv /\ s \in Files /\ (\A p : Key(p) = p)
  BY Known, Names
<1>1. Save(s)
  BY DEF Save
<1>2. pc[s] = "copying" /\ tmp[proc[s]] = s /\ ino[s] = s /\ disk[s] = s /\ proc[s] \in Procs /\ proc[s] \in up
  BY <1>1, SaveFrame DEF CopyEnd, Steps
<1>3. FreshFile /\ NamesApart /\ NotYetThere /\ Expects /\ OwnFile
  BY <1>0 DEF FileInv
<1>4. /\ disk' = [disk EXCEPT ![into[s]] = s] /\ tmp' = [tmp EXCEPT ![proc[s]] = None]
      /\ pc' = [pc EXCEPT ![s] = "landed"] /\ UNCHANGED <<target, marker, ino, into>>
  BY <1>0, <1>2 DEF CopyEnd
<1>5. \/ into[s] = target /\ Now' \in {None, s}
      \/ into[s] # target /\ Now' = Now
  BY <1>0, <1>4 DEF Now, TypeOK
<1>6. tmp'[proc[s]] = None /\ pc'[s] = "landed" /\ \A k \in Procs \ {proc[s]} : tmp'[k] = tmp[k] /\ tmp[k] # s
  BY <1>0, <1>2, <1>3, <1>4, Names DEF NamesApart, TypeOK
<1>7. \A k \in Procs : tmp[k] # None => disk'[tmp[k]] = disk[tmp[k]]
  BY <1>0, <1>3, <1>4 DEF TypeOK, NamesApart
<1>8. \A t \in Writes \ {s} : pc[t] \in {"written", "verified", "copying"} => disk'[t] = disk[t]
  <2>1. TAKE t \in Writes \ {s}
  <2>2. HAVE pc[t] \in {"written", "verified", "copying"}
  <2>3. tmp[proc[t]] = t /\ proc[t] \in Procs
    BY <2>2, Known DEF Steps, Working
  <2>4. QED
    BY <1>7, <2>3, Names
<1>9. Steps(s)' /\ Working(s)' /\ proc'[s] = proc[s]
  BY <1>1, <1>2, <1>4, <1>6, SaveFrame DEF Steps, Working
<1>10. TmpOfWork' /\ SaveSteps' /\ RecStands'
  BY <1>1, <1>2, <1>4, <1>8, <1>9, SaveFrame, OthersStand
<1>11. OwnFile' /\ NamesApart'
  BY <1>3, <1>4, <1>6 DEF OwnFile, NamesApart
<1>12. NotYetThere'
  BY <1>3, <1>5, <1>6 DEF NotYetThere
<1>13. FreshFile'
  <2>1. SUFFICES ASSUME NEW t \in Writes, pc'[t] \in {"idle", "begun"}
                 PROVE  t # target' /\ Now' # t /\ (\A k \in Procs : tmp'[k] # t) /\ \A u \in Writes : into'[u] # t
    BY DEF FreshFile
  <2>2. t # s /\ pc[t] \in {"idle", "begun"}
    BY <1>1, <1>6, <2>1, SaveFrame
  <2>3. None # t
    BY <2>1, Names
  <2>4. QED
    BY <1>3, <1>4, <1>5, <1>6, <2>2, <2>3 DEF FreshFile
<1>14. Expects'
  BY <1>3, <1>4, <1>6, <1>7 DEF Expects
<1>15. TornWhy'
  <2>1. CASE into[s] = target
    <3>1. Torn \notin {None, s}
      BY Names
    <3>2. QED
      BY <1>5, <2>1, <3>1 DEF TornWhy
  <2>2. CASE into[s] # target
    <3>1. \A t \in Writes : pc[t] = "copying" /\ into[t] = target => pc'[t] = "copying"
      BY <1>1, <2>2, SaveFrame
    <3>2. QED
      BY <1>1, <1>4, <1>5, <2>2, <3>1, SaveFrame, TornStands
  <2>3. QED
    BY <2>1, <2>2
<1>16. RecOpen'
  BY <1>1, <1>6, SaveFrame, OpenStands
<1>17. QED
  BY <1>10, <1>11, <1>12, <1>13, <1>14, <1>15, <1>16 DEF FileInv

\* A step raises, or the marker goes.
LEMMA EndFiles == ASSUME CopiesEnd, SaveInv, NEW s \in Writes, Break(s) \/ Unmark(s) PROVE FileInv'
<1>0. TypeOK /\ FileInv /\ s \in Files /\ (\A p : Key(p) = p)
  BY Known, Names
<1>1. Save(s)
  BY DEF Save
<1>2. proc[s] \in Procs /\ proc[s] \in up /\ Steps(s) /\ pc[s] # "copying"
  BY <1>1, SaveFrame DEF CopiesEnd, Break, Unmark
<1>3. /\ UNCHANGED <<disk, target, ino, into>> /\ pc'[s] \in {"undone", "done", "failed"}
      /\ \/ tmp' = [tmp EXCEPT ![proc[s]] = None] /\ marker' = marker
         \/ pc[s] \in {"landed", "undone"} /\ tmp' = tmp /\ marker' = [marker EXCEPT ![proc[s]] = None]
  BY <1>0 DEF Break, Unmark, TypeOK
<1>4. tmp'[proc[s]] = None /\ (\A k \in Procs : tmp'[k] \in {tmp[k], None} /\ marker'[k] \in {marker[k], None})
  BY <1>0, <1>2, <1>3 DEF Steps, TypeOK
<1>5. Working(s)' => Steps(s)'
  BY <1>1, <1>3, <1>4, SaveFrame DEF Steps, Working
<1>6. TmpOfWork' /\ SaveSteps' /\ RecStands'
  BY <1>1, <1>2, <1>3, <1>4, <1>5, SaveFrame, OthersStand
<1>7. \A t \in Writes : pc'[t] \in {"idle", "begun"} => pc[t] \in {"idle", "begun"}
  BY <1>1, <1>3, SaveFrame
<1>8. OwnFile' /\ NamesApart' /\ FreshFile' /\ NotYetThere' /\ Expects' /\ RecOpen'
  BY <1>1, <1>3, <1>4, <1>7, SaveFrame, FilesStand
<1>9. TornWhy'
  BY <1>1, <1>2, <1>3, SameNow, SaveFrame, TornStands
<1>10. QED
  BY <1>6, <1>8, <1>9 DEF FileInv

\* A step that is no save's: the working saves and their files are left alone.
LEMMA SavesStand ==
  ASSUME CopiesEnd, SaveInv, UNCHANGED <<up, started, proc, ino, inplace>>,
         \A k \in Procs : tmp'[k] \in {tmp[k], None},
         \A k \in up : tmp'[k] = tmp[k] /\ marker'[k] = marker[k],
         \A t \in Writes : Working(t) => pc'[t] = pc[t], \A t \in Writes : Working(t)' => Working(t),
         \A k \in Procs : tmp[k] # None => disk'[tmp[k]] = disk[tmp[k]]
  PROVE  TmpOfWork' /\ SaveSteps'
<1>1. \A t \in Writes : Working(t)' => Steps(t)'
  <2>1. SUFFICES ASSUME NEW t \in Writes, Working(t)'
                 PROVE  Steps(t)'
    OBVIOUS
  <2>2. Working(t) /\ pc'[t] = pc[t] /\ proc[t] \in up /\ proc[t] \in Procs /\ Steps(t)
    BY <2>1, Known
  <2>3. pc[t] \in {"written", "verified", "copying"} => disk'[t] = disk[t]
    BY <2>2, Names DEF Steps
  <2>4. QED
    BY <2>2, <2>3 DEF Steps
<1>2. TmpOfWork
  BY Known DEF FileInv
<1>3. \A k \in up : tmp'[k] # None => \E t \in Writes : Working(t)' /\ proc'[t] = k
  <2>1. \A t \in Writes : Working(t) => Working(t)'
    BY DEF Working
  <2>2. QED
    BY <1>2, <2>1 DEF TmpOfWork
<1>4. \A k \in Procs : k > started' => tmp'[k] = None
  BY <1>2 DEF TmpOfWork
<1>5. QED
  BY <1>1, <1>3, <1>4 DEF SaveSteps, TmpOfWork

\* A step that begins no recovery, and keeps the marker while it keeps a dead process's
\* temporary name.
LEMMA RecsStand ==
  ASSUME CopiesEnd, SaveInv,
         \A q \in Procs : rec'[q] # None =>
           /\ rec[q] # None /\ rec'[q].key = rec[q].key /\ rec'[q].data = rec[q].data
           /\ rec'[q].now = rec[q].now /\ rec'[q].staged = rec[q].staged,
         \A k \in Procs \ up : tmp'[k] # None => tmp'[k] = tmp[k] /\ marker'[k] = marker[k]
  PROVE  RecStands'
<1>1. RecStands /\ RecOfDead /\ TypeOK
  BY Known DEF FileInv, PidInv
<1>2. \A q \in Procs : rec[q] # None => rec[q].key \in Procs \ up
  BY <1>1 DEF RecOfDead, TypeOK, Recoveries
<1>3. QED
  BY <1>1, <1>2 DEF RecStands

\* A step of a process's life, or none.
LEMMA QuietFiles ==
  ASSUME CopiesEnd, SaveInv, UNCHANGED <<fileVars, saveVars, up, started, spoilt>>, \A q \in Procs : rec'[q] \in {rec[q], None}
  PROVE  FileInv'
<1>1. UNCHANGED <<disk, target, tmp, marker, proc, pc, ino, into, inplace, up, started>>
  BY DEF fileVars, saveVars
<1>2. TmpOfWork' /\ SaveSteps'
  BY <1>1, SavesStand DEF Working
<1>3. OwnFile' /\ NamesApart' /\ FreshFile' /\ NotYetThere' /\ Expects' /\ RecOpen'
  BY <1>1, FilesStand
<1>4. RecStands'
  BY <1>1, RecsStand
<1>5. TornWhy'
  BY <1>1, SameNow, TornStands DEF Resumable
<1>6. QED
  BY <1>2, <1>3, <1>4, <1>5 DEF FileInv

\* A dead process's marker is read, and both files.
LEMMA JudgeFiles == ASSUME CopiesEnd, SaveInv, NEW p \in Procs, NEW k \in Procs, Judge(p, k) PROVE FileInv'
<1>0. TypeOK /\ FileInv /\ (\A q : Key(q) = q)
  BY Known
<1>1. /\ rec' = [rec EXCEPT ![p] = [key |-> k, data |-> marker[k], now |-> Now, staged |-> Staged(k), into |-> None]]
      /\ UNCHANGED <<disk, target, tmp, marker, proc, pc, ino, into, inplace, up, started, spoilt>>
  BY DEF Judge, fileVars, procVars, saveVars
<1>2. TmpOfWork' /\ SaveSteps'
  BY <1>1, SavesStand DEF Working
<1>3. OwnFile' /\ NamesApart' /\ FreshFile' /\ NotYetThere' /\ Expects' /\ RecOpen'
  <2>1. rec'[p].into = None /\ \A q \in Procs \ {p} : rec'[q] = rec[q]
    BY <1>0, <1>1 DEF TypeOK
  <2>2. QED
    BY <1>1, <2>1, FilesStand
<1>4. RecStands'
  <2>1. RecStands /\ NotYetThere /\ Expects /\ marker[k] # None
    BY <1>0 DEF FileInv, Judge
  <2>2. \A q \in Procs \ {p} : rec'[q] = rec[q]
    BY <1>0, <1>1 DEF TypeOK
  <2>3. rec'[p].key = k /\ rec'[p].data = marker[k] /\ rec'[p].now = Now /\ rec'[p].staged = Staged(k)
    BY <1>0, <1>1 DEF TypeOK
  <2>4. tmp[k] # None /\ marker[k].expected # None => Staged(k) = marker[k].expected /\ Now # marker[k].expected
    BY <2>1 DEF Expects, NotYetThere, Staged
  <2>5. QED
    BY <1>1, <2>1, <2>2, <2>3, <2>4 DEF RecStands
<1>5. TornWhy'
  BY <1>1, SameNow, TornStands DEF Resumable
<1>6. QED
  BY <1>2, <1>3, <1>4, <1>5 DEF FileInv

\* A temporary file of a dead process is removed: it may have been the one to finish a
\* copy with.
LEMMA SweepFiles == ASSUME CopiesEnd, SaveInv, NEW p \in Procs, NEW q \in Procs, Sweep(p, q) PROVE FileInv'
<1>0. TypeOK /\ (\A k : Key(k) = k)
  BY Known
<1>1. /\ q \notin up /\ tmp' = [tmp EXCEPT ![q] = None]
      /\ spoilt' = (spoilt \/ (Now = Torn /\ CanFinish(q)))
      /\ UNCHANGED <<disk, target, marker, proc, pc, ino, into, inplace, up, started, rec>>
  BY <1>0 DEF Sweep, procVars, saveVars
<1>2. tmp'[q] = None /\ \A k \in Procs \ {q} : tmp'[k] = tmp[k]
  BY <1>0, <1>1 DEF TypeOK
<1>3. TmpOfWork' /\ SaveSteps'
  <2>1. \A k \in up : k \in Procs \ {q}
    BY <1>0, <1>1 DEF TypeOK
  <2>2. QED
    BY <1>1, <1>2, <2>1, SavesStand DEF Working
<1>4. OwnFile' /\ NamesApart' /\ FreshFile' /\ NotYetThere' /\ Expects' /\ RecOpen'
  BY <1>1, <1>2, FilesStand
<1>5. RecStands'
  BY <1>1, <1>2, RecsStand
<1>6. TornWhy'
  <2>1. TornWhy /\ Expects /\ Now' = Now
    BY <1>0, <1>1, Known, SameNow DEF FileInv
  <2>2. Resumable(q) => CanFinish(q)
    BY <2>1 DEF Resumable, CanFinish, Expects, Staged
  <2>3. \A k \in Procs \ {q} : Resumable(k) => Resumable(k)'
    BY <1>1, <1>2 DEF Resumable
  <2>4. QED
    BY <1>1, <2>1, <2>2, <2>3 DEF TornWhy
<1>7. QED
  BY <1>3, <1>4, <1>5, <1>6 DEF FileInv

\* A process starts: no file has its temporary name, no marker its pid.
LEMMA StartFiles == ASSUME CopiesEnd, SaveInv, NEW p \in Procs, Start(p) PROVE FileInv'
<1>0. TypeOK /\ FileInv /\ MarkerOfKey /\ started \in Nat /\ p \in Nat
  BY Known, Names DEF PidInv, TypeOK
<1>1. /\ up' = up \cup {p} /\ started' = p /\ p = started + 1
      /\ UNCHANGED <<disk, target, tmp, marker, proc, pc, ino, into, inplace, rec, spoilt>>
  BY DEF Start, fileVars, saveVars
<1>2. p > started
  BY <1>0, <1>1
<1>3. tmp[p] = None /\ marker[p] = None /\ \A k \in Procs : k > p => k > started
  <2>1. tmp[p] = None
    BY <1>0, <1>2 DEF FileInv, TmpOfWork
  <2>2. marker[p] = None
    BY <1>0, <1>2 DEF MarkerOfKey
  <2>3. \A k \in Procs : k > p => k > started
    BY <1>0, <1>1, Names
  <2>4. QED
    BY <2>1, <2>2, <2>3
<1>4. TmpOfWork' /\ SaveSteps' /\ RecStands'
  BY <1>0, <1>1, <1>3 DEF FileInv, TmpOfWork, SaveSteps, RecStands, Steps, Working
<1>5. OwnFile' /\ NamesApart' /\ FreshFile' /\ NotYetThere' /\ Expects' /\ RecOpen'
  BY <1>1, FilesStand
<1>6. TornWhy'
  BY <1>1, <1>3, SameNow, TornStands DEF Resumable
<1>7. QED
  BY <1>4, <1>5, <1>6 DEF FileInv

\* A process dies: a copy of its save can be finished.
LEMMA KillFiles == ASSUME CopiesEnd, SaveInv, NEW p \in Procs, Kill(p) PROVE FileInv'
<1>0. TypeOK /\ FileInv
  BY Known
<1>1. /\ up' = up \ {p} /\ pc' = [s \in Writes |-> IF proc[s] = p /\ Working(s) THEN "dead" ELSE pc[s]]
      /\ rec' = [rec EXCEPT ![p] = None]
      /\ UNCHANGED <<disk, target, tmp, marker, proc, ino, into, inplace, started, spoilt>>
  BY DEF Kill, fileVars
<1>2. \A s \in Writes : \/ pc'[s] = "dead" /\ proc[s] = p /\ Working(s) /\ ~Working(s)'
                        \/ pc'[s] = pc[s] /\ ~(proc[s] = p /\ Working(s))
  BY <1>1 DEF Working
<1>3. TmpOfWork'
  <2>1. TmpOfWork
    BY <1>0 DEF FileInv
  <2>2. \A s \in Writes : Working(s) /\ proc[s] # p => Working(s)'
    BY <1>2 DEF Working
  <2>3. QED
    BY <1>1, <2>1, <2>2 DEF TmpOfWork
<1>4. SaveSteps'
  <2>1. \A s \in Writes : Working(s)' => Working(s) /\ pc'[s] = pc[s]
    BY <1>2 DEF Working
  <2>2. \A s \in Writes : Working(s)' => Steps(s)'
    BY <1>0, <1>1, <2>1 DEF FileInv, SaveSteps, Steps
  <2>3. QED
    BY <2>2 DEF SaveSteps
<1>5. RecStands'
  <2>1. \A q \in Procs : rec'[q] \in {rec[q], None}
    BY <1>0, <1>1 DEF TypeOK
  <2>2. QED
    BY <1>1, <2>1, RecsStand
<1>6. OwnFile' /\ NamesApart' /\ FreshFile' /\ NotYetThere' /\ Expects' /\ RecOpen'
  <2>1. \A t \in Writes : pc'[t] \in {"idle", "begun"} => pc[t] \in {"idle", "begun"}
    BY <1>2
  <2>2. \A q \in Procs : rec'[q] \in {rec[q], None}
    BY <1>0, <1>1 DEF TypeOK
  <2>3. QED
    BY <1>1, <2>1, <2>2, FilesStand
<1>7. TornWhy'
  <2>1. \A k \in Procs : Resumable(k) => Resumable(k)'
    BY <1>1 DEF Resumable
  <2>2. \A t \in Writes : pc[t] = "copying" => pc'[t] = "copying" \/ \E k \in Procs : Resumable(k)'
    <3>1. SUFFICES ASSUME NEW t \in Writes, pc[t] = "copying", pc'[t] # "copying"
                   PROVE  Resumable(p)'
      OBVIOUS
    <3>2. proc[t] = p /\ Working(t)
      BY <1>2, <3>1
    <3>3. marker[p] # None /\ marker[p].inplace /\ marker[p].expected = t /\ tmp[p] = t
      BY <3>1, <3>2, Known DEF Steps
    <3>4. QED
      BY <1>1, <3>3, Names DEF Resumable
  <2>3. QED
    BY <1>1, <2>1, <2>2, SameNow, TornStands
<1>8. QED
  BY <1>3, <1>4, <1>5, <1>6, <1>7 DEF FileInv

\* Another program writes the target.
LEMMA ForeignFiles == ASSUME CopiesEnd, SaveInv, NEW s \in Writes, ForeignWrite(s) PROVE FileInv'
<1>0. TypeOK /\ FileInv /\ s \in Files /\ s \notin {None, Torn}
  BY Known, Names
<1>1. /\ pc[s] = "idle" /\ pc' = [pc EXCEPT ![s] = "done"]
      /\ UNCHANGED <<tmp, marker, proc, ino, into, inplace, up, started, rec>>
      /\ \/ target # None /\ disk' = [disk EXCEPT ![target] = s] /\ target' = target
         \/ disk' = [disk EXCEPT ![s] = s] /\ target' = s
  BY DEF ForeignWrite, procVars, passVars
<1>2. FreshFile /\ NamesApart /\ NotYetThere /\ Expects /\ OwnFile
  BY <1>0 DEF FileInv
<1>3. s # target /\ (\A k \in Procs : tmp[k] # s) /\ \A t \in Writes : into[t] # s
  BY <1>1, <1>2 DEF FreshFile
<1>4. Now' = s /\ target' \in {target, s} /\ target' # None
  BY <1>0, <1>1 DEF Now, TypeOK
<1>5. \A k \in Procs : tmp[k] # None => disk'[tmp[k]] = disk[tmp[k]]
  BY <1>0, <1>1, <1>2, <1>3 DEF TypeOK, NamesApart
<1>6. pc'[s] = "done" /\ \A t \in Writes \ {s} : pc'[t] = pc[t]
  BY <1>0, <1>1 DEF TypeOK
<1>7. TmpOfWork' /\ SaveSteps'
  BY <1>1, <1>5, <1>6, SavesStand DEF Working
<1>8. RecStands'
  BY <1>1, RecsStand
<1>9. OwnFile' /\ NamesApart'
  BY <1>1, <1>2, <1>3, <1>4 DEF OwnFile, NamesApart
<1>10. FreshFile'
  BY <1>1, <1>2, <1>4, <1>6 DEF FreshFile
<1>11. NotYetThere' /\ Expects'
  BY <1>1, <1>2, <1>3, <1>4, <1>5 DEF NotYetThere, Expects
<1>12. TornWhy'
  BY <1>0, <1>4 DEF TornWhy
<1>13. RecOpen'
  BY <1>1, <1>6, OpenStands
<1>14. QED
  BY <1>7, <1>8, <1>9, <1>10, <1>11, <1>12, <1>13 DEF FileInv

\* What a recovery finds as it ends: a dead process, and, while the temporary name is
\* there, the checked file of its save.
LEMMA RecoverFrame ==
  ASSUME CopiesEnd, SaveInv, NEW p \in Procs, rec[p] # None
  PROVE  /\ rec[p].key \in Procs \ up
         /\ tmp[rec[p].key] # None =>
              /\ marker[rec[p].key] = rec[p].data /\ rec[p].data # None
              /\ rec[p].data.expected # None =>
                   /\ tmp[rec[p].key] = rec[p].data.expected /\ rec[p].data.expected \in Writes
                   /\ disk[tmp[rec[p].key]] = rec[p].data.expected
                   /\ rec[p].staged = rec[p].data.expected /\ ~Completed(rec[p])
<1>1. RecStands /\ RecOfDead /\ TypeOK /\ Expects
  BY Known DEF FileInv, PidInv
<1>2. rec[p].key \in Procs \ up /\ rec[p].data # None
  BY <1>1, NoRecord DEF RecOfDead, TypeOK, Recoveries
<1>3. QED
  BY <1>1, <1>2 DEF RecStands, Expects, Completed

\* A recovery removes the temporary name and the marker.
LEMMA RollBackFiles == ASSUME CopiesEnd, SaveInv, NEW p \in Procs, RollBack(p) PROVE FileInv'
<1> DEFINE k == rec[p].key
<1>0. TypeOK /\ rec[p] # None /\ k \in Procs \ up
  BY Known, RecoverFrame DEF RollBack
<1>1. /\ tmp' = [tmp EXCEPT ![k] = None] /\ marker' = [marker EXCEPT ![k] = None] /\ rec' = [rec EXCEPT ![p] = None]
      /\ UNCHANGED <<disk, target, proc, pc, ino, into, inplace, up, started, spoilt>>
  BY DEF RollBack, procVars, saveVars, passVars
<1>2. /\ tmp'[k] = None /\ marker'[k] = None /\ \A j \in Procs \ {k} : tmp'[j] = tmp[j] /\ marker'[j] = marker[j]
      /\ \A q \in Procs : rec'[q] \in {rec[q], None}
  BY <1>0, <1>1 DEF TypeOK
<1>3. up \subseteq Procs \ {k}
  BY <1>0 DEF TypeOK
<1> HIDE DEF k
<1>4. TmpOfWork' /\ SaveSteps'
  BY <1>1, <1>2, <1>3, SavesStand DEF Working
<1>5. OwnFile' /\ NamesApart' /\ FreshFile' /\ NotYetThere' /\ Expects' /\ RecOpen'
  BY <1>1, <1>2, FilesStand
<1>6. RecStands'
  BY <1>1, <1>2, RecsStand
<1>7. ~Resumable(k)
  BY <1>0, RecoverFrame DEF RollBack, Finishes, Resumable, k
<1>8. TornWhy'
  BY <1>1, <1>2, <1>7, SameNow, TornStands DEF Resumable
<1>9. QED
  BY <1>4, <1>5, <1>6, <1>8 DEF FileInv

\* It puts the checked file in place by its name.
LEMMA PlacedFiles == ASSUME CopiesEnd, SaveInv, NEW p \in Procs, FinishReplace(p) PROVE FileInv'
<1> DEFINE k == rec[p].key
           e == rec[p].data.expected
<1>0. /\ TypeOK /\ FileInv /\ rec[p] # None /\ k \in Procs \ up /\ e \in Writes /\ e \in Files /\ e \notin {None, Torn}
      /\ tmp[k] = e /\ disk[e] = e
  BY Known, RecoverFrame, Names DEF FinishReplace, Finishes
<1>1. /\ tmp' = [tmp EXCEPT ![k] = None] /\ marker' = [marker EXCEPT ![k] = None] /\ rec' = [rec EXCEPT ![p] = None]
      /\ target' = e /\ UNCHANGED <<disk, proc, pc, ino, into, inplace, up, started>>
  BY <1>0 DEF FinishReplace, procVars, saveVars
<1>2. /\ tmp'[k] = None /\ marker'[k] = None /\ \A j \in Procs \ {k} : tmp'[j] = tmp[j] /\ marker'[j] = marker[j]
      /\ \A q \in Procs : rec'[q] \in {rec[q], None}
  BY <1>0, <1>1 DEF TypeOK
<1>3. up \subseteq Procs \ {k}
  BY <1>0 DEF TypeOK
<1> HIDE DEF k, e
<1>4. OwnFile /\ NamesApart /\ FreshFile /\ NotYetThere /\ Expects
  BY <1>0 DEF FileInv
<1>5. Now' = e
  BY <1>0, <1>1 DEF Now
<1>6. \A j \in Procs \ {k} : tmp[j] # e
  BY <1>0, <1>4 DEF NamesApart
<1>7. TmpOfWork' /\ SaveSteps'
  BY <1>1, <1>2, <1>3, SavesStand DEF Working
<1>8. RecStands' /\ RecOpen'
  BY <1>1, <1>2, RecsStand, OpenStands
<1>9. OwnFile' /\ NamesApart' /\ NotYetThere'
  BY <1>1, <1>2, <1>4, <1>5, <1>6 DEF OwnFile, NamesApart, NotYetThere
<1>10. FreshFile'
  <2>1. SUFFICES ASSUME NEW t \in Writes, pc[t] \in {"idle", "begun"}
                 PROVE  t # e /\ (\A j \in Procs : tmp'[j] # t) /\ \A u \in Writes : into[u] # t
    BY <1>1, <1>5 DEF FreshFile
  <2>2. (\A j \in Procs : tmp[j] # t) /\ (\A u \in Writes : into[u] # t) /\ t # None
    BY <1>4, <2>1, Names DEF FreshFile
  <2>3. t # e
    BY <1>0, <2>2
  <2>4. QED
    BY <1>2, <2>2, <2>3
<1>11. Expects'
  BY <1>1, <1>2, <1>4 DEF Expects
<1>12. TornWhy'
  BY <1>0, <1>5 DEF TornWhy
<1>13. QED
  BY <1>7, <1>8, <1>9, <1>10, <1>11, <1>12 DEF FileInv

\* It copies into the target's file: the target is torn, and the copy can be finished.
LEMMA RecoverCopyFiles ==
  ASSUME CopiesEnd, SaveInv, NEW p \in Procs, FinishCopy(p), rec[p].into = None
  PROVE  FileInv'
<1> DEFINE k == rec[p].key
           e == rec[p].data.expected
<1>0. /\ TypeOK /\ FileInv /\ rec[p] # None /\ k \in Procs \ up /\ tmp[k] # None
      /\ e \in Writes /\ tmp[k] = e /\ rec[p].staged = e
  BY Known, RecoverFrame DEF FinishCopy, Finishes
<1>1. /\ disk' = [disk EXCEPT ![target] = Torn] /\ rec' = [rec EXCEPT ![p].into = target]
      /\ UNCHANGED <<target, tmp, marker, proc, pc, ino, into, inplace, up, started, spoilt>>
  BY DEF FinishCopy, procVars, saveVars
<1>2. Resumable(k)
  BY <1>0, RecoverFrame DEF FinishCopy, Finishes, Resumable
<1> HIDE DEF k, e
<1>3. OwnFile /\ NamesApart /\ FreshFile /\ NotYetThere /\ Expects /\ RecOpen
  BY <1>0 DEF FileInv
<1>4. Now' \in {None, Torn}
  BY <1>0, <1>1 DEF Now, TypeOK
<1>5. \A j \in Procs : tmp[j] # None => disk'[tmp[j]] = disk[tmp[j]]
  BY <1>0, <1>1, <1>3 DEF TypeOK, NamesApart
<1>6. TmpOfWork' /\ SaveSteps'
  BY <1>1, <1>5, SavesStand DEF Working
<1>20. /\ rec'[p].key = rec[p].key /\ rec'[p].data = rec[p].data /\ rec'[p].now = rec[p].now
       /\ rec'[p].staged = rec[p].staged /\ rec'[p].into = target /\ \A q \in Procs \ {p} : rec'[q] = rec[q]
  <2>1. rec[p] \in Recoveries
    BY <1>0 DEF TypeOK
  <2>2. QED
    BY <1>0, <1>1, <2>1 DEF TypeOK, Recoveries
<1>7. RecStands'
  BY <1>0, <1>1, <1>20, RecsStand
<1>8. OwnFile' /\ NamesApart'
  BY <1>1, <1>3 DEF OwnFile, NamesApart
<1>9. FreshFile'
  <2>1. \A t \in Writes : t \notin {None, Torn}
    BY Names
  <2>2. QED
    BY <1>1, <1>3, <1>4, <2>1 DEF FreshFile
<1>10. NotYetThere' /\ Expects'
  <2>1. \A j \in Procs : tmp[j] # None => tmp[j] \notin {None, Torn}
    BY <1>0, Names DEF TypeOK
  <2>2. QED
    BY <1>1, <1>3, <1>4, <1>5, <2>1 DEF NotYetThere, Expects
<1>11. TornWhy'
  BY <1>0, <1>1, <1>2 DEF TornWhy, Resumable
<1>12. RecOpen'
  <2>1. \A j \in Procs : tmp[j] # None => tmp[j] # target
    BY <1>3 DEF NamesApart
  <2>2. \A j \in Procs \ {k} : tmp[j] # e
    BY <1>0, <1>3 DEF NamesApart
  <2>3. \A t \in Writes : pc[t] \in {"idle", "begun"} => t # target /\ t # e
    BY <1>0, <1>3 DEF FreshFile
  <2>4. /\ rec'[p].staged \in Writes
        /\ \A j \in Procs : tmp[j] # None => tmp[j] # rec'[p].into
        /\ \A j \in Procs \ {rec'[p].key} : tmp[j] # rec'[p].staged
        /\ \A t \in Writes : pc[t] \in {"idle", "begun"} => t # rec'[p].into /\ t # rec'[p].staged
    BY <1>0, <1>20, <2>1, <2>2, <2>3 DEF k
  <2>5. QED
    BY <1>1, <1>3, <1>20, <2>4 DEF RecOpen
<1>13. QED
  BY <1>6, <1>7, <1>8, <1>9, <1>10, <1>11, <1>12 DEF FileInv

\* The copy of a recovery ends, and the temporary name is gone.
LEMMA CopiedFiles ==
  ASSUME CopiesEnd, SaveInv, NEW p \in Procs, rec[p] # None, rec[p].into # None,
         disk' = [disk EXCEPT ![rec[p].into] = rec[p].staged], rec' = [rec EXCEPT ![p] = None],
         tmp' = [tmp EXCEPT ![rec[p].key] = None],
         marker' \in {marker, [marker EXCEPT ![rec[p].key] = None]},
         UNCHANGED <<target, proc, pc, ino, into, inplace, up, started>>, spoilt => spoilt',
         target # rec[p].into /\ Now = Torn => spoilt' \/ (tmp[rec[p].key] = None /\ marker' = marker)
  PROVE  FileInv'
<1> DEFINE k == rec[p].key
           e == rec[p].staged
           f == rec[p].into
<1>0. TypeOK /\ FileInv /\ k \in Procs \ up /\ f \in Files
  BY Known, RecoverFrame DEF TypeOK, Recoveries
<1>1. OwnFile /\ NamesApart /\ FreshFile /\ NotYetThere /\ Expects /\ RecOpen
  BY <1>0 DEF FileInv
<1>2. /\ e \in Writes /\ e \notin {None, Torn} /\ (\A j \in Procs : tmp[j] # None => tmp[j] # f)
      /\ (\A j \in Procs \ {k} : tmp[j] # e)
      /\ \A t \in Writes : pc[t] \in {"idle", "begun"} => t # f /\ t # e
  <2>1. e \in Writes /\ (\A j \in Procs : tmp[j] # None => tmp[j] # f) /\ (\A j \in Procs \ {k} : tmp[j] # e)
        /\ \A t \in Writes : pc[t] \in {"idle", "begun"} => t # f /\ t # e
    BY <1>1 DEF RecOpen
  <2>2. QED
    BY <2>1, Names
<1>3. /\ disk' = [disk EXCEPT ![f] = e]
      /\ tmp'[k] = None /\ \A j \in Procs \ {k} : tmp'[j] = tmp[j] /\ marker'[j] = marker[j]
  BY <1>0 DEF TypeOK
<1>4. (\A j \in Procs : marker'[j] \in {marker[j], None}) /\ \A q \in Procs : rec'[q] \in {rec[q], None}
  BY <1>0 DEF TypeOK
<1>5. up \subseteq Procs \ {k}
  BY <1>0 DEF TypeOK
<1>6. target # f /\ Now = Torn => spoilt' \/ (tmp[k] = None /\ marker' = marker)
  OBVIOUS
<1> HIDE DEF k, e, f
<1>7. \/ target = f /\ Now' \in {None, e}
      \/ target # f /\ Now' = Now
  BY <1>0, <1>3 DEF Now, TypeOK
<1>8. \A j \in Procs : tmp[j] # None => disk'[tmp[j]] = disk[tmp[j]]
  BY <1>0, <1>2, <1>3 DEF TypeOK
<1>9. TmpOfWork' /\ SaveSteps'
  BY <1>3, <1>5, <1>8, SavesStand DEF Working
<1>10. RecStands' /\ RecOpen'
  BY <1>3, <1>4, RecsStand, OpenStands
<1>11. OwnFile' /\ NamesApart'
  BY <1>1, <1>3 DEF OwnFile, NamesApart
<1>12. NotYetThere'
  BY <1>1, <1>2, <1>3, <1>7 DEF NotYetThere
<1>13. FreshFile'
  <2>1. SUFFICES ASSUME NEW t \in Writes, pc[t] \in {"idle", "begun"}
                 PROVE  t # target /\ Now' # t /\ (\A j \in Procs : tmp'[j] # t) /\ \A u \in Writes : into[u] # t
    BY DEF FreshFile
  <2>2. t # target /\ Now # t /\ (\A j \in Procs : tmp[j] # t) /\ (\A u \in Writes : into[u] # t) /\ t # None
    BY <1>1, <2>1, Names DEF FreshFile
  <2>3. t # e
    BY <1>2, <2>1
  <2>4. QED
    BY <1>3, <1>7, <2>2, <2>3
<1>14. Expects'
  BY <1>1, <1>3, <1>4, <1>8 DEF Expects
<1>15. TornWhy'
  <2>1. CASE target = f
    BY <1>2, <1>7, <2>1, Names DEF TornWhy
  <2>2. CASE target # f /\ Now = Torn /\ ~spoilt'
    <3>1. tmp[k] = None /\ marker' = marker
      BY <1>6, <2>2
    <3>2. \A j \in Procs : Resumable(j) => Resumable(j)'
      BY <1>3, <3>1 DEF Resumable
    <3>3. QED
      BY <1>0, <2>2, <3>2 DEF FileInv, TornWhy
  <2>3. QED
    BY <1>7, <2>1, <2>2 DEF TornWhy
<1>16. QED
  BY <1>9, <1>10, <1>11, <1>12, <1>13, <1>14, <1>15 DEF FileInv

\* Every way a recovery goes.
LEMMA RecoverFiles == ASSUME CopiesEnd, SaveInv, NEW p \in Procs, Recover(p) PROVE FileInv'
<1>1. CASE RollBack(p)
  BY <1>1, RollBackFiles
<1>2. CASE FinishReplace(p)
  BY <1>2, PlacedFiles
<1>3. CASE FinishCopy(p) /\ rec[p].into = None
  BY <1>3, RecoverCopyFiles
<1>4. CASE FinishCopy(p) /\ rec[p].into # None
  <2>1. /\ rec[p] # None /\ disk' = [disk EXCEPT ![rec[p].into] = rec[p].staged] /\ rec' = [rec EXCEPT ![p] = None]
        /\ tmp' = [tmp EXCEPT ![rec[p].key] = None] /\ marker' = [marker EXCEPT ![rec[p].key] = None]
        /\ UNCHANGED <<target, proc, pc, ino, into, inplace, up, started>>
        /\ spoilt' = (spoilt \/ (target # rec[p].into /\ Now = Torn))
    BY <1>4 DEF FinishCopy, procVars, saveVars
  <2>2. QED
    BY <1>4, <2>1, CopiedFiles
<1>5. CASE (FinishFails(p) /\ disk' = disk) \/ StaysLocked(p)
  <2>1. \A q \in Procs : rec'[q] \in {rec[q], None}
    BY <1>5, Known DEF FinishFails, StaysLocked, TypeOK
  <2>2. UNCHANGED <<fileVars, saveVars, up, started, spoilt>>
    BY <1>5 DEF FinishFails, StaysLocked, fileVars, procVars
  <2>3. QED
    BY <2>1, <2>2, QuietFiles
<1>6. CASE FinishFails(p) /\ disk' # disk
  <2>1. /\ rec[p] # None /\ rec[p].into # None /\ tmp[rec[p].key] = None
        /\ disk' = [disk EXCEPT ![rec[p].into] = rec[p].staged] /\ rec' = [rec EXCEPT ![p] = None]
        /\ UNCHANGED <<target, tmp, marker, proc, pc, ino, into, inplace, up, started, spoilt>>
    BY <1>6 DEF FinishFails, procVars, saveVars
  <2>2. tmp' = [tmp EXCEPT ![rec[p].key] = None]
    BY <2>1, Known DEF TypeOK
  <2>3. QED
    BY <2>1, <2>2, CopiedFiles
<1>7. QED
  BY <1>1, <1>2, <1>3, <1>4, <1>5, <1>6 DEF Recover

\* No step breaks what is said of the files.
LEMMA SaveKept == CopiesEnd /\ SaveInv /\ [Next]_vars => SaveInv'
<1> SUFFICES ASSUME CopiesEnd, SaveInv, [Next]_vars PROVE FileInv'
  BY LiveKept DEF SaveInv, CopiesEnd
<1>1. CASE UNCHANGED vars
  BY <1>1, QuietFiles DEF vars, procVars, passVars
<1>2. ASSUME NEW p \in Procs, NEW s \in Writes, Begin(p, s) PROVE FileInv'
  BY <1>2, BeginFiles
<1>3. ASSUME NEW s \in Writes, Save(s) PROVE FileInv'
  BY <1>3, OpenTmpFiles, WriteTmpFiles, VerifyFiles, ReplaceFiles, CopyStartFiles, CopyEndFiles, EndFiles DEF Save
<1>4. ASSUME NEW s \in Writes, ForeignWrite(s) PROVE FileInv'
  BY <1>4, ForeignFiles
<1>5. ASSUME NEW p \in Procs, NEW k \in Procs, Judge(p, k) PROVE FileInv'
  BY <1>5, JudgeFiles
<1>6. ASSUME NEW p \in Procs, NEW k \in Procs, Sweep(p, k) PROVE FileInv'
  BY <1>6, SweepFiles
<1>7. ASSUME NEW p \in Procs, Recover(p) PROVE FileInv'
  BY <1>7, RecoverFiles
<1>8. ASSUME NEW p \in Procs, Start(p) PROVE FileInv'
  BY <1>8, StartFiles
<1>9. ASSUME NEW p \in Procs, BeginPass(p) \/ EndPass(p) \/ \E k \in Procs : Skip(p, k) PROVE FileInv'
  <2>1. UNCHANGED <<fileVars, saveVars, up, started, spoilt, rec>>
    BY <1>9 DEF BeginPass, EndPass, Skip, procVars, fileVars, CopiesEnd, OneAtATime
  <2>2. QED
    BY <2>1, QuietFiles
<1>10. ASSUME NEW p \in Procs, Kill(p) PROVE FileInv'
  BY <1>10, KillFiles
<1>11. QED
  BY <1>1, <1>2, <1>3, <1>4, <1>5, <1>6, <1>7, <1>8, <1>9, <1>10 DEF Next

\* It holds at the start, with a temporary file that no marker names or without.
LEMMA InitSave == Init => SaveInv
<1> SUFFICES ASSUME Init PROVE FileInv
  BY InitLive DEF SaveInv
<1>1. /\ disk = [f \in Files |-> IF f = 0 THEN 0 ELSE Torn] /\ target \in {None, 0} /\ up = {} /\ started = 1
      /\ \A k \in Procs : tmp[k] = None \/ (k = 1 /\ tmp[k] = Orphan)
  <2>1. tmp \in {[k \in Procs |-> None], [k \in Procs |-> IF k = 1 THEN Orphan ELSE None]}
    BY DEF Init
  <2>2. \A k \in Procs : tmp[k] = None \/ (k = 1 /\ tmp[k] = Orphan)
    <3>1. CASE tmp = [k \in Procs |-> None]
      BY <3>1
    <3>2. CASE tmp = [k \in Procs |-> IF k = 1 THEN Orphan ELSE None]
      BY <3>2
    <3>3. QED
      BY <2>1, <3>1, <3>2
  <2>3. QED
    BY <2>2 DEF Init
<1>2. \A k \in Procs : marker[k] = None /\ rec[k] = None
  BY DEF Init
<1>3. \A s \in Writes : ~Working(s) /\ pc[s] = "idle" /\ ino[s] = None /\ into[s] = None
  BY DEF Init, Working
<1>4. Now \in {None, 0}
  BY <1>1, Names DEF Now
<1>5. Orphan \notin {None, 0} \cup Writes /\ Torn \notin {None, 0} /\ 1 \in Nat
  BY SaveAssumption DEF Orphan, Writes, Torn
<1>6. \A k \in Procs : k > 1 => k # 1
  BY Names
<1>7. TmpOfWork /\ SaveSteps /\ OwnFile
  BY <1>1, <1>3, <1>6 DEF TmpOfWork, SaveSteps, OwnFile
<1>8. NamesApart
  BY <1>1, <1>3, <1>5 DEF NamesApart
<1>9. FreshFile
  BY <1>1, <1>3, <1>4, <1>5, Names DEF FreshFile
<1>10. NotYetThere /\ Expects /\ RecStands /\ RecOpen /\ TornWhy
  BY <1>1, <1>2, <1>4, <1>5 DEF NotYetThere, Expects, RecStands, RecOpen, TornWhy
<1>11. QED
  BY <1>7, <1>8, <1>9, <1>10 DEF FileInv

\* What can be resumed is a marker with the checked file that finishes its copy.
LEMMA ResumableFinishes == SaveInv => \A k \in Procs : Resumable(k) => CanFinish(k)
BY DEF SaveInv, FileInv, Expects, Resumable, CanFinish, Staged

\* A torn target is one that is being copied into, or a marker is left with the checked
\* temporary file that makes it whole: of the server that died, whatever was killed and
\* whichever server's recovery came between - or that file was taken while the target
\* was torn, by a sweep or by another recovery of the same marker.
THEOREM TargetStaysWhole ==
  ASSUME CopiesEnd
  PROVE  Spec => []TargetWhole
<1>1. SaveInv /\ [Next]_vars => SaveInv'
  BY SaveKept
<1>2. SaveInv => TargetWhole
  BY ResumableFinishes DEF SaveInv, FileInv, TornWhy, TargetWhole
<1>3. QED
  BY <1>1, <1>2, InitSave, PTL DEF Spec

\* One pass over the markers is enough for a start: it leaves no marker of the servers
\* that were dead by then but those it failed on, and a target that is torn afterwards
\* is not so by any of them.
THEOREM StartsRepair ==
  ASSUME CopiesEnd
  PROVE  Spec => []StartRepairs
<1>1. SaveInv /\ [Next]_vars => SaveInv'
  BY SaveKept
<1>2. ASSUME SaveInv PROVE StartRepairs
  <2>1. Repaired /\ MarkerOfKey /\ TornWhy
    BY <1>2 DEF SaveInv, LiveInv, PidInv, FileInv
  <2>2. \A p \in ready, k \in Procs : marker[k] # None => marker[k].owner \notin due[p]
    BY <2>1 DEF Repaired, MarkerOfKey
  <2>3. Now = Torn => \/ \E s \in Writes : pc[s] = "copying" /\ into[s] = target
                      \/ \E k \in Procs : CanFinish(k)
                      \/ spoilt
    <3>1. \A k \in Procs : Resumable(k) => CanFinish(k)
      BY <1>2, ResumableFinishes
    <3>2. CASE \E k \in Procs : Resumable(k)
      BY <3>1, <3>2
    <3>3. QED
      BY <2>1, <3>2 DEF TornWhy
  <2>4. ASSUME NEW p \in ready
        PROVE  \A k \in Procs : CanFinish(k) => CanFinish(k) /\ marker[k].owner \notin due[p]
    BY <2>2 DEF CanFinish
  <2>5. QED
    BY <2>2, <2>3, <2>4 DEF StartRepairs
<1>3. QED
  BY <1>1, <1>2, InitSave, PTL DEF Spec
================================================================================
