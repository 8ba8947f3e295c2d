------------------------- MODULE RevisionLineage_proofs ------------------------
(***************************************************************************)
(* Proofs about RevisionLineage, for every set of files, number of calls   *)
(* and of calls at once: its types; what a reopened document's revision is *)
(* above; and, when no two files record one document, a call that switches *)
(* documents runs alone, and only a close or an activation comes without   *)
(* an id of its own: a revision names one content for ever, it is never    *)
(* taken back, no two entries are one document, and an edit that a         *)
(* reopened file lacks is reported.                                        *)
(***************************************************************************)
EXTENDS RevisionLineage, WellFoundedInduction, FiniteSetTheorems, TLAPS

-------------------------------------------------------------------------------
(* Numbers *)

\* A set of numbers has a least one.
LEMMA LeastExists ==
  ASSUME NEW S, S \subseteq Nat, S # {}
  PROVE  \E n \in S : \A k \in S : n <= k
<1> DEFINE R == {ss \in Nat \X Nat : ss[1] < ss[2]}
<1>1. IsWellFoundedOn(R, Nat)
  <2>1. OpToRel(<,Nat) = R
    BY Zenon DEF OpToRel
  <2>2. QED
    BY <2>1, NatLessThanWellFounded, Zenon
<1>2. \E x \in S : \A y \in S : ~ (<<y, x>> \in R)
  <2> HIDE DEF R
  <2>1. QED
    BY <1>1, WFMin
<1>3. PICK x \in S : \A y \in S : ~ (<<y, x>> \in R)
  BY <1>2
<1>4. \A y \in S : ~(y < x)
  <2> SUFFICES ASSUME NEW y \in S, y < x PROVE FALSE
    OBVIOUS
  <2>1. <<y, x>> \in Nat \X Nat /\ <<y, x>>[1] < <<y, x>>[2]
    OBVIOUS
  <2>2. QED
    BY <1>3, <2>1
<1>5. QED
  BY <1>4

\* A bounded one has a greatest.
LEMMA MaxFacts ==
  ASSUME NEW S, S \subseteq Nat, S # {}, NEW N \in Nat, \A n \in S : n <= N
  PROVE  Max(S) \in S /\ \A n \in S : n <= Max(S)
<1> DEFINE above == {k \in Nat : \A n \in S : n <= k}
<1>1. PICK m \in above : \A k \in above : m <= k
  <2>1. above \subseteq Nat /\ above # {}
    OBVIOUS
  <2> HIDE DEF above
  <2>2. QED
    BY <2>1, LeastExists
<1>2. m \in S
  <2> SUFFICES ASSUME m \notin S PROVE FALSE
    OBVIOUS
  <2>1. \A n \in S : n < m
    BY <1>1
  <2>2. PICK n \in S : TRUE
    OBVIOUS
  <2>3. m \in Nat /\ n \in Nat /\ n < m
    BY <1>1, <2>1
  <2>4. m - 1 \in Nat /\ \A k \in S : k <= m - 1
    BY <2>1, <2>3
  <2>5. m <= m - 1
    BY <1>1, <2>4
  <2>6. QED
    BY <2>3, <2>5
<1>3. QED
  BY <1>1, <1>2 DEF Max

-------------------------------------------------------------------------------
(* Types *)

\* All revisions are below a bound, so that a greatest is known.
EntriesUpTo(N) ==
  /\ \A s \in Slots : Open(s) => docs[s].rev <= N
  /\ \A p \in Recorded : recs[p].rev <= N
  /\ \A t \in noted : t[2] <= N

RowsUpTo(N) ==
  /\ \A t \in others : t[2] <= N
  /\ \A c \in Calls : mem[c] # None => \A n \in RevisionsIn(mem[c]) : n <= N
  /\ \A c \in Calls : rows[c] # None => \A n \in RevisionsIn(rows[c]) : n <= N

Bounded == \E N \in Nat : EntriesUpTo(N) /\ RowsUpTo(N)

\* A call at work, or with a write queued, is in the journal's memory.
MemThere == \A c \in Calls : (c \in Running \/ c \in queued) => mem[c] # None

\* A save at work is of the active document.
WritingIs ==
  writing # None => active # None /\ pc[writing[1]] = "begun" /\ kind[writing[1]] = "save"

TypeInv == TypeOK /\ Bounded /\ MemThere /\ WritingIs

\* The active document.
LEMMA ActiveFacts ==
  ASSUME TypeOK
  PROVE  /\ active = None => ActiveDoc = None /\ ActiveRev = None
         /\ active # None => /\ active \in Slots /\ Open(active) /\ docs[active] \in Entries
                             /\ ActiveDoc = docs[active].doc /\ ActiveRev = docs[active].rev
                             /\ ActiveDoc \in Ids /\ ActiveRev \in Nat /\ ActiveDoc # None /\ ActiveRev # None
         /\ \A s \in Slots : Open(s) => docs[s] \in Entries
<1>1. \A s \in Slots : Open(s) => docs[s] \in Entries
  BY DEF TypeOK, Open
<1>2. \A i \in Ids : i # None
  BY LineageAssumption DEF Ids
<1>3. None \notin Nat
  BY LineageAssumption
<1>4. QED
  BY <1>1, <1>2, <1>3 DEF TypeOK, ActiveDoc, ActiveRev, Entries

\* What the file holds once the queue is committed.
LEMMA FlushedFacts ==
  ASSUME TypeOK
  PROVE  /\ Flushed \in [Calls -> Rows \cup {None}]
         /\ \A c \in Calls : Flushed[c] = IF c \in queued THEN mem[c] ELSE rows[c]
BY DEF TypeOK, Flushed

\* Revisions of a row are numbers.
LEMMA RevisionsType ==
  ASSUME NEW r \in Rows
  PROVE  RevisionsIn(r) \subseteq Nat /\ None \notin RevisionsIn(r)
BY LineageAssumption DEF RevisionsIn, Rows

\* Opening and closing a row keeps the journal's types and bound.
LEMMA JournalTypes ==
  ASSUME TypeOK, NEW c \in Calls, NEW k \in Kinds, NEW rec \in Rows, NEW N \in Nat, RowsUpTo(N),
         \A n \in RevisionsIn(rec) : n <= N,
         Begun(c, k, rec) \/ Ended(c, rec)
  PROVE  /\ mem' \in [Calls -> Rows \cup {None}] /\ rows' \in [Calls -> Rows \cup {None}]
         /\ queued' \subseteq queued \cup {c} /\ others' = others /\ RowsUpTo(N)'
         /\ mem' = [mem EXCEPT ![c] = rec]
<1>1. mem' = [mem EXCEPT ![c] = rec] /\ others' = others
  BY DEF Begun, Ended
<1>2. /\ rows' \in {rows, [rows EXCEPT ![c] = rec], [Flushed EXCEPT ![c] = rec]}
      /\ queued' \in {queued, {}, queued \cup {c}}
  BY DEF Begun, Ended
<1>3. mem \in [Calls -> Rows \cup {None}] /\ rows \in [Calls -> Rows \cup {None}]
  BY DEF TypeOK
<1>4. mem' \in [Calls -> Rows \cup {None}] /\ \A d \in Calls : mem'[d] \in {mem[d], rec}
  BY <1>1, <1>3
<1>5. rows' \in [Calls -> Rows \cup {None}] /\ \A d \in Calls : rows'[d] \in {rows[d], mem[d], rec}
  BY <1>2, <1>3, FlushedFacts
<1>6. RowsUpTo(N)'
  BY <1>1, <1>4, <1>5 DEF RowsUpTo, RevisionsIn
<1>7. QED
  BY <1>1, <1>2, <1>4, <1>5, <1>6

\* The known revisions of a document are numbers within the bound.
LEMMA IssuedFacts ==
  ASSUME TypeOK, NEW N \in Nat, EntriesUpTo(N), RowsUpTo(N), NEW d
  PROVE  Issued(d) \subseteq Nat /\ \A n \in Issued(d) : n <= N
<1>1. \A t \in noted \cup others : t[2] \in Nat
  BY DEF TypeOK
<1>2. \A c \in Calls : \A r \in {mem[c], Flushed[c]} : r # None =>
        RevisionsIn(r) \subseteq Nat /\ \A n \in RevisionsIn(r) : n <= N
  <2> SUFFICES ASSUME NEW c \in Calls, NEW r \in {mem[c], rows[c]}, r # None
               PROVE  RevisionsIn(r) \subseteq Nat /\ \A n \in RevisionsIn(r) : n <= N
    BY FlushedFacts
  <2>1. r \in Rows
    BY DEF TypeOK
  <2>2. QED
    BY <2>1, RevisionsType DEF RowsUpTo
<1>3. Journalled(d) \subseteq Nat /\ \A n \in Journalled(d) : n <= N
  <2> SUFFICES ASSUME NEW n \in Journalled(d) PROVE n \in Nat /\ n <= N
    OBVIOUS
  <2>1. CASE n \in {t[2] : t \in {x \in others : x[1] = d}}
    BY <1>1, <2>1 DEF RowsUpTo
  <2>2. CASE n \in UNION {RevisionsIn(r) : r \in {x \in {Flushed[c] : c \in Calls} \cup {mem[c] : c \in Calls} :
                                   x # None /\ x.doc = d}}
    <3>1. PICK r \in {Flushed[c] : c \in Calls} \cup {mem[c] : c \in Calls} : r # None /\ n \in RevisionsIn(r)
      BY <2>2
    <3>2. QED
      BY <1>2, <3>1
  <2>3. QED
    BY <2>1, <2>2 DEF Journalled
<1>4. \A s \in Slots : Open(s) => docs[s].rev \in Nat /\ docs[s].rev <= N
  BY DEF TypeOK, Open, Entries, EntriesUpTo
<1>5. QED
  BY <1>1, <1>3, <1>4 DEF Issued, EntriesUpTo

\* A reopened document goes on past its record and past every known revision the
\* record does not reach, and at the recorded revision only with the recorded bytes.
LEMMA ResumedFacts ==
  ASSUME TypeOK, NEW N \in Nat, EntriesUpTo(N), RowsUpTo(N), NEW p \in Recorded
  PROVE  /\ Resumed(p) \in Nat /\ Resumed(p) <= N + 1
         /\ Resumed(p) >= recs[p].rev
         /\ Resumed(p) = recs[p].rev => ~Changed(p)
         /\ \A n \in Issued(recs[p].doc) : n <= recs[p].rev \/ n < Resumed(p)
<1> DEFINE known == Issued(recs[p].doc)
           rev == recs[p].rev
<1>1. rev \in Nat /\ rev <= N
  BY DEF Recorded, TypeOK, Records, EntriesUpTo
<1>2. known \subseteq Nat /\ \A n \in known : n <= N
  BY IssuedFacts
<1>3. known # {} => Max(known) \in Nat /\ Max(known) <= N /\ \A n \in known : n <= Max(known)
  <2> HIDE DEF known
  <2>1. QED
    BY <1>2, MaxFacts
<1>4. /\ Base(p) = IF Changed(p) THEN rev + 1 ELSE rev
      /\ Resumed(p) = IF known # {} /\ Max(known) >= Base(p) /\ Max(known) > rev THEN Max(known) + 1 ELSE Base(p)
  BY DEF Base, Resumed
<1> HIDE DEF known, rev
<1>5. /\ Resumed(p) \in Nat /\ Resumed(p) <= N + 1 /\ Resumed(p) >= rev
      /\ Resumed(p) = rev => ~Changed(p)
      /\ \A n \in known : n <= rev \/ n < Resumed(p)
  <2>1. CASE known # {} /\ Max(known) >= Base(p) /\ Max(known) > rev
    BY <1>1, <1>2, <1>3, <1>4, <2>1
  <2>2. CASE ~(known # {} /\ Max(known) >= Base(p) /\ Max(known) > rev)
    <3>1. Resumed(p) = Base(p)
      BY <1>4, <2>2
    <3>2. \A n \in known : n <= rev
      BY <1>1, <1>2, <1>3, <1>4, <2>2
    <3>3. QED
      BY <1>1, <1>2, <1>4, <3>1, <3>2
  <2>3. QED
    BY <2>1, <2>2
<1>6. QED
  BY <1>5 DEF known, rev

\* What an answer speaks of.
LEMMA FactsType ==
  ASSUME NEW e \in Entries
  PROVE  /\ Facts(e) \in Seen /\ Facts(e) = <<e.doc, e.rev, e.content>> /\ Facts(e) # None
         /\ e # None
BY NoneIsApart DEF Facts, Seen, Entries

\* A new entry.
LEMMA EntryType ==
  ASSUME NEW d \in Ids, NEW n \in Nat, NEW x \in Contents
  PROVE  /\ Entry(d, n, x) \in Entries /\ Entry(d, n, x) # None
         /\ Entry(d, n, x).doc = d /\ Entry(d, n, x).rev = n /\ Entry(d, n, x).content = x
BY NoneIsApart DEF Entry, Entries

\* A record written for a file.
LEMMA RecordType ==
  ASSUME NEW e \in Entries, NEW n \in Nat
  PROVE  /\ [doc |-> e.doc, sha |-> e.content, rev |-> e.rev, at |-> n] \in Records
         /\ [doc |-> e.doc, sha |-> e.content, rev |-> e.rev, at |-> n] # None
BY NoneIsApart DEF Records, Entries

\* The number of calls that were begun.
LEMMA LastType == Last \in Nat
<1>1. IsFiniteSet(Calls)
  BY FS_Interval, LineageAssumption DEF Calls
<1>2. IsFiniteSet({c \in Calls : pc[c] # "idle"})
  BY <1>1, FS_Subset
<1>3. QED
  BY <1>2, FS_CardinalityType DEF Last

\* Nothing of the journal, or of the registry, changed.
LEMMA SameRows ==
  ASSUME NEW N, RowsUpTo(N), UNCHANGED <<mem, rows, others>>
  PROVE  RowsUpTo(N)'
BY DEF RowsUpTo

\* And so for the entries.
LEMMA SameEntries ==
  ASSUME NEW N, EntriesUpTo(N), UNCHANGED <<docs, recs, noted>>
  PROVE  EntriesUpTo(N)'
BY DEF EntriesUpTo, Recorded, Open

\* What a call's body does to a registry it leaves alone.
LEMMA BodyTypes ==
  ASSUME TypeInv, NEW c \in Calls,
         Look(c) \/ (\E p \in Paths : SaveFile(c, p)) \/ (\E s \in Slots : Activate(c, s))
  PROVE  TypeInv'
<1>1. PICK N \in Nat : EntriesUpTo(N) /\ RowsUpTo(N)
  BY DEF TypeInv, Bounded
<1>2. UNCHANGED <<docs, recs, noted, mem, rows, others, queued, up, said, kind, seen>>
  BY DEF Look, SaveFile, Activate, Ran, journalVars, callVars, regVars
<1>3. Bounded'
  BY <1>1, <1>2, SameRows, SameEntries DEF Bounded
<1>4. CASE Look(c) \/ (\E s \in Slots : Activate(c, s))
  <2>1. PICK s \in Slots : /\ Open(s) /\ active' \in {active, s} /\ writing = None /\ pc[c] = "begun"
                           /\ Ran(c, Facts(docs[s])) /\ UNCHANGED <<disk, writing>>
    BY <1>4, ActiveFacts DEF Look, Activate, Runs, TypeInv, regVars
  <2>2. Facts(docs[s]) \in Seen
    BY <2>1, ActiveFacts, FactsType DEF TypeInv
  <2>3. TypeOK'
    BY <1>2, <2>1, <2>2 DEF Ran, TypeInv, TypeOK, Open
  <2>4. MemThere' /\ WritingIs'
    BY <1>2, <2>1 DEF Ran, TypeInv, TypeOK, MemThere, WritingIs, Running
  <2>5. QED
    BY <1>3, <2>3, <2>4 DEF TypeInv
<1>5. CASE \E p \in Paths : SaveFile(c, p)
  <2>1. PICK p \in Paths : SaveFile(c, p)
    BY <1>5
  <2>2. docs[active].content \in Contents
    BY <2>1, ActiveFacts DEF SaveFile, TypeInv, Entries
  <2>3. TypeOK'
    BY <2>1, <2>2 DEF SaveFile, regVars, callVars, journalVars, TypeInv, TypeOK, Open
  <2>4. MemThere' /\ WritingIs'
    BY <2>1 DEF SaveFile, Runs, regVars, callVars, journalVars, TypeInv, MemThere, WritingIs, Running
  <2>5. QED
    BY <1>3, <2>3, <2>4 DEF TypeInv
<1>6. QED
  BY <1>4, <1>5

\* An edit moves one revision up by one.
LEMMA EditTypes ==
  ASSUME TypeInv, NEW c \in Calls, Edit(c)
  PROVE  TypeInv'
<1>1. PICK N \in Nat : EntriesUpTo(N) /\ RowsUpTo(N)
  BY DEF TypeInv, Bounded
<1>2. active \in Slots /\ Open(active) /\ docs[active] \in Entries
  BY ActiveFacts DEF Edit, TypeInv
<1> DEFINE e == Entry(docs[active].doc, docs[active].rev + 1, c)
<1>3. e \in Entries /\ e # None /\ e.rev = docs[active].rev + 1 /\ e.rev <= N + 1
  <2>1. docs[active].doc \in Ids /\ docs[active].rev \in Nat /\ c \in Contents /\ docs[active].rev <= N
    BY <1>1, <1>2 DEF Entries, Contents, EntriesUpTo
  <2>2. docs[active].rev + 1 \in Nat /\ docs[active].rev + 1 <= N + 1
    BY <2>1
  <2>3. e \in Entries /\ e # None /\ e.rev = docs[active].rev + 1
    BY <2>1, <2>2, EntryType
  <2> HIDE DEF e
  <2>4. QED
    BY <2>2, <2>3
<1>4. /\ docs' = [docs EXCEPT ![active] = e] /\ Ran(c, Facts(docs'[active]))
      /\ pc[c] = "begun" /\ writing = None
      /\ UNCHANGED <<up, disk, recs, active, noted, writing, kind, said, mem, rows, queued, others, seen>>
  BY DEF Edit, Runs, journalVars
<1> HIDE DEF e
<1>5. docs' \in [Slots -> Entries \cup {None}] /\ docs'[active] = e /\ \A s \in Slots : docs'[s] \in {docs[s], e}
  BY <1>2, <1>3, <1>4 DEF TypeInv, TypeOK
<1>6. Facts(docs'[active]) \in Seen
  BY <1>3, <1>5, FactsType
<1>7. TypeOK'
  BY <1>2, <1>3, <1>4, <1>5, <1>6 DEF Ran, TypeInv, TypeOK, Open
<1>8. Bounded'
  <2>1. EntriesUpTo(N + 1)'
    <3>1. \A s \in Slots : docs'[s] # None => docs'[s].rev <= N + 1
      BY <1>1, <1>3, <1>5 DEF TypeInv, TypeOK, Entries, EntriesUpTo, Open
    <3>2. QED
      BY <1>1, <1>4, <3>1 DEF TypeInv, TypeOK, Records, EntriesUpTo, Open, Recorded
  <2>2. RowsUpTo(N + 1)'
    <3>1. RowsUpTo(N + 1)
      BY <1>1, RevisionsType DEF TypeInv, TypeOK, RowsUpTo
    <3>2. QED
      BY <1>4, <3>1, SameRows
  <2>3. QED
    BY <2>1, <2>2 DEF Bounded
<1>9. MemThere' /\ WritingIs'
  BY <1>4 DEF Ran, TypeInv, TypeOK, MemThere, WritingIs, Running
<1>10. QED
  BY <1>7, <1>8, <1>9 DEF TypeInv

\* A new document begins at revision 0; a closed one is noted.
LEMMA NewCloseTypes ==
  ASSUME TypeInv, NEW c \in Calls, New(c) \/ Close(c)
  PROVE  TypeInv'
<1>1. PICK N \in Nat : EntriesUpTo(N) /\ RowsUpTo(N)
  BY DEF TypeInv, Bounded
<1>2. /\ UNCHANGED <<up, disk, recs, writing, kind, said, mem, rows, queued, others, seen>>
      /\ pc[c] = "begun" /\ writing = None
  BY DEF New, Close, Runs, journalVars
<1>3. RowsUpTo(N)'
  BY <1>1, <1>2, SameRows
<1>4. CASE New(c)
  <2> DEFINE e == Entry(c, 0, c)
  <2>1. e \in Entries /\ e # None /\ e.rev = 0
    <3>1. c \in Ids /\ c \in Contents /\ 0 \in Nat
      BY DEF Ids, Contents
    <3>2. QED
      BY <3>1, EntryType
  <2>2. /\ docs' = [docs EXCEPT ![Untitled] = e] /\ active' = Untitled /\ noted' = noted
        /\ Ran(c, Facts(docs'[Untitled]))
    BY <1>4 DEF New
  <2> HIDE DEF e
  <2>3. docs' \in [Slots -> Entries \cup {None}] /\ docs'[Untitled] = e /\ \A s \in Slots : docs'[s] \in {docs[s], e}
    BY <2>1, <2>2 DEF TypeInv, TypeOK, Slots
  <2>4. Facts(docs'[Untitled]) \in Seen
    BY <2>1, <2>3, FactsType
  <2>5. TypeOK'
    BY <1>2, <2>1, <2>2, <2>3, <2>4 DEF Ran, TypeInv, TypeOK, Open, Slots
  <2>6. EntriesUpTo(N)'
    <3>1. \A s \in Slots : docs'[s] # None => docs'[s].rev <= N
      BY <1>1, <2>1, <2>3 DEF EntriesUpTo, Open
    <3>2. QED
      BY <1>1, <1>2, <2>2, <3>1 DEF EntriesUpTo, Open, Recorded
  <2>7. MemThere' /\ WritingIs'
    BY <1>2, <2>2 DEF Ran, TypeInv, TypeOK, MemThere, WritingIs, Running
  <2>8. QED
    BY <1>3, <2>5, <2>6, <2>7 DEF TypeInv, Bounded
<1>5. CASE Close(c)
  <2>1. active \in Slots /\ Open(active) /\ docs[active] \in Entries
    BY <1>5, ActiveFacts DEF Close, TypeInv
  <2>2. /\ docs' = [docs EXCEPT ![active] = None] /\ active' \in Others(active)
        /\ noted' = noted \cup {<<docs[active].doc, docs[active].rev>>} /\ Ran(c, Facts(docs[active]))
    BY <1>5 DEF Close
  <2>3. Facts(docs[active]) \in Seen
    BY <2>1, FactsType
  <2>4. docs' \in [Slots -> Entries \cup {None}] /\ \A s \in Slots : docs'[s] = IF s = active THEN None ELSE docs[s]
    BY <2>1, <2>2 DEF TypeInv, TypeOK
  <2>5. active' # None => active' \in Slots /\ docs'[active'] # None
    <3>1. active' # None => active' \in Slots \ {active} /\ docs[active'] # None
      <4>1. active' \in {None} \/ active' \in {t \in Slots \ {active} : Open(t)}
        BY <2>2 DEF Others
      <4>2. QED
        BY <4>1 DEF Open
    <3>2. QED
      BY <2>4, <3>1
  <2>6. noted' \subseteq Ids \X Nat
    BY <2>1, <2>2 DEF TypeInv, TypeOK, Entries
  <2>7. TypeOK'
    BY <1>2, <2>2, <2>3, <2>4, <2>5, <2>6 DEF Ran, TypeInv, TypeOK, Open
  <2>8. EntriesUpTo(N)'
    <3>1. \A t \in noted' : t[2] <= N
      BY <1>1, <2>1, <2>2 DEF EntriesUpTo
    <3>2. QED
      BY <1>1, <1>2, <2>4, <3>1 DEF EntriesUpTo, Open, Recorded
  <2>9. MemThere' /\ WritingIs'
    BY <1>2, <2>2 DEF Ran, TypeInv, TypeOK, MemThere, WritingIs, Running
  <2>10. QED
    BY <1>3, <2>7, <2>8, <2>9 DEF TypeInv, Bounded
<1>6. QED
  BY <1>4, <1>5

\* The save at work: its call, its path, and the document it saves.
LEMMA WritingFacts ==
  ASSUME TypeOK, WritingIs, NEW c \in Calls, SaveRecord(c)
  PROVE  /\ writing = <<c, writing[2]>> /\ writing[2] \in Paths
         /\ active \in Slots /\ Open(active) /\ docs[active] \in Entries
         /\ pc[c] = "begun" /\ kind[c] = "save"
<1>1. writing \in Calls \X Paths /\ writing[1] = c
  BY DEF SaveRecord, TypeOK
<1>2. active # None /\ pc[c] = "begun" /\ kind[c] = "save"
  BY <1>1 DEF SaveRecord, WritingIs
<1>3. QED
  BY <1>1, <1>2, ActiveFacts

\* A save's record is its document's revision.
LEMMA SaveTypes ==
  ASSUME TypeInv, NEW c \in Calls, SaveRecord(c)
  PROVE  TypeInv'
<1>1. PICK N \in Nat : EntriesUpTo(N) /\ RowsUpTo(N)
  BY DEF TypeInv, Bounded
<1> DEFINE p == writing[2]
           e == docs[active]
           rec == [doc |-> e.doc, sha |-> e.content, rev |-> e.rev, at |-> Last]
<1>2. p \in Paths /\ p \in Slots /\ active \in Slots /\ Open(active) /\ e \in Entries /\ e # None /\ pc[c] = "begun"
  BY WritingFacts, ActiveFacts, FactsType DEF TypeInv, Slots
<1>3. rec \in Records /\ rec # None /\ rec.rev = e.rev
  BY <1>2, LastType, RecordType
<1>4. /\ recs' = [recs EXCEPT ![p] = rec]
      /\ docs' = [s \in Slots |-> IF s = p THEN e ELSE IF s = active THEN None ELSE docs[s]]
      /\ active' = p /\ Ran(c, Facts(e)) /\ writing' = None
      /\ UNCHANGED <<up, disk, noted, kind, said, mem, rows, queued, others, seen>>
  BY DEF SaveRecord, journalVars
<1>5. e.rev <= N
  BY <1>1, <1>2 DEF EntriesUpTo
<1> HIDE DEF p, e, rec
<1>6. /\ docs' \in [Slots -> Entries \cup {None}] /\ docs'[p] = e
      /\ \A s \in Slots : docs'[s] \in {docs[s], e, None}
  BY <1>2, <1>4 DEF TypeInv, TypeOK
<1>7. recs' \in [Paths -> Records \cup {None}] /\ \A q \in Paths : recs'[q] \in {recs[q], rec}
  BY <1>3, <1>4 DEF TypeInv, TypeOK
<1>8. Facts(e) \in Seen
  BY <1>2, FactsType
<1>9. TypeOK'
  BY <1>2, <1>4, <1>6, <1>7, <1>8 DEF Ran, TypeInv, TypeOK, Open
<1>10. EntriesUpTo(N)'
  <2>1. \A s \in Slots : docs'[s] # None => docs'[s].rev <= N
    BY <1>1, <1>5, <1>6 DEF EntriesUpTo, Open
  <2>2. \A q \in Paths : recs'[q] # None => recs'[q].rev <= N
    BY <1>1, <1>3, <1>5, <1>7 DEF EntriesUpTo, Recorded
  <2>3. QED
    BY <1>1, <1>4, <2>1, <2>2 DEF EntriesUpTo, Open, Recorded
<1>11. RowsUpTo(N)'
  BY <1>1, <1>4, SameRows
<1>12. MemThere' /\ WritingIs'
  BY <1>2, <1>4 DEF Ran, TypeInv, TypeOK, MemThere, WritingIs, Running
<1>13. QED
  BY <1>9, <1>10, <1>11, <1>12 DEF TypeInv, Bounded

\* What a drawing_open opens.
Reopened(c, p) ==
  IF Continues(p) THEN Entry(recs[p].doc, Resumed(p), disk[p]) ELSE Entry(c, 0, disk[p])

\* The entry of a reopened file.
LEMMA ReopenedFacts ==
  ASSUME TypeInv, NEW c \in Calls, NEW p \in Paths, disk[p] # None,
         NEW N \in Nat, EntriesUpTo(N), RowsUpTo(N)
  PROVE  /\ Reopened(c, p) \in Entries /\ Reopened(c, p).content = disk[p] /\ Reopened(c, p).rev <= N + 1
         /\ Continues(p) => Reopened(c, p).doc = recs[p].doc /\ Reopened(c, p).rev = Resumed(p)
         /\ ~Continues(p) => Reopened(c, p).doc = c /\ Reopened(c, p).rev = 0
<1>1. disk[p] \in Contents
  BY DEF TypeInv, TypeOK
<1>2. CASE Continues(p)
  <2>1. p \in Recorded
    BY <1>2 DEF Continues, Recorded
  <2>2. recs[p].doc \in Ids
    BY <2>1 DEF Recorded, TypeInv, TypeOK, Records
  <2>3. Resumed(p) \in Nat /\ Resumed(p) <= N + 1
    BY <2>1, ResumedFacts DEF TypeInv
  <2>4. QED
    BY <1>1, <1>2, <2>2, <2>3, EntryType DEF Reopened
<1>3. CASE ~Continues(p)
  <2>1. c \in Ids /\ 0 \in Nat
    BY DEF Ids
  <2>2. QED
    BY <1>1, <1>3, <2>1, EntryType DEF Reopened
<1>4. QED
  BY <1>2, <1>3

\* A reopened document's revision is known.
LEMMA ReopenTypes ==
  ASSUME TypeInv, NEW c \in Calls, NEW p \in Paths, Reopen(c, p)
  PROVE  TypeInv'
<1>1. PICK N \in Nat : EntriesUpTo(N) /\ RowsUpTo(N)
  BY DEF TypeInv, Bounded
<1> DEFINE e == Reopened(c, p)
           rec == [doc |-> e.doc, sha |-> e.content, rev |-> e.rev, at |-> Last]
<1>2. e \in Entries /\ e.content = disk[p] /\ e.rev <= N + 1
  BY <1>1, ReopenedFacts DEF Reopen
<1>3. /\ docs' = [docs EXCEPT ![p] = e]
      /\ recs' = [recs EXCEPT ![p] = [doc |-> e.doc, sha |-> disk[p], rev |-> e.rev, at |-> Last]]
      /\ did' = [did EXCEPT ![c] = Facts(e)]
      /\ pc' = [pc EXCEPT ![c] = IF recs[p] # None /\ Changed(p) THEN "found" ELSE "ran"]
      /\ active' = p
      /\ noted' = IF Open(p) THEN noted \cup {<<docs[p].doc, docs[p].rev>>} ELSE noted
      /\ said' = [said EXCEPT ![c] = Continues(p) /\ Lost(recs[p].doc, recs[p].rev, recs[p].at)]
      /\ IF Continues(p) THEN rows' = Flushed /\ queued' = {} ELSE UNCHANGED <<rows, queued>>
      /\ UNCHANGED <<up, disk, writing, kind, mem, others, seen>>
      /\ pc[c] = "begun" /\ writing = None
  BY DEF Reopen, Reopened, Runs
<1>4. recs' = [recs EXCEPT ![p] = rec] /\ rec \in Records /\ rec # None /\ rec.rev = e.rev /\ e # None /\ p \in Slots
  BY <1>2, <1>3, LastType, RecordType, FactsType DEF Slots
<1> HIDE DEF e, rec
<1>5. /\ docs' \in [Slots -> Entries \cup {None}] /\ docs'[p] = e
      /\ \A s \in Slots : docs'[s] \in {docs[s], e}
  BY <1>2, <1>3, <1>4 DEF TypeInv, TypeOK
<1>6. recs' \in [Paths -> Records \cup {None}] /\ \A q \in Paths : recs'[q] \in {recs[q], rec}
  BY <1>4 DEF TypeInv, TypeOK
<1>7. Facts(e) \in Seen
  BY <1>2, FactsType
<1>8. noted' \subseteq Ids \X Nat /\ \A t \in noted' : t[2] <= N
  <2>1. Open(p) => docs[p].doc \in Ids /\ docs[p].rev \in Nat /\ docs[p].rev <= N
    BY <1>1, <1>4, ActiveFacts DEF TypeInv, Entries, EntriesUpTo
  <2>2. QED
    BY <1>1, <1>3, <2>1 DEF EntriesUpTo, TypeInv, TypeOK
<1>9. rows' \in [Calls -> Rows \cup {None}] /\ queued' \subseteq queued /\ \A d \in Calls : rows'[d] \in {rows[d], mem[d]}
  BY <1>3, FlushedFacts DEF TypeInv, TypeOK
<1>10. said' \in [Calls -> BOOLEAN]
  <2> DEFINE b == Continues(p) /\ Lost(recs[p].doc, recs[p].rev, recs[p].at)
  <2>1. b \in BOOLEAN
    BY DEF Continues, Lost
  <2>2. said' = [said EXCEPT ![c] = b]
    BY <1>3
  <2> HIDE DEF b
  <2>3. QED
    BY <2>1, <2>2 DEF TypeInv, TypeOK
<1>11. pc' \in [Calls -> {"idle", "begun", "found", "ran", "over"}] /\ \A d \in Calls : d # c => pc'[d] = pc[d]
  BY <1>3 DEF TypeInv, TypeOK
<1>12. TypeOK'
  <2>1. queued' \subseteq Calls /\ did' \in [Calls -> Seen \cup {None}]
    BY <1>3, <1>7, <1>9 DEF TypeInv, TypeOK
  <2>2. QED
    BY <1>3, <1>4, <1>5, <1>6, <1>8, <1>9, <1>10, <1>11, <2>1 DEF TypeInv, TypeOK, Open
<1>13. Bounded'
  <2>1. \A s \in Slots : docs'[s] # None => docs'[s].rev <= N + 1
    BY <1>1, <1>2, <1>5 DEF TypeInv, TypeOK, Entries, EntriesUpTo, Open
  <2>2. \A q \in Paths : recs'[q] # None => recs'[q].rev <= N + 1
    BY <1>1, <1>2, <1>4, <1>6 DEF TypeInv, TypeOK, Records, EntriesUpTo, Recorded
  <2>3. \A t \in noted' : t[2] <= N + 1
    BY <1>8
  <2>4. EntriesUpTo(N + 1)'
    BY <2>1, <2>2, <2>3 DEF EntriesUpTo, Open, Recorded
  <2>5. \A d \in Calls : \A r \in {mem[d], rows[d]} : r # None => \A n \in RevisionsIn(r) : n <= N + 1
    BY <1>1, RevisionsType DEF RowsUpTo, TypeInv, TypeOK
  <2>6. \A t \in others : t[2] <= N + 1
    BY <1>1 DEF RowsUpTo, TypeInv, TypeOK
  <2>7. RowsUpTo(N + 1)'
    BY <1>3, <1>9, <2>5, <2>6 DEF RowsUpTo, RevisionsIn
  <2>8. QED
    BY <2>4, <2>7 DEF Bounded
<1>14. MemThere' /\ WritingIs'
  BY <1>3, <1>9, <1>11 DEF TypeInv, TypeOK, MemThere, WritingIs, Running
<1>15. QED
  BY <1>12, <1>13, <1>14 DEF TypeInv

\* A row is opened on the active document.
LEMMA BeginTypes ==
  ASSUME TypeInv, NEW c \in Calls, NEW k \in Kinds, Begin(c, k)
  PROVE  TypeInv'
<1>1. PICK N \in Nat : EntriesUpTo(N) /\ RowsUpTo(N)
  BY DEF TypeInv, Bounded
<1> DEFINE rec == Row(ActiveDoc, ActiveRev)
<1>2. rec \in Rows /\ rec # None /\ \A n \in RevisionsIn(rec) : n <= N
  <2>1. ActiveDoc \in Ids \cup {None} /\ ActiveRev \in Nat \cup {None} /\ (ActiveRev # None => ActiveRev <= N)
    BY <1>1, ActiveFacts DEF TypeInv, EntriesUpTo
  <2>2. QED
    BY <2>1, NoneIsApart DEF Row, Rows, RevisionsIn
<1>3. /\ Begun(c, k, rec) /\ kind' = [kind EXCEPT ![c] = k] /\ pc' = [pc EXCEPT ![c] = "begun"] /\ pc[c] = "idle"
      /\ UNCHANGED <<up, disk, recs, docs, active, noted, writing, did, said, seen>>
  BY DEF Begin, regVars
<1> HIDE DEF rec
<1>4. /\ mem' \in [Calls -> Rows \cup {None}] /\ rows' \in [Calls -> Rows \cup {None}]
      /\ queued' \subseteq queued \cup {c} /\ others' = others /\ RowsUpTo(N)'
      /\ mem' = [mem EXCEPT ![c] = rec]
  BY <1>1, <1>2, <1>3, JournalTypes DEF TypeInv
<1>5. TypeOK'
  BY <1>3, <1>4 DEF TypeInv, TypeOK, Open
<1>6. EntriesUpTo(N)'
  BY <1>1, <1>3, SameEntries
<1>7. MemThere'
  <2>1. \A d \in Calls : mem'[d] = IF d = c THEN rec ELSE mem[d]
    BY <1>4 DEF TypeInv, TypeOK
  <2>2. \A d \in Calls : d # c => pc'[d] = pc[d] /\ (d \in queued' => d \in queued)
    BY <1>3, <1>4 DEF TypeInv, TypeOK
  <2>3. QED
    BY <1>2, <2>1, <2>2 DEF TypeInv, MemThere, Running
<1>8. WritingIs'
  BY <1>3 DEF TypeInv, TypeOK, WritingIs
<1>9. QED
  BY <1>4, <1>5, <1>6, <1>7, <1>8 DEF TypeInv, Bounded

\* What a finished call's record holds.
Closed(c) == [mem[c] EXCEPT !.after = ActiveRev,
                            !.doc = IF @ = None THEN ActiveDoc ELSE @,
                            !.state = IF pc[c] = "ran" THEN "committed" ELSE "failed"]

\* It is a row, with the active revision and a name if there is one.
LEMMA ClosedFacts ==
  ASSUME TypeOK, NEW c \in Calls, mem[c] # None
  PROVE  /\ Closed(c) \in Rows /\ Closed(c) # None
         /\ Closed(c).before = mem[c].before /\ Closed(c).after = ActiveRev
         /\ Closed(c).doc = IF mem[c].doc = None THEN ActiveDoc ELSE mem[c].doc
         /\ Closed(c).state = IF pc[c] = "ran" THEN "committed" ELSE "failed"
<1>1. mem[c] \in Rows /\ ActiveDoc \in Ids \cup {None} /\ ActiveRev \in Nat \cup {None}
  BY ActiveFacts DEF TypeOK
<1>2. Closed(c) \in Rows
  BY <1>1 DEF Closed, Rows
<1>3. /\ Closed(c).before = mem[c].before /\ Closed(c).after = ActiveRev
      /\ Closed(c).doc = IF mem[c].doc = None THEN ActiveDoc ELSE mem[c].doc
      /\ Closed(c).state = IF pc[c] = "ran" THEN "committed" ELSE "failed"
  BY <1>1 DEF Closed, Rows
<1>4. QED
  BY <1>2, <1>3, NoneIsApart

\* It is closed with the active revision.
LEMMA FinishTypes ==
  ASSUME TypeInv, NEW c \in Calls, Finish(c)
  PROVE  TypeInv'
<1>1. PICK N \in Nat : EntriesUpTo(N) /\ RowsUpTo(N)
  BY DEF TypeInv, Bounded
<1>2. /\ Ended(c, Closed(c)) /\ pc' = [pc EXCEPT ![c] = "over"] /\ pc[c] \in {"begun", "ran"}
      /\ \A p \in Paths : writing # <<c, p>>
      /\ seen' = IF did[c] = None THEN seen ELSE seen \cup {did[c]}
      /\ UNCHANGED <<up, disk, recs, docs, active, noted, writing, kind, did, said>>
  BY DEF Finish, Closed, regVars
<1>3. mem[c] # None
  BY <1>2 DEF TypeInv, MemThere, Running
<1>4. Closed(c) \in Rows /\ Closed(c) # None /\ \A n \in RevisionsIn(Closed(c)) : n <= N
  <2>1. ActiveRev # None => ActiveRev <= N
    BY <1>1, ActiveFacts DEF TypeInv, EntriesUpTo
  <2>2. mem[c].before # None => mem[c].before <= N
    BY <1>1, <1>3 DEF RowsUpTo, RevisionsIn
  <2>3. QED
    BY <1>3, <2>1, <2>2, ClosedFacts DEF RevisionsIn, TypeInv
<1>5. /\ mem' \in [Calls -> Rows \cup {None}] /\ rows' \in [Calls -> Rows \cup {None}]
      /\ queued' \subseteq queued \cup {c} /\ others' = others /\ RowsUpTo(N)'
      /\ mem' = [mem EXCEPT ![c] = Closed(c)]
  <2>1. kind[c] \in Kinds
    BY DEF TypeInv, TypeOK
  <2>2. QED
    BY <1>1, <1>2, <1>4, <2>1, JournalTypes DEF TypeInv
<1>6. seen' \subseteq Seen
  BY <1>2 DEF TypeInv, TypeOK
<1>7. TypeOK'
  BY <1>2, <1>5, <1>6 DEF TypeInv, TypeOK, Open
<1>8. EntriesUpTo(N)'
  BY <1>1, <1>2, SameEntries
<1>9. MemThere'
  <2>1. \A d \in Calls : mem'[d] = IF d = c THEN Closed(c) ELSE mem[d]
    BY <1>5 DEF TypeInv, TypeOK
  <2>2. \A d \in Calls : d # c => pc'[d] = pc[d] /\ (d \in queued' => d \in queued)
    BY <1>2, <1>5 DEF TypeInv, TypeOK
  <2>3. QED
    BY <1>4, <2>1, <2>2 DEF TypeInv, MemThere, Running
<1>10. WritingIs'
  <2>1. writing # None => writing \in Calls \X Paths /\ writing[1] # c
    BY <1>2 DEF TypeInv, TypeOK
  <2>2. QED
    BY <1>2, <2>1 DEF TypeInv, TypeOK, WritingIs
<1>11. QED
  BY <1>5, <1>7, <1>8, <1>9, <1>10 DEF TypeInv, Bounded

\* Around the calls.
LEMMA AroundTypes ==
  ASSUME TypeInv, Flush \/ Kill \/ Start \/ (\E c \in Calls : JournalChange(c))
                  \/ (\E p \in Paths : \E content \in Foreign \cup {p} : ForeignWrite(p, content))
  PROVE  TypeInv'
<1>1. PICK N \in Nat : EntriesUpTo(N) /\ RowsUpTo(N)
  BY DEF TypeInv, Bounded
<1>2. CASE Flush
  <2>1. rows' = Flushed /\ queued' = {} /\ UNCHANGED <<up, disk, recs, docs, active, noted, writing, kind, pc, did, said, mem, others, seen>>
    BY <1>2 DEF Flush, regVars, callVars
  <2>2. rows' \in [Calls -> Rows \cup {None}] /\ \A c \in Calls : rows'[c] \in {rows[c], mem[c]}
    BY <2>1, FlushedFacts DEF TypeInv
  <2>3. RowsUpTo(N)'
    BY <1>1, <2>1, <2>2 DEF RowsUpTo, RevisionsIn
  <2>4. TypeOK' /\ MemThere' /\ WritingIs'
    BY <2>1, <2>2 DEF TypeInv, TypeOK, MemThere, WritingIs, Running, Open
  <2>5. EntriesUpTo(N)'
    BY <1>1, <2>1, SameEntries
  <2>6. QED
    BY <2>3, <2>4, <2>5 DEF TypeInv, Bounded
<1>3. CASE Kill
  <2>1. /\ up' = FALSE /\ docs' = [s \in Slots |-> None] /\ active' = None /\ noted' = {} /\ writing' = None
        /\ pc' = [c \in Calls |-> IF c \in Running THEN "over" ELSE pc[c]]
        /\ did' = [c \in Calls |-> IF c \in Running THEN None ELSE did[c]]
        /\ mem' = [c \in Calls |-> None] /\ queued' = {}
        /\ UNCHANGED <<disk, recs, kind, said, rows, others, seen>>
    BY <1>3 DEF Kill
  <2>2. TypeOK'
    BY <2>1 DEF TypeInv, TypeOK
  <2>3. EntriesUpTo(N)' /\ RowsUpTo(N)'
    BY <1>1, <2>1 DEF EntriesUpTo, RowsUpTo, Open, Recorded, RevisionsIn
  <2>4. MemThere' /\ WritingIs'
    BY <2>1 DEF MemThere, WritingIs, Running
  <2>5. QED
    BY <2>2, <2>3, <2>4 DEF TypeInv, Bounded
<1>4. CASE Start
  <2> DEFINE row(c) == IF rows[c] = None THEN None
                       ELSE IF rows[c].state # "running" THEN rows[c]
                       ELSE [rows[c] EXCEPT !.state = IF kind[c] = "look" THEN "cancelled" ELSE "unknown_commit"]
  <2>1. /\ up' = TRUE /\ rows' = [c \in Calls |-> row(c)]
        /\ UNCHANGED <<disk, recs, docs, active, noted, writing, kind, pc, did, said, mem, queued, others, seen>>
    BY <1>4 DEF Start, regVars, callVars
  <2>2. \A c \in Calls : /\ row(c) \in Rows \cup {None}
                         /\ row(c) # None => rows[c] # None /\ row(c).before = rows[c].before /\ row(c).after = rows[c].after
    <3> SUFFICES ASSUME NEW c \in Calls, rows[c] # None
                 PROVE  row(c) \in Rows \cup {None} /\ row(c).before = rows[c].before /\ row(c).after = rows[c].after
      OBVIOUS
    <3>1. rows[c] \in Rows
      BY DEF TypeInv, TypeOK
    <3>2. QED
      BY <3>1 DEF Rows
  <2> HIDE DEF row
  <2>3. RowsUpTo(N)'
    BY <1>1, <2>1, <2>2 DEF RowsUpTo, RevisionsIn
  <2>4. TypeOK' /\ MemThere' /\ WritingIs'
    BY <2>1, <2>2 DEF TypeInv, TypeOK, MemThere, WritingIs, Running, Open
  <2>5. EntriesUpTo(N)'
    BY <1>1, <2>1, SameEntries
  <2>6. QED
    BY <2>3, <2>4, <2>5 DEF TypeInv, Bounded
<1>5. CASE \E c \in Calls : JournalChange(c)
  <2>1. PICK c \in Calls : JournalChange(c)
    BY <1>5
  <2>2. others' \subseteq Ids \X Nat /\ \A t \in others' : t[2] <= N
    BY <1>1, <2>1, ActiveFacts DEF JournalChange, EntriesUpTo, RowsUpTo, TypeInv, TypeOK
  <2>3. /\ pc' = [pc EXCEPT ![c] = "ran"] /\ pc[c] = "found"
        /\ UNCHANGED <<up, disk, recs, docs, active, noted, writing, kind, did, said, mem, rows, queued, seen>>
    BY <2>1 DEF JournalChange, regVars
  <2>4. TypeOK'
    BY <2>2, <2>3 DEF TypeInv, TypeOK, Open
  <2>5. MemThere' /\ WritingIs'
    BY <2>3 DEF TypeInv, TypeOK, MemThere, WritingIs, Running
  <2>6. RowsUpTo(N)'
    BY <1>1, <2>2, <2>3 DEF RowsUpTo
  <2>7. EntriesUpTo(N)'
    BY <1>1, <2>3, SameEntries
  <2>8. QED
    BY <2>4, <2>5, <2>6, <2>7 DEF TypeInv, Bounded
<1>6. CASE \E p \in Paths : \E content \in Foreign \cup {p} : ForeignWrite(p, content)
  <2>1. PICK p \in Paths : \E content \in Foreign \cup {p} : ForeignWrite(p, content)
    BY <1>6
  <2>2. PICK content \in Foreign \cup {p} : ForeignWrite(p, content)
    BY <2>1
  <2>3. /\ disk' = [disk EXCEPT ![p] = content] /\ content \in Contents
        /\ UNCHANGED <<up, recs, docs, active, noted, writing, kind, pc, did, said, mem, rows, queued, others, seen>>
    BY <2>2 DEF ForeignWrite, regVars, callVars, journalVars, Contents
  <2>4. TypeOK' /\ MemThere' /\ WritingIs'
    BY <2>3 DEF TypeInv, TypeOK, MemThere, WritingIs, Running, Open
  <2>5. EntriesUpTo(N)' /\ RowsUpTo(N)'
    BY <1>1, <2>3, SameEntries, SameRows
  <2>6. QED
    BY <2>4, <2>5 DEF TypeInv, Bounded
<1>7. QED
  BY <1>2, <1>3, <1>4, <1>5, <1>6

\* The types are kept by every step.
LEMMA TypeKept ==
  ASSUME TypeInv, [Next]_vars
  PROVE  TypeInv'
<1>1. CASE UNCHANGED vars
  BY <1>1 DEF vars, regVars, callVars, journalVars, TypeInv, TypeOK, Bounded, EntriesUpTo, RowsUpTo, Recorded, Open,
       MemThere, WritingIs, Running
<1>2. CASE Next
  BY <1>2, BodyTypes, EditTypes, NewCloseTypes, SaveTypes, ReopenTypes, BeginTypes, FinishTypes, AroundTypes DEF Next, Body
<1>3. QED
  BY <1>1, <1>2

\* They hold at the start.
LEMMA TypeInit == Init => TypeInv
<1> SUFFICES ASSUME Init PROVE TypeInv
  OBVIOUS
<1>1. MaxSaved \in Nat
  BY LineageAssumption
<1>2. \A p \in Paths : recs[p] # None =>
        /\ recs[p] \in Records /\ recs[p].doc \in Paths /\ recs[p].sha \in Paths /\ recs[p].rev \in 0..MaxSaved
  BY <1>1 DEF Init, Records, Ids, Contents
<1>3. others \subseteq Ids \X Nat /\ \A t \in others : t[2] <= MaxSaved
  BY <1>1, <1>2 DEF Init, Recorded, Ids
<1>4. TypeOK
  <2>1. recs \in [Paths -> Records \cup {None}]
    BY <1>2 DEF Init
  <2>2. disk \in [Paths -> Contents \cup {None}]
    BY DEF Init, Contents
  <2>3. QED
    BY <1>3, <2>1, <2>2 DEF Init, TypeOK, Kinds
<1>5. EntriesUpTo(MaxSaved) /\ RowsUpTo(MaxSaved)
  BY <1>1, <1>2, <1>3 DEF Init, EntriesUpTo, RowsUpTo, Recorded, Open
<1>6. MemThere /\ WritingIs
  BY DEF Init, MemThere, WritingIs, Running
<1>7. QED
  BY <1>1, <1>4, <1>5, <1>6 DEF TypeInv, Bounded

\* So they are an invariant.
LEMMA TypeInvariant == Spec => []TypeInv
BY TypeInit, TypeKept, PTL DEF Spec

\* The variables have their types, whatever the constants.
THEOREM TypeCorrect == Spec => []TypeOK
<1>1. TypeInv => TypeOK
  BY DEF TypeInv
<1>2. QED
  BY <1>1, TypeInvariant, PTL

\* What the proofs assume of the constants.
Orderly == ~Copies /\ Apart /\ Unnamed \subseteq {"close", "activate"}

-------------------------------------------------------------------------------
(* What each body leaves in the registry *)

\* An edit: the next revision of the active document, with its own content.
LEMMA EditEffect ==
  ASSUME TypeInv, NEW c \in Calls, Edit(c)
  PROVE  \E e \in Entries :
           /\ active \in Slots /\ Open(active) /\ e.doc = ActiveDoc /\ e.rev = ActiveRev + 1 /\ e.content = c
           /\ docs' = [docs EXCEPT ![active] = e] /\ docs'[active] = e
           /\ did' = [did EXCEPT ![c] = Facts(e)] /\ pc' = [pc EXCEPT ![c] = "ran"]
           /\ pc[c] = "begun" /\ kind[c] = "edit" /\ writing = None
           /\ UNCHANGED <<up, disk, recs, active, noted, writing, kind, said, mem, rows, queued, others, seen>>
<1> DEFINE e == Entry(docs[active].doc, docs[active].rev + 1, c)
<1>1. active \in Slots /\ Open(active) /\ docs[active] \in Entries /\ ActiveDoc = docs[active].doc /\ ActiveRev = docs[active].rev
  BY ActiveFacts DEF Edit, TypeInv
<1>2. docs[active].doc \in Ids /\ docs[active].rev + 1 \in Nat /\ c \in Contents
  BY <1>1 DEF Entries, Contents
<1>3. e \in Entries /\ e.doc = docs[active].doc /\ e.rev = docs[active].rev + 1 /\ e.content = c
  BY <1>2, EntryType
<1>4. /\ docs' = [docs EXCEPT ![active] = e] /\ Ran(c, Facts(docs'[active])) /\ pc[c] = "begun" /\ kind[c] = "edit" /\ writing = None
      /\ UNCHANGED <<up, disk, recs, active, noted, writing, kind, said, mem, rows, queued, others, seen>>
  BY DEF Edit, Runs, journalVars
<1> HIDE DEF e
<1>5. docs'[active] = e
  BY <1>1, <1>4 DEF TypeInv, TypeOK
<1>6. QED
  BY <1>1, <1>3, <1>4, <1>5 DEF Ran

\* A new document, which has the name and the content of the call.
LEMMA NewEffect ==
  ASSUME TypeInv, NEW c \in Calls, New(c)
  PROVE  \E e \in Entries :
           /\ e.doc = c /\ e.rev = 0 /\ e.content = c
           /\ docs' = [docs EXCEPT ![Untitled] = e] /\ docs'[Untitled] = e /\ active' = Untitled
           /\ did' = [did EXCEPT ![c] = Facts(e)] /\ pc' = [pc EXCEPT ![c] = "ran"]
           /\ pc[c] = "begun" /\ kind[c] = "new" /\ writing = None
           /\ UNCHANGED <<up, disk, recs, noted, writing, kind, said, mem, rows, queued, others, seen>>
<1> DEFINE e == Entry(c, 0, c)
<1>1. Untitled \in Slots /\ c \in Ids /\ c \in Contents
  BY DEF Slots, Ids, Contents
<1>2. e \in Entries /\ e.doc = c /\ e.rev = 0 /\ e.content = c
  BY <1>1, EntryType
<1>3. /\ docs' = [docs EXCEPT ![Untitled] = e] /\ active' = Untitled /\ Ran(c, Facts(docs'[Untitled]))
      /\ pc[c] = "begun" /\ kind[c] = "new" /\ writing = None
      /\ UNCHANGED <<up, disk, recs, noted, writing, kind, said, mem, rows, queued, others, seen>>
  BY DEF New, Runs, journalVars
<1> HIDE DEF e
<1>4. docs'[Untitled] = e
  BY <1>1, <1>3 DEF TypeInv, TypeOK
<1>5. QED
  BY <1>2, <1>3, <1>4 DEF Ran

\* A save that finishes: its record, and the entry under the new path.
LEMMA SaveEffect ==
  ASSUME TypeInv, NEW c \in Calls, SaveRecord(c)
  PROVE  \E p \in Paths, r \in Records :
           /\ writing = <<c, p>> /\ active \in Slots /\ Open(active) /\ docs[active] \in Entries
           /\ r.doc = docs[active].doc /\ r.rev = docs[active].rev /\ r.sha = docs[active].content /\ r # None
           /\ recs' = [recs EXCEPT ![p] = r]
           /\ \A s \in Slots : docs'[s] = IF s = p THEN docs[active] ELSE IF s = active THEN None ELSE docs[s]
           /\ active' = p /\ writing' = None
           /\ did' = [did EXCEPT ![c] = Facts(docs[active])] /\ pc' = [pc EXCEPT ![c] = "ran"]
           /\ pc[c] = "begun" /\ kind[c] = "save"
           /\ UNCHANGED <<up, disk, noted, kind, said, mem, rows, queued, others, seen>>
<1> DEFINE p == writing[2]
           r == [doc |-> docs[active].doc, sha |-> docs[active].content, rev |-> docs[active].rev, at |-> Last]
<1>1. writing # None /\ writing \in Calls \X Paths /\ writing[1] = c
  BY DEF SaveRecord, TypeInv, TypeOK
<1>2. active # None /\ pc[c] = "begun" /\ kind[c] = "save"
  BY <1>1 DEF TypeInv, WritingIs
<1>3. active \in Slots /\ Open(active) /\ docs[active] \in Entries
  BY <1>2, ActiveFacts DEF TypeInv
<1>4. p \in Paths /\ writing = <<c, p>>
  BY <1>1
<1>5. /\ r \in Records /\ r # None
      /\ r.doc = docs[active].doc /\ r.rev = docs[active].rev /\ r.sha = docs[active].content
  BY <1>3, LastType, RecordType
<1>6. /\ recs' = [recs EXCEPT ![p] = r]
      /\ docs' = [s \in Slots |-> IF s = p THEN docs[active] ELSE IF s = active THEN None ELSE docs[s]]
      /\ active' = p /\ Ran(c, Facts(docs[active])) /\ writing' = None
      /\ UNCHANGED <<up, disk, noted, kind, said, mem, rows, queued, others, seen>>
  BY DEF SaveRecord, journalVars
<1> HIDE DEF p, r
<1>7. QED
  BY <1>2, <1>3, <1>4, <1>5, <1>6 DEF Ran

\* A file that is opened: its entry and its record agree.
LEMMA ReopenEffect ==
  ASSUME TypeInv, NEW c \in Calls, NEW p \in Paths, Reopen(c, p)
  PROVE  \E e \in Entries, r \in Records :
           /\ e = Reopened(c, p) /\ e.content = disk[p] /\ disk[p] # None
           /\ Continues(p) => e.doc = recs[p].doc /\ e.rev = Resumed(p)
           /\ ~Continues(p) => e.doc = c /\ e.rev = 0
           /\ r.doc = e.doc /\ r.rev = e.rev /\ r.sha = e.content /\ r # None
           /\ docs' = [docs EXCEPT ![p] = e] /\ docs'[p] = e
           /\ recs' = [recs EXCEPT ![p] = r] /\ recs'[p] = r
           /\ active' = p
           /\ did' = [did EXCEPT ![c] = Facts(e)]
           /\ pc' = [pc EXCEPT ![c] = IF recs[p] # None /\ Changed(p) THEN "found" ELSE "ran"]
           /\ said' = [said EXCEPT ![c] = Continues(p) /\ Lost(recs[p].doc, recs[p].rev, recs[p].at)]
           /\ (rows' = rows /\ queued' = queued) \/ (rows' = Flushed /\ queued' = {})
           /\ pc[c] = "begun" /\ kind[c] = "open" /\ writing = None
           /\ UNCHANGED <<up, disk, writing, kind, mem, others, seen>>
<1> DEFINE e == Reopened(c, p)
           r == [doc |-> e.doc, sha |-> e.content, rev |-> e.rev, at |-> Last]
<1>1. /\ docs' = [docs EXCEPT ![p] = e]
      /\ recs' = [recs EXCEPT ![p] = [doc |-> e.doc, sha |-> disk[p], rev |-> e.rev, at |-> Last]]
      /\ did' = [did EXCEPT ![c] = Facts(e)]
      /\ pc' = [pc EXCEPT ![c] = IF recs[p] # None /\ Changed(p) THEN "found" ELSE "ran"]
      /\ active' = p
      /\ said' = [said EXCEPT ![c] = Continues(p) /\ Lost(recs[p].doc, recs[p].rev, recs[p].at)]
      /\ (rows' = rows /\ queued' = queued) \/ (rows' = Flushed /\ queued' = {})
      /\ UNCHANGED <<up, disk, writing, kind, mem, others, seen>>
      /\ pc[c] = "begun" /\ kind[c] = "open" /\ writing = None /\ disk[p] # None
  BY DEF Reopen, Reopened, Runs
<1>2. /\ e \in Entries /\ e.content = disk[p]
      /\ Continues(p) => e.doc = recs[p].doc /\ e.rev = Resumed(p)
      /\ ~Continues(p) => e.doc = c /\ e.rev = 0
  BY <1>1, ReopenedFacts DEF TypeInv, Bounded
<1>3. /\ r \in Records /\ r # None /\ r.doc = e.doc /\ r.rev = e.rev /\ r.sha = e.content
      /\ recs' = [recs EXCEPT ![p] = r]
  BY <1>1, <1>2, LastType, RecordType
<1>4. e = Reopened(c, p)
  OBVIOUS
<1> HIDE DEF e, r
<1>5. docs'[p] = e /\ recs'[p] = r
  BY <1>1, <1>3 DEF TypeInv, TypeOK, Slots
<1>6. QED
  BY <1>1, <1>2, <1>3, <1>4, <1>5

-------------------------------------------------------------------------------
(* What the calls and the journal know of each other *)

\* A call leaves nothing behind before it begins, and queues its row as it ends.
Resting ==
  \A c \in Calls :
    /\ pc[c] = "idle" => mem[c] = None /\ rows[c] = None /\ did[c] = None
    /\ pc[c] = "begun" => did[c] = None
    /\ pc[c] \in {"found", "ran"} => did[c] # None
    /\ c \in queued => pc[c] = "over"

\* A dead server runs nothing.
Downed == ~up => Running = {} /\ queued = {} /\ active = None

\* The file has each row that is at work as memory has it, and of a queued one an
\* earlier state.
RowKept ==
  /\ \A c \in Running : rows[c] = mem[c] /\ mem[c].after = None /\ mem[c].state = "running"
  /\ \A c \in queued : /\ rows[c] # None /\ rows[c].doc \in {None, mem[c].doc}
                       /\ RevisionsIn(rows[c]) \subseteq RevisionsIn(mem[c])
                       /\ kind[c] \in Unnamed

\* A call that switches documents runs alone.
AloneIs == \A c, d \in Running : c # d => kind[c] \notin Switching

\* So any other one ends on the document its row was opened on.
Bound(c) ==
  /\ mem[c].doc = ActiveDoc
  /\ mem[c].doc # None => mem[c].before # None /\ mem[c].before <= ActiveRev
  /\ did[c] # None => /\ active # None /\ did[c][1] = ActiveDoc /\ did[c][2] <= ActiveRev
                      /\ kind[c] = "edit" => mem[c].before < did[c][2]
  /\ pc[c] # "found"

BoundTo == \A c \in Running : kind[c] \notin Switching => Bound(c)

\* The file has the row of each answered edit.
EditRow ==
  \A e \in Calls : (pc[e] = "over" /\ kind[e] = "edit" /\ did[e] # None) =>
    /\ e \notin queued
    /\ rows[e] # None /\ rows[e].state = "committed" /\ rows[e].doc = did[e][1]
    /\ rows[e].before # None /\ rows[e].after # None
    /\ rows[e].before < did[e][2] /\ did[e][2] <= rows[e].after

JournalInv == Resting /\ Downed /\ RowKept /\ AloneIs /\ BoundTo /\ EditRow

\* What the body of a call does to the calls and to the journal.
Works(c) ==
  /\ pc[c] \in {"begun", "found"} /\ pc'[c] \in {"begun", "found", "ran"}
  /\ pc'[c] = "begun" => pc[c] = "begun" /\ did'[c] = did[c]
  /\ pc'[c] \in {"found", "ran"} => did'[c] # None \/ (pc[c] = "found" /\ did'[c] = did[c])
  /\ pc'[c] = "found" => kind[c] = "open"
  /\ \A d \in Calls \ {c} : pc'[d] = pc[d] /\ did'[d] = did[d]
  /\ up' = up /\ kind' = kind /\ mem' = mem /\ seen' = seen /\ others \subseteq others'
  /\ (rows' = rows /\ queued' = queued) \/ (rows' = Flushed /\ queued' = {})

\* Every body does that.
LEMMA BodyWorks ==
  ASSUME TypeInv, NEW c \in Calls, Body(c)
  PROVE  Works(c)
<1>1. /\ pc \in [Calls -> {"idle", "begun", "found", "ran", "over"}] /\ did \in [Calls -> Seen \cup {None}]
      /\ None \notin Seen
  BY NoneIsApart DEF TypeInv, TypeOK
<1>2. ASSUME NEW x \in Seen, pc[c] = "begun", Ran(c, x), UNCHANGED <<up, kind, mem, seen, others, rows, queued>>
      PROVE  Works(c)
  BY <1>1, <1>2 DEF Ran, Works
<1>3. CASE Look(c) \/ SaveRecord(c) \/ Close(c) \/ \E s \in Slots : Activate(c, s)
  <2>1. /\ pc[c] = "begun" /\ UNCHANGED <<up, kind, mem, seen, others, rows, queued>>
        /\ \E s \in Slots : Open(s) /\ Ran(c, Facts(docs[s]))
    BY <1>3, ActiveFacts DEF Look, SaveRecord, Close, Activate, Runs, regVars, callVars, journalVars, TypeInv, WritingIs
  <2>2. PICK s \in Slots : Open(s) /\ Ran(c, Facts(docs[s]))
    BY <2>1
  <2>3. Facts(docs[s]) \in Seen
    BY <2>2, ActiveFacts, FactsType DEF TypeInv
  <2>4. QED
    BY <1>2, <2>1, <2>2, <2>3
<1>4. CASE Edit(c) \/ New(c)
  <2>1. /\ pc[c] = "begun" /\ UNCHANGED <<up, kind, mem, seen, others, rows, queued>>
        /\ \E e \in Entries : did' = [did EXCEPT ![c] = Facts(e)] /\ pc' = [pc EXCEPT ![c] = "ran"]
    <3>1. CASE Edit(c)
      BY <3>1, EditEffect
    <3>2. CASE New(c)
      BY <3>2, NewEffect
    <3>3. QED
      BY <1>4, <3>1, <3>2
  <2>2. PICK e \in Entries : did' = [did EXCEPT ![c] = Facts(e)] /\ pc' = [pc EXCEPT ![c] = "ran"]
    BY <2>1
  <2>3. Facts(e) \in Seen
    BY FactsType
  <2>4. QED
    BY <1>2, <2>1, <2>2, <2>3 DEF Ran
<1>5. CASE \E p \in Paths : SaveFile(c, p)
  BY <1>1, <1>5 DEF SaveFile, Runs, regVars, callVars, journalVars, Works
<1>6. CASE JournalChange(c)
  BY <1>1, <1>6 DEF JournalChange, regVars, Works
<1>7. CASE \E p \in Paths : Reopen(c, p)
  <2>1. PICK p \in Paths : Reopen(c, p)
    BY <1>7
  <2>2. PICK e \in Entries :
          /\ did' = [did EXCEPT ![c] = Facts(e)]
          /\ pc' = [pc EXCEPT ![c] = IF recs[p] # None /\ Changed(p) THEN "found" ELSE "ran"]
          /\ (rows' = rows /\ queued' = queued) \/ (rows' = Flushed /\ queued' = {})
          /\ pc[c] = "begun" /\ kind[c] = "open" /\ UNCHANGED <<up, kind, mem, others, seen>>
    BY <2>1, ReopenEffect
  <2>3. Facts(e) \in Seen
    BY FactsType
  <2>4. QED
    BY <1>1, <2>2, <2>3 DEF Works
<1>8. QED
  BY <1>3, <1>4, <1>5, <1>6, <1>7 DEF Body

\* Only Look, Edit, SaveRecord speak of a document without switching.
LEMMA BodyStays ==
  ASSUME TypeInv, NEW c \in Calls, Body(c), kind[c] \notin Switching
  PROVE  /\ ActiveDoc' = ActiveDoc /\ (active # None => active' # None /\ ActiveRev <= ActiveRev')
         /\ \/ did'[c] = did[c] /\ ActiveRev' = ActiveRev
            \/ /\ active # None /\ did'[c][1] = ActiveDoc /\ did'[c][2] = ActiveRev' /\ did'[c] # None
               /\ kind[c] = "edit" => ActiveRev < did'[c][2]
         /\ pc'[c] # "found" \/ pc[c] = "found"
<1>1. ActiveRev \in Nat \/ active = None
  BY ActiveFacts DEF TypeInv
<1>2. CASE UNCHANGED <<docs, active, did>>
  <2>1. ActiveDoc' = ActiveDoc /\ ActiveRev' = ActiveRev
    BY <1>2 DEF ActiveDoc, ActiveRev
  <2>2. pc'[c] = "found" => kind[c] = "open"
    BY BodyWorks DEF Works
  <2>3. QED
    BY <1>1, <1>2, <2>1, <2>2 DEF Switching
<1>3. CASE Look(c)
  <2>1. /\ UNCHANGED <<docs, active>> /\ active # None /\ did' = [did EXCEPT ![c] = Facts(docs[active])]
        /\ pc' = [pc EXCEPT ![c] = "ran"] /\ kind[c] = "look"
    BY <1>3 DEF Look, Runs, Ran, regVars
  <2>2. ActiveDoc' = ActiveDoc /\ ActiveRev' = ActiveRev
    BY <2>1 DEF ActiveDoc, ActiveRev
  <2>3. did'[c] = <<ActiveDoc, ActiveRev, docs[active].content>> /\ did'[c] # None /\ pc'[c] = "ran"
    BY <2>1, ActiveFacts, FactsType DEF TypeInv, TypeOK
  <2>4. QED
    BY <1>1, <2>1, <2>2, <2>3
<1>4. CASE Edit(c)
  <2>1. PICK e \in Entries :
          /\ active \in Slots /\ Open(active) /\ e.doc = ActiveDoc /\ e.rev = ActiveRev + 1
          /\ docs'[active] = e /\ active' = active
          /\ did' = [did EXCEPT ![c] = Facts(e)] /\ pc' = [pc EXCEPT ![c] = "ran"]
    BY <1>4, EditEffect
  <2>2. active # None
    BY <1>4 DEF Edit
  <2>3. ActiveDoc' = e.doc /\ ActiveRev' = e.rev
    BY <2>1, <2>2 DEF ActiveDoc, ActiveRev
  <2>4. did'[c] = <<e.doc, e.rev, e.content>> /\ did'[c] # None /\ pc'[c] = "ran"
    BY <2>1, FactsType DEF TypeInv, TypeOK
  <2>5. QED
    BY <1>1, <2>1, <2>2, <2>3, <2>4
<1>5. CASE SaveRecord(c)
  <2>1. PICK p \in Paths :
          /\ active \in Slots /\ Open(active) /\ docs[active] \in Entries
          /\ \A s \in Slots : docs'[s] = IF s = p THEN docs[active] ELSE IF s = active THEN None ELSE docs[s]
          /\ active' = p /\ kind[c] = "save"
          /\ did' = [did EXCEPT ![c] = Facts(docs[active])] /\ pc' = [pc EXCEPT ![c] = "ran"]
    BY <1>5, SaveEffect
  <2>2. active # None /\ p # None /\ p \in Slots
    BY <2>1, LineageAssumption DEF Slots
  <2>3. ActiveDoc' = ActiveDoc /\ ActiveRev' = ActiveRev
    BY <2>1, <2>2 DEF ActiveDoc, ActiveRev
  <2>4. did'[c] = <<ActiveDoc, ActiveRev, docs[active].content>> /\ did'[c] # None /\ pc'[c] = "ran"
    BY <2>1, <2>2, ActiveFacts, FactsType DEF TypeInv, TypeOK
  <2>5. QED
    BY <1>1, <2>1, <2>2, <2>3, <2>4
<1>6. CASE JournalChange(c) \/ \E p \in Paths : SaveFile(c, p)
  <2>1. UNCHANGED <<docs, active, did>>
    BY <1>6 DEF JournalChange, SaveFile, regVars, callVars
  <2>2. QED
    BY <1>2, <2>1
<1>7. ~(New(c) \/ Close(c) \/ (\E p \in Paths : Reopen(c, p)) \/ (\E s \in Slots : Activate(c, s)))
  BY DEF New, Close, Reopen, Activate, Runs, Switching
<1>8. QED
  BY <1>3, <1>4, <1>5, <1>6, <1>7 DEF Body

\* The journal's part is kept by a body.
LEMMA BodyJournal ==
  ASSUME TypeInv, JournalInv, NEW c \in Calls, Body(c)
  PROVE  JournalInv'
<1>1. Works(c)
  BY BodyWorks
<1>2. c \in Running /\ Running' = Running
  BY <1>1 DEF Works, Running
<1>3. \A d \in Running : d \notin queued
  BY DEF JournalInv, Resting, Running
<1>4. /\ queued' \subseteq queued /\ \A d \in Calls : d \in queued' => rows'[d] = rows[d]
      /\ \A d \in Calls : d \notin queued => rows'[d] = rows[d]
  BY <1>1, FlushedFacts DEF Works, TypeInv
<1>5. Resting'
  BY <1>1, <1>3, <1>4 DEF Works, JournalInv, Resting, Running
<1>6. Downed'
  BY <1>1, <1>2 DEF Works, JournalInv, Downed
<1>7. RowKept'
  <2>1. mem' = mem /\ kind' = kind
    BY <1>1 DEF Works
  <2>2. \A d \in Running : rows'[d] = mem'[d] /\ mem'[d].after = None /\ mem'[d].state = "running"
    BY <1>3, <1>4, <2>1 DEF JournalInv, RowKept, Running
  <2>3. \A d \in queued' : /\ rows'[d] # None /\ rows'[d].doc \in {None, mem'[d].doc}
                           /\ RevisionsIn(rows'[d]) \subseteq RevisionsIn(mem'[d])
                           /\ kind'[d] \in Unnamed
    BY <1>4, <2>1 DEF JournalInv, RowKept, TypeInv, TypeOK
  <2>4. QED
    BY <1>2, <2>2, <2>3 DEF RowKept, RevisionsIn
<1>8. AloneIs'
  BY <1>1, <1>2 DEF Works, JournalInv, AloneIs
<1>9. EditRow'
  BY <1>1, <1>4 DEF Works, JournalInv, EditRow
<1>10. BoundTo'
  <2> SUFFICES ASSUME NEW d \in Running, kind[d] \notin Switching PROVE Bound(d)'
    BY <1>1, <1>2 DEF BoundTo, Works
  <2>1. Bound(d)
    BY DEF JournalInv, BoundTo
  <2>2. kind[c] \notin Switching
    BY <1>2 DEF JournalInv, AloneIs
  <2>3. /\ ActiveDoc' = ActiveDoc /\ (active # None => active' # None /\ ActiveRev <= ActiveRev')
        /\ \/ did'[c] = did[c] /\ ActiveRev' = ActiveRev
           \/ /\ active # None /\ did'[c][1] = ActiveDoc /\ did'[c][2] = ActiveRev' /\ did'[c] # None
              /\ kind[c] = "edit" => ActiveRev < did'[c][2]
        /\ pc'[c] # "found" \/ pc[c] = "found"
    BY <2>2, BodyStays
  <2>4. /\ active # None => ActiveDoc # None /\ ActiveRev \in Nat
        /\ active = None => ActiveDoc = None
    BY ActiveFacts DEF TypeInv
  <2>5. active' # None => ActiveRev' \in Nat
    <3>1. TypeOK'
      BY TypeKept DEF TypeInv, Next
    <3>2. QED
      BY <3>1 DEF TypeOK, Open, ActiveRev, Entries
  <2>6. mem'[d] = mem[d] /\ kind'[d] = kind[d] /\ (mem[d].doc # None => mem[d].before \in Nat)
    <3>1. d \in Calls /\ mem[d] # None
      BY DEF TypeInv, MemThere, Running
    <3>2. mem[d] \in Rows
      BY <3>1 DEF TypeInv, TypeOK
    <3>3. QED
      BY <1>1, <2>1, <2>4, <3>2 DEF Works, Rows, Bound
  <2>7. did[d] # None => did[d][2] \in Nat
    BY DEF TypeInv, TypeOK, Seen, Running
  <2>8. CASE d # c
    <3>1. did'[d] = did[d] /\ pc'[d] = pc[d]
      BY <1>1, <2>8 DEF Works, Running
    <3>2. ActiveRev <= ActiveRev' \/ active = None
      BY <2>3
    <3>3. mem'[d].doc # None => mem'[d].before # None /\ mem'[d].before <= ActiveRev'
      BY <2>1, <2>3, <2>4, <2>5, <2>6 DEF Bound
    <3>4. did[d] # None => did[d][2] <= ActiveRev'
      BY <2>1, <2>3, <2>4, <2>5, <2>7 DEF Bound
    <3>5. QED
      BY <2>1, <2>3, <2>6, <3>1, <3>3, <3>4 DEF Bound
  <2>9. CASE d = c
    BY <1>1, <2>1, <2>3, <2>4, <2>5, <2>6, <2>7, <2>9 DEF Works, Bound
  <2>10. QED
    BY <2>8, <2>9
<1>11. QED
  BY <1>5, <1>6, <1>7, <1>8, <1>9, <1>10 DEF JournalInv

\* It is kept as a call begins.
LEMMA BeginJournal ==
  ASSUME Orderly, TypeInv, JournalInv, NEW c \in Calls, NEW k \in Kinds, Begin(c, k)
  PROVE  JournalInv'
<1> DEFINE rec == Row(ActiveDoc, ActiveRev)
<1>1. /\ up /\ pc[c] = "idle"
      /\ Apart => \A d \in Running : k \notin Switching /\ kind[d] \notin Switching
      /\ UNCHANGED <<up, docs, active, did>>
      /\ Begun(c, k, rec)
  BY DEF Begin, regVars
<1>2. /\ \A d \in Calls : /\ kind'[d] = (IF d = c THEN k ELSE kind[d]) /\ pc'[d] = (IF d = c THEN "begun" ELSE pc[d])
                          /\ mem'[d] = (IF d = c THEN rec ELSE mem[d])
  BY DEF Begin, Begun, TypeInv, TypeOK
<1>3. rec \in Rows /\ rec # None /\ rec.after = None /\ rec.state = "running" /\ rec.doc = ActiveDoc /\ rec.before = ActiveRev
  BY ActiveFacts, NoneIsApart DEF TypeInv, Row, Rows
<1>4. mem[c] = None /\ rows[c] = None /\ did[c] = None /\ c \notin queued /\ c \notin Running
  BY <1>1 DEF JournalInv, Resting, Running
<1>5. k \in Unnamed => k # "look"
  BY DEF Orderly
<1> HIDE DEF rec
<1>6. /\ queued' \subseteq queued /\ \A d \in Calls : d \in queued' => rows'[d] = rows[d]
      /\ \A d \in Calls : d \notin queued /\ d # c => rows'[d] = rows[d]
      /\ rows'[c] = rec
  <2>1. CASE k \notin Unnamed
    BY <1>1, <2>1, FlushedFacts DEF Begun, TypeInv
  <2>2. CASE k \in Unnamed
    BY <1>1, <1>4, <1>5, <2>2 DEF Begun, TypeInv, TypeOK
  <2>3. QED
    BY <2>1, <2>2
<1>7. Running' = Running \cup {c}
  BY <1>2 DEF Running
<1>8. Resting'
  BY <1>1, <1>2, <1>3, <1>4, <1>6 DEF JournalInv, Resting
<1>9. Downed'
  BY <1>1 DEF Downed
<1>10. RowKept'
  <2>1. \A d \in Running' : rows'[d] = mem'[d] /\ mem'[d].after = None /\ mem'[d].state = "running"
    BY <1>2, <1>3, <1>6, <1>7 DEF JournalInv, RowKept, Running, Resting
  <2>2. \A d \in queued' : /\ rows'[d] # None /\ rows'[d].doc \in {None, mem'[d].doc}
                           /\ RevisionsIn(rows'[d]) \subseteq RevisionsIn(mem'[d])
                           /\ kind'[d] \in Unnamed
    BY <1>2, <1>4, <1>6 DEF JournalInv, RowKept, TypeInv, TypeOK
  <2>3. QED
    BY <2>1, <2>2 DEF RowKept, RevisionsIn
<1>11. AloneIs'
  BY <1>1, <1>2, <1>4, <1>7 DEF JournalInv, AloneIs, Orderly, Running
<1>12. EditRow'
  BY <1>1, <1>2, <1>4, <1>6 DEF JournalInv, EditRow
<1>13. BoundTo'
  <2> SUFFICES ASSUME NEW d \in Running', kind'[d] \notin Switching PROVE Bound(d)'
    BY DEF BoundTo
  <2>1. ActiveDoc' = ActiveDoc /\ ActiveRev' = ActiveRev
    BY <1>1 DEF ActiveDoc, ActiveRev
  <2>2. CASE d = c
    <3>1. ActiveDoc # None => ActiveRev # None /\ ActiveRev \in Nat
      BY ActiveFacts DEF TypeInv
    <3>2. QED
      BY <1>1, <1>2, <1>3, <1>4, <2>1, <2>2, <3>1 DEF Bound
  <2>3. CASE d # c
    <3>1. d \in Running /\ mem'[d] = mem[d] /\ kind'[d] = kind[d] /\ pc'[d] = pc[d] /\ did'[d] = did[d]
      BY <1>1, <1>2, <1>7, <2>3 DEF Running
    <3>2. Bound(d)
      BY <3>1 DEF JournalInv, BoundTo
    <3>3. QED
      BY <1>1, <2>1, <3>1, <3>2 DEF Bound
  <2>4. QED
    BY <2>2, <2>3
<1>14. QED
  BY <1>8, <1>9, <1>10, <1>11, <1>12, <1>13 DEF JournalInv

\* What the end of a call does: its row, in memory and in the file, and its answer.
Ends(c) ==
  /\ pc[c] \in {"begun", "ran"} /\ c \in Running /\ mem[c] # None /\ rows[c] = mem[c] /\ c \notin queued
  /\ UNCHANGED <<up, disk, recs, docs, active, noted, writing, kind, did, said, others>>
  /\ \A d \in Calls : /\ pc'[d] = (IF d = c THEN "over" ELSE pc[d])
                      /\ mem'[d] = (IF d = c THEN Closed(c) ELSE mem[d])
  /\ Closed(c) # None /\ Closed(c) \in Rows
  /\ Closed(c).before = mem[c].before /\ Closed(c).after = ActiveRev
  /\ Closed(c).doc = (IF mem[c].doc = None THEN ActiveDoc ELSE mem[c].doc)
  /\ Closed(c).state = (IF pc[c] = "ran" THEN "committed" ELSE "failed")
  /\ \A d \in Calls \ {c} : /\ d \in queued' => d \in queued /\ rows'[d] = rows[d]
                            /\ rows'[d] \in {rows[d], Flushed[d]}
                            /\ d \notin queued => rows'[d] = rows[d]
  /\ kind[c] \notin Unnamed => rows'[c] = Closed(c) /\ c \notin queued'
  /\ kind[c] \in Unnamed => rows'[c] = mem[c]
  /\ seen' = IF did[c] = None THEN seen ELSE seen \cup {did[c]}

\* Every end does that.
LEMMA FinishEnds ==
  ASSUME TypeInv, JournalInv, NEW c \in Calls, Finish(c)
  PROVE  Ends(c)
<1>1. /\ Ended(c, Closed(c)) /\ pc' = [pc EXCEPT ![c] = "over"] /\ pc[c] \in {"begun", "ran"}
      /\ seen' = IF did[c] = None THEN seen ELSE seen \cup {did[c]}
      /\ UNCHANGED <<up, disk, recs, docs, active, noted, writing, kind, did, said>>
  BY DEF Finish, Closed, regVars
<1>2. c \in Running
  BY <1>1 DEF Running
<1>3. mem[c] # None /\ rows[c] = mem[c] /\ c \notin queued
  BY <1>1, <1>2 DEF TypeInv, MemThere, JournalInv, RowKept, Resting
<1>4. /\ Closed(c) # None /\ Closed(c) \in Rows
      /\ Closed(c).before = mem[c].before /\ Closed(c).after = ActiveRev
      /\ Closed(c).doc = IF mem[c].doc = None THEN ActiveDoc ELSE mem[c].doc
      /\ Closed(c).state = IF pc[c] = "ran" THEN "committed" ELSE "failed"
  BY <1>3, ClosedFacts DEF TypeInv
<1>5. others' = others /\ \A d \in Calls : /\ pc'[d] = (IF d = c THEN "over" ELSE pc[d])
                                           /\ mem'[d] = (IF d = c THEN Closed(c) ELSE mem[d])
  BY <1>1 DEF Ended, TypeInv, TypeOK
<1>6. UNCHANGED <<up, disk, recs, docs, active, noted, writing, kind, did, said, others>>
  BY <1>1, <1>5
<1>7. CASE kind[c] \notin Unnamed
  <2>1. rows' = [Flushed EXCEPT ![c] = Closed(c)] /\ queued' = {}
    BY <1>1, <1>7 DEF Ended
  <2>2. \A d \in Calls : rows'[d] = (IF d = c THEN Closed(c) ELSE Flushed[d])
    BY <2>1, FlushedFacts DEF TypeInv
  <2>3. \A d \in Calls : d \notin queued => Flushed[d] = rows[d]
    BY FlushedFacts DEF TypeInv
  <2>4. QED
    BY <1>1, <1>2, <1>3, <1>4, <1>5, <1>6, <1>7, <2>1, <2>2, <2>3 DEF Ends
<1>8. CASE kind[c] \in Unnamed
  <2>1. rows' = rows /\ queued' = queued \cup {c}
    BY <1>1, <1>8 DEF Ended
  <2>2. QED
    BY <1>1, <1>2, <1>3, <1>4, <1>5, <1>6, <1>8, <2>1 DEF Ends
<1>9. QED
  BY <1>7, <1>8

\* And as it finishes.
LEMMA FinishJournal ==
  ASSUME Orderly, TypeInv, JournalInv, NEW c \in Calls, Finish(c)
  PROVE  JournalInv'
<1>1. Ends(c)
  BY FinishEnds
<1>2. Running' = Running \ {c}
  BY <1>1 DEF Ends, Running
<1>3. /\ pc[c] \in {"begun", "ran"} /\ UNCHANGED <<active, kind, did>> /\ pc'[c] = "over"
      /\ \A d \in Calls : d # c => pc'[d] = pc[d] /\ mem'[d] = mem[d]
      /\ \A d \in Calls : d # c /\ d \in queued' => d \in queued /\ rows'[d] = rows[d]
      /\ \A d \in Calls : d # c /\ d \notin queued => rows'[d] = rows[d]
  BY <1>1 DEF Ends
<1>4. Resting'
  <2> SUFFICES ASSUME NEW d \in Calls
               PROVE  /\ pc'[d] = "idle" => mem'[d] = None /\ rows'[d] = None /\ did'[d] = None
                      /\ pc'[d] = "begun" => did'[d] = None
                      /\ pc'[d] \in {"found", "ran"} => did'[d] # None
                      /\ d \in queued' => pc'[d] = "over"
    BY DEF Resting
  <2>1. CASE d = c
    BY <1>3, <2>1
  <2>2. CASE d # c
    BY <1>3, <2>2 DEF JournalInv, Resting
  <2>3. QED
    BY <2>1, <2>2
<1>5. Downed'
  BY <1>1 DEF Ends, JournalInv, Downed
<1>6. queued' \subseteq Calls
  BY TypeKept DEF TypeInv, TypeOK, Next
<1>7. RowKept'
  <2>1. \A d \in Running' : rows'[d] = mem'[d] /\ mem'[d].after = None /\ mem'[d].state = "running"
    BY <1>3, <1>2 DEF JournalInv, RowKept, Running, Resting
  <2>2. \A d \in queued' : /\ rows'[d] # None /\ rows'[d].doc \in {None, mem'[d].doc}
                           /\ RevisionsIn(rows'[d]) \subseteq RevisionsIn(mem'[d])
                           /\ kind'[d] \in Unnamed
    <3> SUFFICES ASSUME NEW d \in queued'
                 PROVE  /\ rows'[d] # None /\ rows'[d].doc \in {None, mem'[d].doc}
                        /\ RevisionsIn(rows'[d]) \subseteq RevisionsIn(mem'[d])
                        /\ kind'[d] \in Unnamed
      OBVIOUS
    <3>1. CASE d # c
      BY <1>3, <1>6, <3>1 DEF JournalInv, RowKept
    <3>2. CASE d = c
      <4>1. kind[c] \in Unnamed /\ rows'[c] = mem[c] /\ mem[c].after = None
        BY <1>1, <3>2 DEF Ends, JournalInv, RowKept
      <4>2. RevisionsIn(mem[c]) \subseteq RevisionsIn(Closed(c))
        BY <1>1, <4>1 DEF Ends, RevisionsIn
      <4>3. QED
        BY <1>1, <3>2, <4>1, <4>2 DEF Ends
    <3>3. QED
      BY <3>1, <3>2
  <2>3. QED
    BY <2>1, <2>2 DEF RowKept, RevisionsIn
<1>8. AloneIs'
  BY <1>1, <1>2 DEF Ends, JournalInv, AloneIs
<1>9. EditRow'
  <2> SUFFICES ASSUME NEW e \in Calls, pc'[e] = "over", kind[e] = "edit", did[e] # None
               PROVE  /\ e \notin queued'
                      /\ rows'[e] # None /\ rows'[e].state = "committed" /\ rows'[e].doc = did[e][1]
                      /\ rows'[e].before # None /\ rows'[e].after # None
                      /\ rows'[e].before < did[e][2] /\ did[e][2] <= rows'[e].after
    BY <1>1 DEF Ends, EditRow
  <2>1. CASE e # c
    BY <1>3, <2>1 DEF JournalInv, EditRow
  <2>2. CASE e = c
    <3>1. pc[c] = "ran" /\ kind[c] \notin Unnamed /\ kind[c] \notin Switching
      BY <1>1, <2>2 DEF Ends, JournalInv, Resting, Orderly, Switching
    <3>2. Bound(c)
      BY <1>1, <3>1 DEF Ends, JournalInv, BoundTo
    <3>3. active # None => ActiveDoc # None /\ ActiveRev # None
      BY ActiveFacts DEF TypeInv
    <3>4. QED
      BY <1>1, <2>2, <3>1, <3>2, <3>3 DEF Ends, Bound
  <2>3. QED
    BY <2>1, <2>2
<1>10. BoundTo'
  <2> SUFFICES ASSUME NEW d \in Running', kind'[d] \notin Switching PROVE Bound(d)'
    BY DEF BoundTo
  <2>1. ActiveDoc' = ActiveDoc /\ ActiveRev' = ActiveRev
    BY <1>1 DEF Ends, ActiveDoc, ActiveRev
  <2>2. d # c /\ d \in Running /\ mem'[d] = mem[d] /\ kind'[d] = kind[d] /\ pc'[d] = pc[d] /\ did'[d] = did[d]
    BY <1>1, <1>2 DEF Ends, Running
  <2>3. Bound(d)
    BY <2>2 DEF JournalInv, BoundTo
  <2>4. (active' = active)
    BY <1>1 DEF Ends
  <2>5. QED
    BY <2>1, <2>2, <2>3, <2>4 DEF Bound
<1>11. QED
  BY <1>4, <1>5, <1>7, <1>8, <1>9, <1>10 DEF JournalInv

\* What happens around the calls.
Around == Flush \/ Kill \/ Start \/ \E p \in Paths : \E content \in Foreign \cup {p} : ForeignWrite(p, content)

\* A flush makes each row of the file what memory has.
LEMMA FlushJournal ==
  ASSUME Orderly, TypeInv, JournalInv, Flush
  PROVE  JournalInv'
<1>1. /\ UNCHANGED <<up, docs, active, kind, pc, did, mem>> /\ queued' = {}
      /\ \A c \in Calls : rows'[c] = IF c \in queued THEN mem[c] ELSE rows[c]
  BY FlushedFacts DEF Flush, regVars, callVars, TypeInv
<1>2. Running' = Running /\ \A c \in Running : c \notin queued
  BY <1>1 DEF Running, JournalInv, Resting
<1>3. Resting' /\ Downed' /\ AloneIs'
  BY <1>1, <1>2 DEF JournalInv, Resting, Downed, AloneIs
<1>4. RowKept'
  BY <1>1, <1>2 DEF JournalInv, RowKept, Running
<1>5. EditRow'
  BY <1>1 DEF JournalInv, EditRow
<1>6. BoundTo'
  BY <1>1, <1>2 DEF JournalInv, BoundTo, Bound, ActiveDoc, ActiveRev
<1>7. QED
  BY <1>3, <1>4, <1>5, <1>6 DEF JournalInv

\* A start closes the rows that were left running.
LEMMA StartEffect ==
  ASSUME TypeInv, JournalInv, Start
  PROVE  /\ UNCHANGED <<docs, active, kind, pc, did, mem, queued, recs, others, seen>>
         /\ Running = {} /\ queued = {} /\ active = None
         /\ \A c \in Calls : rows'[c] = None <=> rows[c] = None
         /\ \A c \in Calls : rows[c] # None => /\ rows'[c].doc = rows[c].doc /\ rows'[c].before = rows[c].before
                                               /\ rows'[c].after = rows[c].after
         /\ \A c \in Calls : rows[c] # None /\ rows[c].state # "running" => rows'[c] = rows[c]
<1> DEFINE row(c) == IF rows[c] = None THEN None
                     ELSE IF rows[c].state # "running" THEN rows[c]
                     ELSE [rows[c] EXCEPT !.state = IF kind[c] = "look" THEN "cancelled" ELSE "unknown_commit"]
<1>1. /\ UNCHANGED <<docs, active, kind, pc, did, mem, queued, recs, others, seen>> /\ ~up
      /\ rows' = [c \in Calls |-> row(c)]
  BY DEF Start, regVars, callVars
<1>2. ASSUME NEW c \in Calls, rows[c] # None
      PROVE  /\ row(c) # None /\ row(c).doc = rows[c].doc /\ row(c).before = rows[c].before /\ row(c).after = rows[c].after
             /\ rows[c].state # "running" => row(c) = rows[c]
  <2>1. rows[c] \in Rows
    BY <1>2 DEF TypeInv, TypeOK
  <2>2. row(c) \in Rows
    BY <1>2, <2>1 DEF Rows
  <2>3. row(c) # None
    BY <2>2, NoneIsApart
  <2>4. row(c).doc = rows[c].doc /\ row(c).before = rows[c].before /\ row(c).after = rows[c].after
    BY <1>2, <2>1 DEF Rows
  <2>5. QED
    BY <1>2, <2>3, <2>4
<1>3. \A c \in Calls : rows[c] = None => row(c) = None
  OBVIOUS
<1> HIDE DEF row
<1>4. \A c \in Calls : rows'[c] = row(c)
  BY <1>1
<1>5. Running = {} /\ queued = {} /\ active = None
  BY <1>1 DEF JournalInv, Downed
<1>6. QED
  BY <1>1, <1>2, <1>3, <1>4, <1>5

\* Nothing of it changed.
LEMMA SameJournal ==
  ASSUME JournalInv, UNCHANGED <<up, docs, active, kind, pc, did, mem, rows, queued>>
  PROVE  JournalInv'
<1>1. Running' = Running
  BY DEF Running
<1>2. Resting' /\ Downed' /\ AloneIs'
  BY <1>1 DEF JournalInv, Resting, Downed, AloneIs
<1>3. RowKept'
  BY <1>1 DEF JournalInv, RowKept, RevisionsIn
<1>4. EditRow'
  BY DEF JournalInv, EditRow
<1>5. BoundTo'
  <2>1. ActiveDoc' = ActiveDoc /\ ActiveRev' = ActiveRev
    BY DEF ActiveDoc, ActiveRev
  <2>2. QED
    BY <1>1, <2>1 DEF JournalInv, BoundTo, Bound
<1>6. QED
  BY <1>2, <1>3, <1>4, <1>5 DEF JournalInv

\* The journal's part is kept by them all.
LEMMA AroundJournal ==
  ASSUME Orderly, TypeInv, JournalInv, Around
  PROVE  JournalInv'
<1>1. CASE Kill
  <2>1. /\ up' = FALSE /\ active' = None /\ queued' = {} /\ kind' = kind /\ rows' = rows
        /\ \A c \in Calls : /\ pc'[c] = (IF c \in Running THEN "over" ELSE pc[c])
                            /\ did'[c] = (IF c \in Running THEN None ELSE did[c]) /\ mem'[c] = None
    BY <1>1 DEF Kill
  <2>2. Running' = {} /\ \A c \in Calls : pc'[c] \notin {"begun", "found", "ran"}
    BY <2>1 DEF Running
  <2>3. \A c \in Calls : pc[c] = "idle" => c \notin Running /\ rows[c] = None /\ did[c] = None
    BY DEF JournalInv, Resting, Running
  <2>4. Resting'
    BY <2>1, <2>2, <2>3 DEF Resting
  <2>5. Downed' /\ AloneIs' /\ BoundTo' /\ RowKept'
    BY <2>1, <2>2 DEF Downed, AloneIs, BoundTo, RowKept
  <2>6. EditRow'
    <3>1. \A e \in Calls : pc'[e] = "over" /\ did'[e] # None => pc[e] = "over" /\ did'[e] = did[e]
      BY <2>1
    <3>2. QED
      BY <2>1, <3>1 DEF JournalInv, EditRow
  <2>7. QED
    BY <2>4, <2>5, <2>6 DEF JournalInv
<1>2. CASE Start
  <2>1. /\ UNCHANGED <<docs, active, kind, pc, did, mem, queued>>
        /\ Running = {} /\ queued = {} /\ active = None
        /\ \A c \in Calls : rows'[c] = None <=> rows[c] = None
        /\ \A c \in Calls : rows[c] # None /\ rows[c].state # "running" => rows'[c] = rows[c]
    BY <1>2, StartEffect
  <2>2. Running' = {}
    BY <2>1 DEF Running
  <2>3. Resting' /\ Downed' /\ AloneIs' /\ BoundTo' /\ RowKept'
    BY <2>1, <2>2 DEF JournalInv, Resting, Downed, AloneIs, BoundTo, RowKept
  <2>4. EditRow'
    BY <2>1 DEF JournalInv, EditRow
  <2>5. QED
    BY <2>3, <2>4 DEF JournalInv
<1>3. CASE \E p \in Paths : \E content \in Foreign \cup {p} : ForeignWrite(p, content)
  <2>1. UNCHANGED <<up, docs, active, kind, pc, did, mem, rows, queued>>
    BY <1>3 DEF ForeignWrite, regVars, callVars, journalVars
  <2>2. QED
    BY <2>1, SameJournal
<1>4. QED
  BY <1>1, <1>2, <1>3, FlushJournal DEF Around

\* Every step keeps it.
LEMMA JournalKept ==
  ASSUME Orderly, TypeInv, JournalInv, [Next]_vars
  PROVE  JournalInv'
<1>1. CASE UNCHANGED vars
  BY <1>1, SameJournal DEF vars, regVars, callVars, journalVars
<1>2. CASE Next
  <2>1. CASE \E c \in Calls : (\E k \in Kinds : Begin(c, k)) \/ Body(c) \/ Finish(c)
    BY <2>1, BeginJournal, BodyJournal, FinishJournal
  <2>2. CASE Around
    BY <2>2, AroundJournal
  <2>3. QED
    BY <1>2, <2>1, <2>2 DEF Next, Around
<1>3. QED
  BY <1>1, <1>2

-------------------------------------------------------------------------------
(* A document has one file *)

\* What clients were told, or are about to be.
Told == seen \cup {did[c] : c \in {x \in Running : did[x] # None}}

\* No two files record one document; an open file's document is the one its record
\* names, at or past the record; one with no file is not recorded.
OneRecord == \A p, q \in Paths : (recs[p] # None /\ recs[q] # None /\ recs[p].doc = recs[q].doc) => p = q

FileHome ==
  \A p \in Paths : docs[p] # None =>
    /\ recs[p] # None /\ recs[p].doc = docs[p].doc /\ docs[p].rev >= recs[p].rev
    /\ docs[p].rev = recs[p].rev => docs[p].content = recs[p].sha

NoFileHome == docs[Untitled] # None => \A p \in Paths : recs[p] # None => recs[p].doc # docs[Untitled].doc

\* A save at work writes to a file that no other document has.
SavesHome ==
  writing # None =>
    /\ writing[2] = active \/ docs[writing[2]] = None
    /\ \A q \in Paths \ {writing[2]} : recs[q] # None => recs[q].doc # ActiveDoc

\* The documents that are open, or recorded.
Names == {docs[s].doc : s \in {x \in Slots : docs[x] # None}} \cup {recs[p].doc : p \in {x \in Paths : recs[x] # None}}

\* The name of a call that minted nothing yet is nobody's.
FreshId == \A c \in Calls : pc[c] \in {"idle", "begun"} => c \notin Names /\ \A t \in Told : t[1] # c

HomeInv == OneRecord /\ FileHome /\ NoFileHome /\ SavesHome /\ FreshId

\* An open document's record is its file's.
LEMMA HomeFacts ==
  ASSUME TypeOK, HomeInv
  PROVE  /\ \A s, u \in Slots : (docs[s] # None /\ docs[u] # None /\ docs[s].doc = docs[u].doc) => s = u
         /\ \A s \in Slots, p \in Paths : (docs[s] # None /\ recs[p] # None /\ docs[s].doc = recs[p].doc) =>
              /\ s = p /\ docs[s].rev >= recs[p].rev
              /\ docs[s].rev = recs[p].rev => docs[s].content = recs[p].sha
<1>1. ASSUME NEW s \in Slots, NEW p \in Paths, docs[s] # None, recs[p] # None, docs[s].doc = recs[p].doc
      PROVE  s = p
  <2>1. CASE s = Untitled
    BY <1>1, <2>1 DEF HomeInv, NoFileHome
  <2>2. CASE s \in Paths
    BY <1>1, <2>2 DEF HomeInv, FileHome, OneRecord
  <2>3. QED
    BY <2>1, <2>2 DEF Slots
<1>2. ASSUME NEW s \in Slots, NEW u \in Slots, docs[s] # None, docs[u] # None, docs[s].doc = docs[u].doc
      PROVE  s = u
  <2>1. CASE s \in Paths
    <3>1. recs[s] # None /\ recs[s].doc = docs[u].doc
      BY <1>2, <2>1 DEF HomeInv, FileHome
    <3>2. QED
      BY <1>1, <1>2, <2>1, <3>1
  <2>2. CASE u \in Paths
    <3>1. recs[u] # None /\ recs[u].doc = docs[s].doc
      BY <1>2, <2>2 DEF HomeInv, FileHome
    <3>2. QED
      BY <1>1, <1>2, <2>2, <3>1
  <2>3. QED
    BY <2>1, <2>2 DEF Slots
<1>3. QED
  BY <1>1, <1>2 DEF HomeInv, FileHome

\* What the body of a call tells its client is new; nothing else is.
LEMMA ToldByBody ==
  ASSUME TypeInv, NEW c \in Calls, Body(c)
  PROVE  Told' \subseteq Told \cup {did'[c]} /\ (did'[c] = did[c] => Told' \subseteq Told)
<1>1. Works(c)
  BY BodyWorks
<1>2. Running' = Running /\ c \in Running /\ seen' = seen /\ \A d \in Running : d # c => did'[d] = did[d]
  BY <1>1 DEF Works, Running
<1>3. QED
  BY <1>2 DEF Told

\* A call that begins or ends, or anything else, tells nothing new.
LEMMA ToldElse ==
  ASSUME TypeInv, JournalInv,
         \/ \E c \in Calls : \E k \in Kinds : Begin(c, k)
         \/ \E c \in Calls : Finish(c)
         \/ Around
         \/ UNCHANGED vars
  PROVE  Told' \subseteq Told
<1>1. CASE \E c \in Calls : \E k \in Kinds : Begin(c, k)
  <2>1. PICK c \in Calls, k \in Kinds : Begin(c, k)
    BY <1>1
  <2>2. pc[c] = "idle" /\ pc' = [pc EXCEPT ![c] = "begun"] /\ UNCHANGED <<did, seen>>
    BY <2>1 DEF Begin
  <2>3. did[c] = None
    BY <2>2 DEF JournalInv, Resting
  <2>4. \A d \in Running' : d \in Running \/ did'[d] = None
    BY <2>2, <2>3 DEF Running, TypeInv, TypeOK
  <2>5. QED
    BY <2>2, <2>4 DEF Told
<1>2. CASE \E c \in Calls : Finish(c)
  <2>1. PICK c \in Calls : Finish(c)
    BY <1>2
  <2>2. Ends(c)
    BY <2>1, FinishEnds
  <2>3. Running' \subseteq Running /\ c \in Running /\ did' = did /\ seen' = IF did[c] = None THEN seen ELSE seen \cup {did[c]}
    BY <2>2 DEF Ends, Running
  <2>4. QED
    BY <2>3 DEF Told
<1>3. CASE Kill
  <2>1. Running' = {} /\ seen' = seen
    BY <1>3 DEF Kill, Running
  <2>2. QED
    BY <2>1 DEF Told
<1>4. CASE UNCHANGED <<pc, did, seen>>
  BY <1>4 DEF Told, Running
<1>5. CASE Flush \/ Start \/ (\E p \in Paths : \E content \in Foreign \cup {p} : ForeignWrite(p, content)) \/ UNCHANGED vars
  BY <1>4, <1>5 DEF Flush, Start, ForeignWrite, vars, callVars
<1>6. QED
  BY <1>1, <1>2, <1>3, <1>5 DEF Around

\* A body names no document but those there are, and the one it mints.
LEMMA BodyNames ==
  ASSUME TypeInv, NEW c \in Calls, Body(c)
  PROVE  /\ Names' \subseteq Names \cup {c}
         /\ did'[c] = did[c] \/ did'[c][1] \in Names \cup {c}
         /\ pc'[c] = "begun" => Names' = Names
<1>1. \A s \in Slots : docs[s] # None => Facts(docs[s])[1] \in Names
  BY DEF Names, Facts
<1>2. did \in [Calls -> Seen \cup {None}] /\ pc \in [Calls -> {"idle", "begun", "found", "ran", "over"}]
  BY DEF TypeInv, TypeOK
<1>3. CASE Look(c) \/ \E s \in Slots : Activate(c, s)
  <2>1. UNCHANGED <<docs, recs>> /\ \E s \in Slots : Open(s) /\ Ran(c, Facts(docs[s]))
    BY <1>3, ActiveFacts DEF Look, Activate, regVars, TypeInv
  <2>2. QED
    BY <1>1, <1>2, <2>1 DEF Names, Open, Ran
<1>4. CASE Close(c)
  <2>1. recs' = recs /\ docs' = [docs EXCEPT ![active] = None] /\ active \in Slots /\ Open(active) /\ Ran(c, Facts(docs[active]))
    BY <1>4, ActiveFacts DEF Close, TypeInv
  <2>2. \A s \in Slots : docs'[s] # None => docs'[s] = docs[s]
    BY <2>1 DEF TypeInv, TypeOK
  <2>3. QED
    BY <1>1, <1>2, <2>1, <2>2 DEF Names, Open, Ran
<1>5. CASE Edit(c) \/ New(c)
  <2>1. /\ recs' = recs
        /\ \E e \in Entries, s \in Slots : /\ e.doc \in Names \cup {c} /\ docs' = [docs EXCEPT ![s] = e]
                                           /\ did' = [did EXCEPT ![c] = Facts(e)] /\ pc' = [pc EXCEPT ![c] = "ran"]
    <3>1. CASE Edit(c)
      <4>1. active \in Slots /\ docs[active] # None /\ ActiveDoc = docs[active].doc
        BY <3>1, ActiveFacts DEF Edit, Open, TypeInv
      <4>2. ActiveDoc \in Names
        BY <4>1 DEF Names
      <4>3. QED
        BY <3>1, <4>1, <4>2, EditEffect
    <3>2. CASE New(c)
      BY <3>2, NewEffect DEF Slots
    <3>3. QED
      BY <1>5, <3>1, <3>2
  <2>2. PICK e \in Entries, s \in Slots : /\ e.doc \in Names \cup {c} /\ docs' = [docs EXCEPT ![s] = e]
                                          /\ did' = [did EXCEPT ![c] = Facts(e)] /\ pc' = [pc EXCEPT ![c] = "ran"]
    BY <2>1
  <2>3. \A u \in Slots : docs'[u] \in {docs[u], e}
    BY <2>2 DEF TypeInv, TypeOK
  <2>4. did'[c][1] = e.doc /\ pc'[c] = "ran"
    BY <1>2, <2>2 DEF Facts
  <2>5. QED
    BY <2>1, <2>2, <2>3, <2>4 DEF Names
<1>6. CASE SaveRecord(c)
  <2>1. PICK p \in Paths, r \in Records :
           /\ active \in Slots /\ Open(active) /\ r.doc = docs[active].doc
           /\ recs' = [recs EXCEPT ![p] = r]
           /\ \A s \in Slots : docs'[s] = IF s = p THEN docs[active] ELSE IF s = active THEN None ELSE docs[s]
           /\ did' = [did EXCEPT ![c] = Facts(docs[active])] /\ pc' = [pc EXCEPT ![c] = "ran"]
    BY <1>6, SaveEffect
  <2>2. \A q \in Paths : recs'[q] \in {recs[q], r}
    BY <2>1 DEF TypeInv, TypeOK
  <2>3. \A s \in Slots : docs'[s] # None => docs'[s] \in {docs[s], docs[active]}
    BY <2>1
  <2>4. did'[c][1] = docs[active].doc /\ pc'[c] = "ran" /\ docs[active].doc \in Names
    BY <1>2, <2>1 DEF Facts, Names, Open
  <2>5. Names' \subseteq Names
    BY <2>1, <2>2, <2>3 DEF Names, Open
  <2>6. QED
    BY <2>4, <2>5
<1>7. CASE JournalChange(c) \/ \E p \in Paths : SaveFile(c, p)
  <2>1. UNCHANGED <<docs, recs, did>>
    BY <1>7 DEF JournalChange, SaveFile, regVars, callVars
  <2>2. QED
    BY <2>1 DEF Names
<1>8. CASE \E p \in Paths : Reopen(c, p)
  <2>1. PICK p \in Paths : Reopen(c, p)
    BY <1>8
  <2>2. PICK e \in Entries, r \in Records :
           /\ Continues(p) => e.doc = recs[p].doc
           /\ ~Continues(p) => e.doc = c
           /\ r.doc = e.doc
           /\ docs' = [docs EXCEPT ![p] = e]
           /\ recs' = [recs EXCEPT ![p] = r]
           /\ did' = [did EXCEPT ![c] = Facts(e)]
           /\ pc' = [pc EXCEPT ![c] = IF recs[p] # None /\ Changed(p) THEN "found" ELSE "ran"]
    BY <2>1, ReopenEffect
  <2>3. e.doc \in Names \cup {c}
    BY <2>2 DEF Names, Continues
  <2>4. \A u \in Slots : docs'[u] \in {docs[u], e}
    BY <2>2 DEF TypeInv, TypeOK
  <2>5. \A q \in Paths : recs'[q] \in {recs[q], r}
    BY <2>2 DEF TypeInv, TypeOK
  <2>6. did'[c][1] = e.doc /\ pc'[c] # "begun"
    BY <1>2, <2>2 DEF Facts
  <2>7. QED
    BY <2>2, <2>3, <2>4, <2>5, <2>6 DEF Names
<1>9. QED
  BY <1>3, <1>4, <1>5, <1>6, <1>7, <1>8 DEF Body

\* So a fresh name stays fresh.
LEMMA FreshKept ==
  ASSUME TypeInv, JournalInv, HomeInv, [Next]_vars
  PROVE  FreshId'
<1>1. CASE \E c \in Calls : Body(c)
  <2>1. PICK c \in Calls : Body(c)
    BY <1>1
  <2>2. Works(c)
    BY <2>1, BodyWorks
  <2> SUFFICES ASSUME NEW d \in Calls, pc'[d] \in {"idle", "begun"}
               PROVE  d \notin Names' /\ \A t \in Told' : t[1] # d
    BY DEF FreshId
  <2>3. pc[d] \in {"idle", "begun"}
    BY <2>2 DEF Works
  <2>4. d \notin Names /\ \A t \in Told : t[1] # d
    BY <2>3 DEF HomeInv, FreshId
  <2>5. Names' \subseteq Names \cup {c} /\ (did'[c] = did[c] \/ did'[c][1] \in Names \cup {c}) /\ (pc'[c] = "begun" => Names' = Names)
    BY <2>1, BodyNames
  <2>6. Told' \subseteq Told \cup {did'[c]} /\ (did'[c] = did[c] => Told' \subseteq Told)
    BY <2>1, ToldByBody
  <2>7. CASE d # c
    BY <2>4, <2>5, <2>6, <2>7
  <2>8. CASE d = c
    <3>1. pc'[c] = "begun" /\ did'[c] = did[c]
      BY <2>2, <2>8 DEF Works
    <3>2. QED
      BY <2>4, <2>5, <2>6, <2>8, <3>1
  <2>9. QED
    BY <2>7, <2>8
<1>2. CASE ~(\E c \in Calls : Body(c))
  <2>1. \/ \E c \in Calls : \E k \in Kinds : Begin(c, k)
        \/ \E c \in Calls : Finish(c)
        \/ Around
        \/ UNCHANGED vars
    BY <1>2 DEF Next, Around
  <2>2. Told' \subseteq Told
    BY <2>1, ToldElse
  <2>3. Names' \subseteq Names
    <3>1. CASE UNCHANGED <<docs, recs>>
      BY <3>1 DEF Names
    <3>2. CASE Kill
      BY <3>2 DEF Kill, Names
    <3>3. QED
      BY <2>1, <3>1, <3>2 DEF Begin, Finish, Around, Flush, Start, ForeignWrite, vars, regVars
  <2>4. \A c \in Calls : pc'[c] \in {"idle", "begun"} => pc[c] \in {"idle", "begun"}
    <3>1. CASE \E c \in Calls : \E k \in Kinds : Begin(c, k)
      <4>1. PICK c \in Calls : pc[c] = "idle" /\ pc' = [pc EXCEPT ![c] = "begun"]
        BY <3>1 DEF Begin
      <4>2. QED
        BY <4>1 DEF TypeInv, TypeOK
    <3>2. CASE \E c \in Calls : Finish(c)
      <4>1. PICK c \in Calls : pc' = [pc EXCEPT ![c] = "over"]
        BY <3>2 DEF Finish
      <4>2. QED
        BY <4>1 DEF TypeInv, TypeOK
    <3>3. CASE Kill
      BY <3>3 DEF Kill
    <3>4. CASE UNCHANGED pc
      BY <3>4
    <3>5. QED
      BY <2>1, <3>1, <3>2, <3>3, <3>4 DEF Around, Flush, Start, ForeignWrite, vars, callVars
  <2>5. QED
    BY <2>2, <2>3, <2>4 DEF HomeInv, FreshId
<1>3. QED
  BY <1>1, <1>2

\* A document keeps its one file, as a call runs ...
LEMMA BodyHome ==
  ASSUME Orderly, TypeInv, JournalInv, HomeInv, NEW c \in Calls, Body(c)
  PROVE  OneRecord' /\ FileHome' /\ NoFileHome'
<1>1. CASE UNCHANGED <<docs, recs>>
  BY <1>1 DEF HomeInv, OneRecord, FileHome, NoFileHome
<1>2. CASE Look(c) \/ JournalChange(c) \/ (\E s \in Slots : Activate(c, s)) \/ \E p \in Paths : SaveFile(c, p)
  BY <1>1, <1>2 DEF Look, JournalChange, Activate, SaveFile, regVars
<1>3. CASE Close(c)
  <2>1. recs' = recs /\ docs' = [docs EXCEPT ![active] = None]
    BY <1>3 DEF Close
  <2>2. \A s \in Slots : docs'[s] # None => docs'[s] = docs[s]
    BY <2>1 DEF TypeInv, TypeOK
  <2>3. Paths \subseteq Slots /\ Untitled \in Slots
    BY DEF Slots
  <2>4. QED
    BY <2>1, <2>2, <2>3 DEF HomeInv, OneRecord, FileHome, NoFileHome
<1>4. CASE Edit(c)
  <2>1. PICK e \in Entries :
           /\ active \in Slots /\ Open(active) /\ e.doc = ActiveDoc /\ e.rev = ActiveRev + 1
           /\ docs' = [docs EXCEPT ![active] = e] /\ recs' = recs
    BY <1>4, EditEffect
  <2>2. ActiveDoc = docs[active].doc /\ ActiveRev = docs[active].rev /\ ActiveRev \in Nat
    BY <1>4, ActiveFacts DEF Edit, TypeInv
  <2>3. \A s \in Slots : docs'[s] = IF s = active THEN e ELSE docs[s]
    BY <2>1 DEF TypeInv, TypeOK
  <2>4. \A p \in Paths : recs[p] # None => recs[p].rev \in Nat
    BY DEF TypeInv, TypeOK, Records
  <2>5. Paths \subseteq Slots /\ Untitled \in Slots
    BY DEF Slots
  <2>6. OneRecord' /\ NoFileHome'
    BY <2>1, <2>2, <2>3, <2>5 DEF HomeInv, OneRecord, NoFileHome, Open
  <2>7. FileHome'
    <3> SUFFICES ASSUME NEW p \in Paths, docs'[p] # None
                 PROVE  /\ recs'[p] # None /\ recs'[p].doc = docs'[p].doc /\ docs'[p].rev >= recs'[p].rev
                        /\ docs'[p].rev = recs'[p].rev => docs'[p].content = recs'[p].sha
      BY DEF FileHome
    <3>1. CASE p = active
      <4>1. recs[p] # None /\ recs[p].doc = docs[p].doc /\ docs[p].rev >= recs[p].rev
        BY <2>1, <3>1 DEF HomeInv, FileHome, Open
      <4>2. QED
        BY <2>1, <2>2, <2>3, <2>4, <2>5, <3>1, <4>1
    <3>2. CASE p # active
      BY <2>1, <2>3, <2>5, <3>2 DEF HomeInv, FileHome
    <3>3. QED
      BY <3>1, <3>2
  <2>8. QED
    BY <2>6, <2>7
<1>5. CASE New(c)
  <2>1. PICK e \in Entries : e.doc = c /\ docs' = [docs EXCEPT ![Untitled] = e] /\ recs' = recs /\ pc[c] = "begun"
    BY <1>5, NewEffect
  <2>2. \A p \in Paths : docs'[p] = docs[p]
    BY <2>1, LineageAssumption
  <2>3. docs'[Untitled] = e
    BY <2>1 DEF TypeInv, TypeOK, Slots
  <2>4. \A p \in Paths : recs[p] # None => recs[p].doc # c
    BY <2>1 DEF HomeInv, FreshId, Names
  <2>5. QED
    BY <2>1, <2>2, <2>3, <2>4 DEF HomeInv, OneRecord, FileHome, NoFileHome
<1>6. CASE SaveRecord(c)
  <2>1. PICK p \in Paths, r \in Records :
           /\ writing = <<c, p>> /\ active \in Slots /\ Open(active) /\ docs[active] \in Entries
           /\ r.doc = docs[active].doc /\ r.rev = docs[active].rev /\ r.sha = docs[active].content /\ r # None
           /\ recs' = [recs EXCEPT ![p] = r]
           /\ \A s \in Slots : docs'[s] = IF s = p THEN docs[active] ELSE IF s = active THEN None ELSE docs[s]
    BY <1>6, SaveEffect
  <2>2. ActiveDoc = docs[active].doc /\ docs[active].rev \in Nat
    BY <1>6, ActiveFacts DEF SaveRecord, TypeInv, WritingIs
  <2>3. writing # None
    BY <2>1, NoneIsApart
  <2>4. \A q \in Paths : recs'[q] = IF q = p THEN r ELSE recs[q]
    BY <2>1 DEF TypeInv, TypeOK
  <2>5. \A q \in Paths : q # p /\ recs[q] # None => recs[q].doc # docs[active].doc
    BY <2>1, <2>2, <2>3 DEF HomeInv, SavesHome
  <2>6. Paths \subseteq Slots /\ Untitled \in Slots /\ Untitled \notin Paths
    BY LineageAssumption DEF Slots
  <2>7. OneRecord'
    BY <2>1, <2>4, <2>5 DEF HomeInv, OneRecord
  <2>8. FileHome'
    BY <2>1, <2>2, <2>4, <2>6 DEF HomeInv, FileHome
  <2>9. NoFileHome'
    <3>1. docs[Untitled] # None /\ Untitled # active => docs[Untitled].doc # docs[active].doc
      BY <2>1, <2>6, HomeFacts DEF TypeInv, Open
    <3>2. QED
      BY <2>1, <2>4, <2>6, <3>1 DEF HomeInv, NoFileHome
  <2>10. QED
    BY <2>7, <2>8, <2>9
<1>7. CASE \E p \in Paths : Reopen(c, p)
  <2>1. PICK p \in Paths : Reopen(c, p)
    BY <1>7
  <2>2. PICK e \in Entries, r \in Records :
           /\ Continues(p) => e.doc = recs[p].doc
           /\ ~Continues(p) => e.doc = c
           /\ r.doc = e.doc /\ r.rev = e.rev /\ r.sha = e.content /\ r # None
           /\ docs' = [docs EXCEPT ![p] = e]
           /\ recs' = [recs EXCEPT ![p] = r]
           /\ pc[c] = "begun"
    BY <2>1, ReopenEffect
  <2>3. \A q \in Paths : recs'[q] = IF q = p THEN r ELSE recs[q]
    BY <2>2 DEF TypeInv, TypeOK
  <2>4. Paths \subseteq Slots /\ Untitled \in Slots /\ Untitled \notin Paths
    BY LineageAssumption DEF Slots
  <2>5. \A s \in Slots : docs'[s] = IF s = p THEN e ELSE docs[s]
    BY <2>2, <2>4 DEF TypeInv, TypeOK
  <2>6. c \notin Names
    BY <2>2 DEF HomeInv, FreshId
  <2>7. \A q \in Paths : q # p /\ recs[q] # None => recs[q].doc # e.doc
    <3>1. CASE Continues(p)
      BY <2>2, <3>1 DEF HomeInv, OneRecord, Continues
    <3>2. CASE ~Continues(p)
      BY <2>2, <2>6, <3>2 DEF Names
    <3>3. QED
      BY <3>1, <3>2
  <2>8. docs[Untitled] # None => docs[Untitled].doc # e.doc
    <3>1. CASE Continues(p)
      BY <2>2, <3>1 DEF HomeInv, NoFileHome, Continues
    <3>2. CASE ~Continues(p)
      BY <2>2, <2>4, <2>6, <3>2 DEF Names
    <3>3. QED
      BY <3>1, <3>2
  <2>9. OneRecord'
    BY <2>2, <2>3, <2>7 DEF HomeInv, OneRecord
  <2>10. e.rev \in Nat
    BY <2>2 DEF Entries
  <2>11. FileHome'
    BY <2>2, <2>3, <2>4, <2>5, <2>10 DEF HomeInv, FileHome
  <2>12. NoFileHome'
    BY <2>2, <2>3, <2>4, <2>5, <2>8 DEF HomeInv, NoFileHome
  <2>13. QED
    BY <2>9, <2>11, <2>12
<1>8. QED
  BY <1>2, <1>3, <1>4, <1>5, <1>6, <1>7 DEF Body

\* ... and whatever happens.
LEMMA HomeKept ==
  ASSUME Orderly, TypeInv, JournalInv, HomeInv, [Next]_vars
  PROVE  HomeInv'
<1>1. FreshId'
  BY FreshKept
<1>2. CASE \E c \in Calls : Body(c)
  <2>1. PICK c \in Calls : Body(c)
    BY <1>2
  <2>2. SavesHome'
    <3>1. CASE JournalChange(c)
      BY <3>1 DEF JournalChange, HomeInv, SavesHome, ActiveDoc, regVars
    <3>2. CASE \E p \in Paths : SaveFile(c, p)
      <4>1. PICK p \in Paths : SaveFile(c, p)
        BY <3>2
      <4>2. writing' = <<c, p>> /\ UNCHANGED <<docs, active, recs>> /\ (p = active \/ docs[p] = None)
        BY <4>1 DEF SaveFile, regVars, Open
      <4>3. \A q \in Paths \ {p} : recs[q] # None => recs[q].doc # ActiveDoc
        BY <4>1 DEF SaveFile, Orderly, Recorded
      <4>4. QED
        BY <4>2, <4>3 DEF SavesHome, ActiveDoc
    <3>3. CASE ~(JournalChange(c) \/ \E p \in Paths : SaveFile(c, p))
      <4>1. writing' = None
        BY <2>1, <3>3 DEF Body, Look, Edit, SaveRecord, Reopen, New, Close, Activate, Runs
      <4>2. QED
        BY <4>1 DEF SavesHome
    <3>4. QED
      BY <3>1, <3>2, <3>3
  <2>3. QED
    BY <1>1, <2>1, <2>2, BodyHome DEF HomeInv
<1>3. CASE UNCHANGED <<docs, active, recs, writing>>
  <2>1. OneRecord' /\ FileHome' /\ NoFileHome'
    BY <1>3 DEF HomeInv, OneRecord, FileHome, NoFileHome
  <2>2. SavesHome'
    BY <1>3 DEF HomeInv, SavesHome, ActiveDoc
  <2>3. QED
    BY <1>1, <2>1, <2>2 DEF HomeInv
<1>4. CASE Kill
  <2>1. recs' = recs /\ docs' = [s \in Slots |-> None] /\ writing' = None
    BY <1>4 DEF Kill
  <2>2. QED
    BY <1>1, <2>1 DEF HomeInv, OneRecord, FileHome, NoFileHome, SavesHome, Slots
<1>5. CASE \/ UNCHANGED vars \/ Flush \/ Start
           \/ \E c \in Calls : (\E k \in Kinds : Begin(c, k)) \/ Finish(c)
           \/ \E p \in Paths : \E content \in Foreign \cup {p} : ForeignWrite(p, content)
  BY <1>3, <1>5 DEF vars, Flush, Start, Begin, Finish, ForeignWrite, regVars
<1>6. QED
  BY <1>2, <1>4, <1>5 DEF Next

-------------------------------------------------------------------------------
(* A revision that was told is never issued again *)

\* What is open, and what is recorded, agrees with what was told.
Agrees(t) ==
  /\ \A s \in Slots : (docs[s] # None /\ docs[s].doc = t[1]) =>
       docs[s].rev >= t[2] /\ (docs[s].rev = t[2] => docs[s].content = t[3])
  /\ \A p \in Paths : (recs[p] # None /\ recs[p].doc = t[1] /\ recs[p].rev = t[2]) => recs[p].sha = t[3]

Agree == \A t \in Told : Agrees(t)

\* A start will know that a document was at revision n: its record, or the journal's
\* file, says so.
InFile(d, n) ==
  \/ \E t \in others : t[1] = d /\ t[2] >= n
  \/ \E c \in Calls : rows[c] # None /\ rows[c].doc = d /\ \E m \in RevisionsIn(rows[c]) : m >= n

Durable(d, n) == \A p \in Paths : (recs[p] # None /\ recs[p].doc = d) => recs[p].rev >= n \/ InFile(d, n)

SeenDurable == \A t \in seen : Durable(t[1], t[2])

DidDurable == \A c \in Running : \A t \in Seen : (kind[c] \in Switching /\ did[c] = t) => Durable(t[1], t[2])

\* Of the entries, only the active one may be ahead of that, while an edit of it runs.
EntryDurable ==
  \A s \in Slots : docs[s] # None =>
    \/ Durable(docs[s].doc, docs[s].rev)
    \/ s = active /\ \E c \in Calls : pc[c] = "ran" /\ kind[c] = "edit"

ContentInv == Agree /\ SeenDurable /\ DidDurable /\ EntryDurable

\* What was told names documents and revisions.
LEMMA ToldType ==
  ASSUME TypeOK
  PROVE  \A t \in Told : t \in Seen /\ t[1] \in Ids /\ t[2] \in Nat
BY DEF TypeOK, Told, Seen, Running

\* The journal's file loses nothing: a row of a document names it for ever, and its
\* revisions.
LEMMA FileGrows ==
  ASSUME Orderly, TypeInv, JournalInv, [Next]_vars, NEW d \in Ids, NEW n \in Nat, InFile(d, n)
  PROVE  InFile(d, n)'
<1> DEFINE Grows(r, x) == r # None /\ r.doc = d => x # None /\ x.doc = d /\ RevisionsIn(r) \subseteq RevisionsIn(x)
<1>1. ASSUME others \subseteq others', \A c \in Calls : Grows(rows[c], rows'[c])
      PROVE  InFile(d, n)'
  <2>1. CASE \E t \in others : t[1] = d /\ t[2] >= n
    BY <1>1, <2>1 DEF InFile
  <2>2. CASE \E c \in Calls : rows[c] # None /\ rows[c].doc = d /\ \E m \in RevisionsIn(rows[c]) : m >= n
    <3>1. PICK c \in Calls : rows[c] # None /\ rows[c].doc = d /\ \E m \in RevisionsIn(rows[c]) : m >= n
      BY <2>2
    <3>2. rows'[c] # None /\ rows'[c].doc = d /\ \E m \in RevisionsIn(rows'[c]) : m >= n
      BY <1>1, <3>1
    <3>3. QED
      BY <3>2 DEF InFile, RevisionsIn
  <2>3. QED
    BY <2>1, <2>2 DEF InFile
<1>2. d # None
  BY LineageAssumption DEF Ids
<1>3. \A c \in Calls : Grows(rows[c], Flushed[c]) /\ Grows(rows[c], rows[c])
  <2> SUFFICES ASSUME NEW c \in Calls PROVE Grows(rows[c], Flushed[c])
    OBVIOUS
  <2>1. CASE c \in queued
    <3>1. Flushed[c] = mem[c] /\ mem[c] # None
      BY <2>1, FlushedFacts DEF TypeInv, MemThere
    <3>2. rows[c].doc \in {None, mem[c].doc} /\ RevisionsIn(rows[c]) \subseteq RevisionsIn(mem[c])
      BY <2>1 DEF JournalInv, RowKept
    <3>3. QED
      BY <1>2, <3>1, <3>2
  <2>2. CASE c \notin queued
    BY <2>2, FlushedFacts DEF TypeInv
  <2>3. QED
    BY <2>1, <2>2
<1>4. CASE \E c \in Calls : Body(c)
  <2>1. PICK c \in Calls : Body(c)
    BY <1>4
  <2>2. Works(c)
    BY <2>1, BodyWorks
  <2>3. others \subseteq others' /\ (rows' = rows \/ rows' = Flushed)
    BY <2>2 DEF Works
  <2> HIDE DEF Grows
  <2>4. QED
    BY <1>1, <1>3, <2>3
<1>5. CASE \E c \in Calls : \E k \in Kinds : Begin(c, k)
  <2>1. PICK c \in Calls, k \in Kinds : Begin(c, k)
    BY <1>5
  <2>2. rows[c] = None /\ others' = others /\ \A b \in Calls : b # c => rows'[b] \in {rows[b], Flushed[b]}
    BY <2>1, FlushedFacts DEF Begin, Begun, JournalInv, Resting, TypeInv, TypeOK
  <2>3. Grows(rows[c], rows'[c])
    BY <2>2
  <2> HIDE DEF Grows
  <2>4. QED
    BY <1>1, <1>3, <2>2, <2>3
<1>6. CASE \E c \in Calls : Finish(c)
  <2>1. PICK c \in Calls : Finish(c)
    BY <1>6
  <2>2. Ends(c)
    BY <2>1, FinishEnds
  <2>3. /\ others' = others /\ \A b \in Calls : b # c => rows'[b] \in {rows[b], Flushed[b]}
        /\ rows'[c] \in {mem[c], Closed(c)} /\ rows[c] = mem[c] /\ mem[c] # None /\ Closed(c) # None
    BY <2>2 DEF Ends
  <2>4. Closed(c).doc = (IF mem[c].doc = None THEN ActiveDoc ELSE mem[c].doc) /\ Closed(c).before = mem[c].before
    BY <2>2 DEF Ends
  <2>5. mem[c].after = None
    BY <2>2 DEF Ends, JournalInv, RowKept
  <2>6. Grows(mem[c], Closed(c))
    BY <1>2, <2>3, <2>4, <2>5 DEF RevisionsIn
  <2>7. Grows(rows[c], rows'[c])
    BY <2>3, <2>6
  <2> HIDE DEF Grows
  <2>8. QED
    BY <1>1, <1>3, <2>3, <2>7
<1>7. CASE Start
  <2>1. /\ others' = others
        /\ \A c \in Calls : rows'[c] = None <=> rows[c] = None
        /\ \A c \in Calls : rows[c] # None => /\ rows'[c].doc = rows[c].doc /\ rows'[c].before = rows[c].before
                                              /\ rows'[c].after = rows[c].after
    BY <1>7, StartEffect
  <2>2. \A c \in Calls : Grows(rows[c], rows'[c])
    BY <2>1 DEF RevisionsIn
  <2> HIDE DEF Grows
  <2>3. QED
    BY <1>1, <2>1, <2>2
<1>8. CASE Flush
  <2>1. others' = others /\ rows' = Flushed
    BY <1>8 DEF Flush
  <2> HIDE DEF Grows
  <2>2. QED
    BY <1>1, <1>3, <2>1
<1>9. CASE Kill \/ (\E p \in Paths : \E content \in Foreign \cup {p} : ForeignWrite(p, content)) \/ UNCHANGED vars
  <2>1. others' = others /\ rows' = rows
    BY <1>9 DEF Kill, ForeignWrite, vars, journalVars
  <2> HIDE DEF Grows
  <2>2. QED
    BY <1>1, <1>3, <2>1
<1>10. QED
  BY <1>4, <1>5, <1>6, <1>7, <1>8, <1>9 DEF Next

\* So what a start will know it keeps knowing, while no record of the document falls
\* behind.
LEMMA DurableKept ==
  ASSUME Orderly, TypeInv, JournalInv, [Next]_vars, NEW d \in Ids, NEW n \in Nat, Durable(d, n),
         \A p \in Paths : (recs'[p] # None /\ recs'[p].doc = d) => recs'[p] = recs[p] \/ recs'[p].rev >= n
  PROVE  Durable(d, n)'
<1>1. InFile(d, n) => InFile(d, n)'
  BY FileGrows
<1>2. QED
  BY <1>1 DEF Durable

\* An entry agrees with its own document.
LEMMA EntryAgrees ==
  ASSUME TypeInv, HomeInv, NEW s \in Slots, docs[s] # None
  PROVE  Agrees(Facts(docs[s]))
<1>1. docs[s] \in Entries
  BY DEF TypeInv, TypeOK
<1>2. /\ Facts(docs[s])[1] = docs[s].doc /\ Facts(docs[s])[2] = docs[s].rev /\ Facts(docs[s])[3] = docs[s].content
      /\ docs[s].rev \in Nat
  BY <1>1 DEF Facts, Entries
<1>3. \A u \in Slots : (docs[u] # None /\ docs[u].doc = docs[s].doc) => u = s
  BY HomeFacts DEF TypeInv
<1>4. \A p \in Paths : (recs[p] # None /\ recs[p].doc = docs[s].doc /\ recs[p].rev = docs[s].rev) => recs[p].sha = docs[s].content
  BY HomeFacts DEF TypeInv
<1>5. QED
  BY <1>2, <1>3, <1>4 DEF Agrees

\* What a start knows, a reopening goes past, or finds in the record.
LEMMA ReopenPast ==
  ASSUME TypeInv, JournalInv, NEW p \in Paths, recs[p] # None, NEW n \in Nat, Durable(recs[p].doc, n)
  PROVE  /\ Resumed(p) >= n
         /\ Resumed(p) = n => recs[p].rev = n /\ ~Changed(p)
<1> DEFINE d == recs[p].doc
<1>1. PICK N \in Nat : EntriesUpTo(N) /\ RowsUpTo(N)
  BY DEF TypeInv, Bounded
<1>2. /\ Resumed(p) \in Nat /\ Resumed(p) >= recs[p].rev /\ (Resumed(p) = recs[p].rev => ~Changed(p))
      /\ \A m \in Issued(d) : m <= recs[p].rev \/ m < Resumed(p)
  BY <1>1, ResumedFacts DEF TypeInv, Recorded
<1>3. recs[p].rev \in Nat /\ d \in Ids /\ d # None
  BY LineageAssumption DEF TypeInv, TypeOK, Records, Ids
<1>4. ASSUME InFile(d, n) PROVE \E m \in Issued(d) : m >= n
  <2>1. CASE \E t \in others : t[1] = d /\ t[2] >= n
    BY <2>1 DEF Issued, Journalled
  <2>2. CASE \E c \in Calls : rows[c] # None /\ rows[c].doc = d /\ \E m \in RevisionsIn(rows[c]) : m >= n
    <3>2. PICK b \in Calls : rows[b] # None /\ rows[b].doc = d /\ \E k \in RevisionsIn(rows[b]) : k >= n
      BY <2>2
    <3>3. PICK k \in RevisionsIn(rows[b]) : k >= n
      BY <3>2
    <3>4. PICK r \in {Flushed[x] : x \in Calls} \cup {mem[x] : x \in Calls} : r # None /\ r.doc = d /\ k \in RevisionsIn(r)
      <4>1. CASE b \in queued
        <5>1. mem[b] # None /\ mem[b].doc = d /\ k \in RevisionsIn(mem[b])
          BY <1>3, <3>2, <3>3, <4>1 DEF JournalInv, RowKept, TypeInv, MemThere
        <5>2. QED
          BY <5>1
      <4>2. CASE b \notin queued
        <5>1. Flushed[b] = rows[b]
          BY <4>2, FlushedFacts DEF TypeInv
        <5>2. QED
          BY <3>2, <3>3, <5>1
      <4>3. QED
        BY <4>1, <4>2
    <3>5. k \in Journalled(d)
      BY <3>4 DEF Journalled
    <3>6. QED
      BY <3>3, <3>5 DEF Issued
  <2>3. QED
    BY <1>4, <2>1, <2>2 DEF InFile
<1>5. CASE recs[p].rev >= n
  BY <1>2, <1>3, <1>5
<1>6. CASE ~(recs[p].rev >= n)
  <2>1. InFile(d, n)
    BY <1>6 DEF Durable
  <2>2. PICK m \in Issued(d) : m >= n
    BY <1>4, <2>1
  <2>3. m \in Nat
    BY <1>1, <2>2, IssuedFacts DEF TypeInv
  <2>4. QED
    BY <1>2, <1>3, <1>6, <2>2, <2>3
<1>7. QED
  BY <1>5, <1>6

\* A call that runs alone has told nobody anything yet.
LEMMA AloneTold ==
  ASSUME TypeInv, JournalInv, NEW c \in Calls, pc[c] = "begun", kind[c] \in Switching
  PROVE  Running = {c} /\ Told = seen
<1>1. c \in Running /\ did[c] = None
  BY DEF Running, JournalInv, Resting
<1>2. Running = {c}
  BY <1>1 DEF JournalInv, AloneIs
<1>3. QED
  BY <1>1, <1>2 DEF Told

\* Where nothing opened or recorded is new, only what is told may disagree.
LEMMA SameAgree ==
  ASSUME Agree, recs' = recs, \A s \in Slots : docs'[s] # None => docs'[s] = docs[s],
         \A t \in Told' : t \in Told \/ Agrees(t)
  PROVE  Agree'
<1> SUFFICES ASSUME NEW t \in Told' PROVE Agrees(t)'
  BY DEF Agree
<1>1. Agrees(t)
  BY DEF Agree
<1>2. QED
  BY <1>1 DEF Agrees

\* Nobody is told of a revision with two contents, as a call runs.
LEMMA BodyAgree ==
  ASSUME Orderly, TypeInv, JournalInv, HomeInv, ContentInv, NEW c \in Calls, Body(c)
  PROVE  Agree'
<1>1. Told' \subseteq Told \cup {did'[c]} /\ (did'[c] = did[c] => Told' \subseteq Told)
  BY ToldByBody
<1>2. Agree /\ \A t \in Told : t[1] \in Ids /\ t[2] \in Nat
  BY ToldType DEF ContentInv, TypeInv
<1>3. CASE Look(c) \/ Close(c) \/ \E s \in Slots : Activate(c, s)
  <2>1. /\ recs' = recs
        /\ docs' = docs \/ docs' = [docs EXCEPT ![active] = None]
        /\ \E s \in Slots : docs[s] # None /\ Ran(c, Facts(docs[s]))
    BY <1>3, ActiveFacts DEF Look, Close, Activate, regVars, Open, TypeInv
  <2>2. PICK s \in Slots : docs[s] # None /\ Ran(c, Facts(docs[s]))
    BY <2>1
  <2>3. did'[c] = Facts(docs[s])
    BY <2>2 DEF Ran, TypeInv, TypeOK
  <2>4. Agrees(did'[c])
    BY <2>2, <2>3, EntryAgrees
  <2>5. \A u \in Slots : docs'[u] # None => docs'[u] = docs[u]
    BY <2>1 DEF TypeInv, TypeOK
  <2>6. \A t \in Told' : t \in Told \/ Agrees(t)
    BY <1>1, <2>4
  <2>7. QED
    BY <1>2, <2>1, <2>5, <2>6, SameAgree
<1>4. CASE JournalChange(c) \/ \E p \in Paths : SaveFile(c, p)
  <2>1. UNCHANGED <<docs, recs, did>>
    BY <1>4 DEF JournalChange, SaveFile, regVars, callVars
  <2>2. QED
    BY <1>1, <1>2, <2>1, SameAgree
<1>5. CASE Edit(c)
  <2>1. PICK e \in Entries :
           /\ active \in Slots /\ Open(active) /\ e.doc = ActiveDoc /\ e.rev = ActiveRev + 1 /\ e.content = c
           /\ docs' = [docs EXCEPT ![active] = e] /\ recs' = recs
           /\ did' = [did EXCEPT ![c] = Facts(e)]
    BY <1>5, EditEffect
  <2>2. ActiveDoc = docs[active].doc /\ ActiveRev = docs[active].rev /\ ActiveRev \in Nat
    BY <1>5, ActiveFacts DEF Edit, TypeInv
  <2>3. \A s \in Slots : docs'[s] = IF s = active THEN e ELSE docs[s]
    BY <2>1 DEF TypeInv, TypeOK
  <2>4. did'[c] = <<e.doc, e.rev, e.content>>
    BY <2>1, FactsType DEF TypeInv, TypeOK
  <2>5. ASSUME NEW t \in Told PROVE Agrees(t)'
    <3>1. Agrees(t) /\ t[2] \in Nat
      BY <1>2 DEF Agree
    <3>2. ASSUME NEW s \in Slots, docs'[s] # None, docs'[s].doc = t[1]
          PROVE  docs'[s].rev >= t[2] /\ (docs'[s].rev = t[2] => docs'[s].content = t[3])
      <4>1. CASE s = active
        <5>1. docs[active].rev >= t[2]
          BY <2>1, <2>2, <2>3, <3>1, <3>2, <4>1 DEF Agrees, Open
        <5>2. QED
          BY <2>1, <2>2, <2>3, <3>1, <4>1, <5>1
      <4>2. CASE s # active
        BY <2>3, <3>1, <3>2, <4>2 DEF Agrees
      <4>3. QED
        BY <4>1, <4>2
    <3>3. QED
      BY <2>1, <3>1, <3>2 DEF Agrees
  <2>6. ASSUME NEW t, t = did'[c] PROVE Agrees(t)'
    <3>1. \A s \in Slots : (docs'[s] # None /\ docs'[s].doc = e.doc) => s = active
      BY <2>1, <2>2, <2>3, HomeFacts DEF TypeInv, Open
    <3>2. \A p \in Paths : (recs[p] # None /\ recs[p].doc = e.doc) => docs[active].rev >= recs[p].rev /\ recs[p].rev \in Nat
      BY <2>1, <2>2, HomeFacts DEF TypeInv, TypeOK, Open, Records
    <3>3. \A p \in Paths : (recs'[p] # None /\ recs'[p].doc = e.doc) => recs'[p].rev # e.rev
      BY <2>1, <2>2, <3>2
    <3>4. \A s \in Slots : (docs'[s] # None /\ docs'[s].doc = e.doc) => docs'[s] = e
      BY <2>3, <3>1
    <3>5. e.rev \in Nat
      BY <2>1, <2>2
    <3>6. QED
      BY <2>4, <2>6, <3>3, <3>4, <3>5 DEF Agrees
  <2>7. QED
    <3> SUFFICES ASSUME NEW t \in Told' PROVE Agrees(t)'
      BY DEF Agree
    <3>1. CASE t \in Told
      BY <2>5, <3>1
    <3>2. CASE t = did'[c]
      BY <2>6, <3>2
    <3>3. QED
      BY <1>1, <3>1, <3>2
<1>6. CASE New(c)
  <2>1. PICK e \in Entries :
           /\ e.doc = c /\ e.rev = 0 /\ e.content = c
           /\ docs' = [docs EXCEPT ![Untitled] = e] /\ recs' = recs
           /\ did' = [did EXCEPT ![c] = Facts(e)] /\ pc[c] = "begun"
    BY <1>6, NewEffect
  <2>2. c \notin Names /\ \A t \in Told : t[1] # c
    BY <2>1 DEF HomeInv, FreshId
  <2>3. \A s \in Slots : docs'[s] = IF s = Untitled THEN e ELSE docs[s]
    BY <2>1 DEF TypeInv, TypeOK
  <2>4. did'[c] = <<e.doc, e.rev, e.content>>
    BY <2>1, FactsType DEF TypeInv, TypeOK
  <2>5. ASSUME NEW t \in Told PROVE Agrees(t)'
    <3>1. Agrees(t) /\ t[1] # c
      BY <1>2, <2>2 DEF Agree
    <3>2. QED
      BY <2>1, <2>3, <3>1 DEF Agrees
  <2>6. ASSUME NEW t, t = did'[c] PROVE Agrees(t)'
    <3>1. \A s \in Slots : (docs'[s] # None /\ docs'[s].doc = c) => docs'[s] = e
      BY <2>2, <2>3 DEF Names
    <3>2. \A p \in Paths : recs'[p] # None => recs'[p].doc # c
      BY <2>1, <2>2 DEF Names
    <3>3. QED
      BY <2>1, <2>4, <2>6, <3>1, <3>2 DEF Agrees
  <2>7. QED
    <3> SUFFICES ASSUME NEW t \in Told' PROVE Agrees(t)'
      BY DEF Agree
    <3>1. CASE t \in Told
      BY <2>5, <3>1
    <3>2. CASE t = did'[c]
      BY <2>6, <3>2
    <3>3. QED
      BY <1>1, <3>1, <3>2
<1>7. CASE SaveRecord(c)
  <2>1. PICK p \in Paths, r \in Records :
           /\ active \in Slots /\ Open(active) /\ docs[active] \in Entries
           /\ r.doc = docs[active].doc /\ r.rev = docs[active].rev /\ r.sha = docs[active].content
           /\ recs' = [recs EXCEPT ![p] = r]
           /\ \A s \in Slots : docs'[s] = IF s = p THEN docs[active] ELSE IF s = active THEN None ELSE docs[s]
           /\ did' = [did EXCEPT ![c] = Facts(docs[active])]
    BY <1>7, SaveEffect
  <2>2. did'[c] = Facts(docs[active])
    BY <2>1 DEF TypeInv, TypeOK
  <2>3. Agrees(did'[c])
    BY <2>1, <2>2, EntryAgrees DEF Open
  <2>4. \A q \in Paths : recs'[q] = IF q = p THEN r ELSE recs[q]
    BY <2>1 DEF TypeInv, TypeOK
  <2>5. ASSUME NEW t \in Told' PROVE Agrees(t)'
    <3>1. Agrees(t)
      BY <1>1, <1>2, <2>3 DEF Agree
    <3>2. docs[active].doc = t[1] => docs[active].rev >= t[2] /\ (docs[active].rev = t[2] => docs[active].content = t[3])
      BY <2>1, <3>1 DEF Agrees, Open
    <3>3. \A s \in Slots : docs'[s] # None => docs'[s] = docs[active] \/ docs'[s] = docs[s]
      BY <2>1
    <3>4. QED
      BY <2>1, <2>4, <3>1, <3>2, <3>3 DEF Agrees
  <2>6. QED
    BY <2>5 DEF Agree
<1>8. CASE \E p \in Paths : Reopen(c, p)
  <2>1. PICK p \in Paths : Reopen(c, p)
    BY <1>8
  <2>2. PICK e \in Entries, r \in Records :
           /\ e.content = disk[p]
           /\ Continues(p) => e.doc = recs[p].doc /\ e.rev = Resumed(p)
           /\ ~Continues(p) => e.doc = c /\ e.rev = 0
           /\ r.doc = e.doc /\ r.rev = e.rev /\ r.sha = e.content /\ r # None
           /\ docs' = [docs EXCEPT ![p] = e]
           /\ recs' = [recs EXCEPT ![p] = r]
           /\ did' = [did EXCEPT ![c] = Facts(e)]
           /\ pc[c] = "begun" /\ kind[c] = "open"
    BY <2>1, ReopenEffect
  <2>3. \A q \in Paths : recs'[q] = IF q = p THEN r ELSE recs[q]
    BY <2>2 DEF TypeInv, TypeOK
  <2>4. \A s \in Slots : docs'[s] = IF s = p THEN e ELSE docs[s]
    BY <2>2 DEF TypeInv, TypeOK, Slots
  <2>5. did'[c] = <<e.doc, e.rev, e.content>> /\ e.rev \in Nat
    BY <2>2, FactsType DEF TypeInv, TypeOK, Entries
  <2>6. c \notin Names /\ \A t \in Told : t[1] # c
    BY <2>2 DEF HomeInv, FreshId
  <2>7. ASSUME NEW t \in Told, t[1] = e.doc
        PROVE  e.rev >= t[2] /\ (e.rev = t[2] => e.content = t[3])
    <3>1. Continues(p)
      BY <2>2, <2>6, <2>7
    <3>2. recs[p] # None /\ e.doc = recs[p].doc /\ e.rev = Resumed(p)
      BY <2>2, <3>1 DEF Continues
    <3>3. t \in seen
      BY <2>2, AloneTold DEF Switching
    <3>4. Durable(recs[p].doc, t[2]) /\ t[2] \in Nat
      BY <1>2, <2>7, <3>2, <3>3 DEF ContentInv, SeenDurable
    <3>5. Resumed(p) >= t[2] /\ (Resumed(p) = t[2] => recs[p].rev = t[2] /\ ~Changed(p))
      BY <3>2, <3>4, ReopenPast
    <3>6. recs[p].rev = t[2] => recs[p].sha = t[3]
      BY <1>2, <2>7, <3>2 DEF Agree, Agrees
    <3>7. QED
      BY <2>2, <3>2, <3>5, <3>6 DEF Changed
  <2>8. ASSUME NEW t \in Told PROVE Agrees(t)'
    <3>1. Agrees(t)
      BY <1>2 DEF Agree
    <3>2. \A s \in Slots : (docs'[s] # None /\ docs'[s].doc = t[1]) =>
            docs'[s].rev >= t[2] /\ (docs'[s].rev = t[2] => docs'[s].content = t[3])
      BY <2>4, <2>7, <3>1 DEF Agrees
    <3>3. \A q \in Paths : (recs'[q] # None /\ recs'[q].doc = t[1] /\ recs'[q].rev = t[2]) => recs'[q].sha = t[3]
      BY <2>2, <2>3, <2>7, <3>1 DEF Agrees
    <3>4. QED
      BY <3>2, <3>3 DEF Agrees
  <2>9. ASSUME NEW t, t = did'[c] PROVE Agrees(t)'
    <3>1. TypeInv' /\ OneRecord' /\ FileHome' /\ NoFileHome'
      BY BodyHome, TypeKept DEF Next
    <3>2. \A q \in Paths : (recs'[q] # None /\ recs'[q].doc = e.doc) => q = p
      BY <2>2, <2>3, <3>1 DEF OneRecord
    <3>3. \A s \in Slots : (docs'[s] # None /\ docs'[s].doc = e.doc) => docs'[s] = e
      <4> SUFFICES ASSUME NEW s \in Slots, docs'[s] # None, docs'[s].doc = e.doc PROVE s = p
        BY <2>4
      <4>1. CASE s \in Paths
        BY <3>1, <3>2, <4>1 DEF FileHome
      <4>2. CASE s = Untitled
        BY <2>2, <2>3, <3>1, <4>2 DEF NoFileHome
      <4>3. QED
        BY <4>1, <4>2 DEF Slots
    <3>4. QED
      BY <2>2, <2>3, <2>5, <2>9, <3>2, <3>3 DEF Agrees
  <2>10. QED
    <3> SUFFICES ASSUME NEW t \in Told' PROVE Agrees(t)'
      BY DEF Agree
    <3>1. CASE t \in Told
      BY <2>8, <3>1
    <3>2. CASE t = did'[c]
      BY <2>9, <3>2
    <3>3. QED
      BY <1>1, <3>1, <3>2
<1>9. QED
  BY <1>3, <1>4, <1>5, <1>6, <1>7, <1>8 DEF Body

\* A record that a call writes is of an entry it leaves open.
LEMMA RecsFollow ==
  ASSUME TypeInv, NEW c \in Calls, Body(c)
  PROVE  \A p \in Paths : recs'[p] # None =>
           recs'[p] = recs[p] \/ (docs'[p] # None /\ docs'[p].doc = recs'[p].doc /\ docs'[p].rev = recs'[p].rev)
<1>1. CASE recs' = recs
  BY <1>1
<1>2. CASE SaveRecord(c)
  <2>1. PICK p \in Paths, r \in Records :
           /\ Open(active) /\ r.doc = docs[active].doc /\ r.rev = docs[active].rev
           /\ recs' = [recs EXCEPT ![p] = r]
           /\ \A s \in Slots : docs'[s] = IF s = p THEN docs[active] ELSE IF s = active THEN None ELSE docs[s]
    BY <1>2, SaveEffect
  <2>2. \A q \in Paths : recs'[q] = IF q = p THEN r ELSE recs[q]
    BY <2>1 DEF TypeInv, TypeOK
  <2>3. QED
    BY <2>1, <2>2 DEF Open, Slots
<1>3. CASE \E p \in Paths : Reopen(c, p)
  <2>1. PICK p \in Paths : Reopen(c, p)
    BY <1>3
  <2>2. PICK e \in Entries, r \in Records :
           /\ r.doc = e.doc /\ r.rev = e.rev /\ docs'[p] = e /\ recs' = [recs EXCEPT ![p] = r] /\ recs'[p] = r
    BY <2>1, ReopenEffect
  <2>3. e # None /\ \A q \in Paths : q # p => recs'[q] = recs[q]
    BY <2>2, FactsType DEF TypeInv, TypeOK
  <2>4. QED
    BY <2>2, <2>3
<1>4. QED
  BY <1>1, <1>2, <1>3 DEF Body, Look, Edit, JournalChange, New, Close, SaveFile, Activate, regVars

\* What the one record of a document says is known to a start.
LEMMA OwnDurable ==
  ASSUME OneRecord', NEW p \in Paths, recs'[p] # None, NEW d, recs'[p].doc = d, NEW n \in Nat, recs'[p].rev = n
  PROVE  Durable(d, n)'
<1>1. \A q \in Paths : (recs'[q] # None /\ recs'[q].doc = d) => q = p
  BY DEF OneRecord
<1>2. QED
  BY <1>1 DEF Durable

\* What was answered stays known to a start ...
LEMMA BodySeen ==
  ASSUME Orderly, TypeInv, JournalInv, HomeInv, ContentInv, NEW c \in Calls, Body(c)
  PROVE  SeenDurable'
<1>1. seen' = seen
  BY BodyWorks DEF Works
<1> SUFFICES ASSUME NEW t \in seen PROVE Durable(t[1], t[2])'
  BY <1>1 DEF SeenDurable
<1>2. t \in Told /\ t[1] \in Ids /\ t[2] \in Nat
  BY ToldType DEF Told, TypeInv
<1>3. Durable(t[1], t[2])
  BY DEF ContentInv, SeenDurable
<1>4. t \in Told'
  BY <1>1 DEF Told
<1>5. \A s \in Slots : (docs'[s] # None /\ docs'[s].doc = t[1]) => docs'[s].rev >= t[2]
  BY <1>4, BodyAgree DEF Agree, Agrees
<1>6. \A p \in Paths : (recs'[p] # None /\ recs'[p].doc = t[1]) => recs'[p] = recs[p] \/ recs'[p].rev >= t[2]
  BY <1>5, RecsFollow DEF Slots
<1>7. [Next]_vars
  BY DEF Next
<1>8. QED
  BY <1>2, <1>3, <1>6, <1>7, DurableKept

\* ... as does what a call that switched documents is about to answer ...
LEMMA BodyDid ==
  ASSUME Orderly, TypeInv, JournalInv, HomeInv, ContentInv, NEW c \in Calls, Body(c)
  PROVE  DidDurable'
<1>1. [Next]_vars /\ Works(c)
  BY BodyWorks DEF Next
<1>2. c \in Running /\ Running' = Running /\ kind' = kind
  BY <1>1 DEF Works, Running
<1> SUFFICES ASSUME NEW t \in Seen, kind[c] \in Switching, did'[c] = t PROVE Durable(t[1], t[2])'
  <2> SUFFICES ASSUME NEW d \in Running, NEW t \in Seen, kind[d] \in Switching, did'[d] = t PROVE Durable(t[1], t[2])'
    BY <1>2 DEF DidDurable
  <2>1. d = c
    BY <1>2 DEF JournalInv, AloneIs
  <2>2. QED
    BY <2>1
<1>3. t[1] \in Ids /\ t[2] \in Nat
  BY DEF Seen
<1>4. ASSUME recs' = recs, Durable(t[1], t[2]) PROVE Durable(t[1], t[2])'
  BY <1>1, <1>3, <1>4, DurableKept
<1>5. CASE JournalChange(c)
  <2>1. recs' = recs /\ did' = did
    BY <1>5 DEF JournalChange
  <2>2. Durable(t[1], t[2])
    BY <1>2, <2>1 DEF ContentInv, DidDurable
  <2>3. QED
    BY <1>4, <2>1, <2>2
<1>6. CASE Close(c) \/ \E s \in Slots : Activate(c, s)
  <2>1. /\ recs' = recs /\ pc[c] = "begun"
        /\ \E s \in Slots : docs[s] # None /\ Ran(c, Facts(docs[s]))
    BY <1>6, ActiveFacts DEF Close, Activate, Runs, regVars, Open, TypeInv
  <2>2. PICK s \in Slots : docs[s] # None /\ Ran(c, Facts(docs[s]))
    BY <2>1
  <2>3. Running = {c}
    BY <2>1, AloneTold
  <2>4. ~ \E e \in Calls : pc[e] = "ran" /\ kind[e] = "edit"
    BY <2>1, <2>3 DEF Running
  <2>5. Durable(docs[s].doc, docs[s].rev)
    BY <2>2, <2>4 DEF ContentInv, EntryDurable
  <2>6. t[1] = docs[s].doc /\ t[2] = docs[s].rev
    BY <2>2 DEF Ran, Facts, TypeInv, TypeOK
  <2>7. QED
    BY <1>4, <2>1, <2>5, <2>6
<1>7. CASE New(c)
  <2>1. PICK e \in Entries : e.doc = c /\ recs' = recs /\ did' = [did EXCEPT ![c] = Facts(e)] /\ pc[c] = "begun"
    BY <1>7, NewEffect
  <2>2. t[1] = c
    BY <2>1 DEF Facts, TypeInv, TypeOK
  <2>3. \A p \in Paths : recs'[p] # None => recs'[p].doc # c
    BY <2>1 DEF HomeInv, FreshId, Names
  <2>4. QED
    BY <2>2, <2>3 DEF Durable
<1>8. CASE \E p \in Paths : Reopen(c, p)
  <2>1. PICK p \in Paths : Reopen(c, p)
    BY <1>8
  <2>2. PICK e \in Entries, r \in Records :
           /\ r.doc = e.doc /\ r.rev = e.rev /\ r # None /\ recs'[p] = r /\ did' = [did EXCEPT ![c] = Facts(e)]
    BY <2>1, ReopenEffect
  <2>3. t[1] = e.doc /\ t[2] = e.rev
    BY <2>2 DEF Facts, TypeInv, TypeOK
  <2>4. QED
    BY <1>3, <2>2, <2>3, BodyHome, OwnDurable
<1>9. ~(Look(c) \/ Edit(c) \/ SaveRecord(c) \/ \E p \in Paths : SaveFile(c, p))
  <2>1. ~SaveRecord(c)
    BY SaveEffect DEF Switching
  <2>2. QED
    BY <2>1 DEF Look, Edit, SaveFile, Runs, Switching
<1>10. QED
  BY <1>5, <1>6, <1>7, <1>8, <1>9 DEF Body

\* ... and every entry but the one an edit runs on.
LEMMA BodyEntries ==
  ASSUME Orderly, TypeInv, JournalInv, HomeInv, ContentInv, NEW c \in Calls, Body(c)
  PROVE  EntryDurable'
<1>1. [Next]_vars /\ Works(c)
  BY BodyWorks DEF Next
<1>2. c \in Running /\ Running' = Running /\ kind' = kind /\ pc[c] # "ran"
  BY <1>1 DEF Works, Running
<1>3. \A s \in Slots : docs[s] # None => docs[s].doc \in Ids /\ docs[s].rev \in Nat
  BY DEF TypeInv, TypeOK, Entries
<1>4. ASSUME NEW s \in Slots, docs[s] # None, docs'[s] = docs[s], Durable(docs[s].doc, docs[s].rev),
             \A p \in Paths : (recs'[p] # None /\ recs'[p].doc = docs[s].doc) => recs'[p] = recs[p]
      PROVE  Durable(docs[s].doc, docs[s].rev)'
  <2>1. \A d \in Ids, n \in Nat : d = docs[s].doc /\ n = docs[s].rev => Durable(d, n)'
    BY <1>1, <1>4, DurableKept
  <2>2. PICK d \in Ids, n \in Nat : d = docs[s].doc /\ n = docs[s].rev
    BY <1>3, <1>4
  <2>3. Durable(d, n)' /\ d = docs'[s].doc /\ n = docs'[s].rev
    BY <1>4, <2>1, <2>2
  <2>4. QED
    BY <2>3 DEF Durable, InFile
<1>5. CASE Look(c) \/ JournalChange(c) \/ \E p \in Paths : SaveFile(c, p)
  <2>1. UNCHANGED <<docs, active, recs>>
    BY <1>5 DEF Look, JournalChange, SaveFile, regVars
  <2> SUFFICES ASSUME NEW s \in Slots, docs'[s] # None, ~Durable(docs[s].doc, docs[s].rev)'
               PROVE  s = active' /\ \E e \in Calls : pc'[e] = "ran" /\ kind'[e] = "edit"
    BY DEF EntryDurable
  <2>2. ~Durable(docs[s].doc, docs[s].rev)
    BY <1>4, <2>1
  <2>3. s = active /\ \E e \in Calls : pc[e] = "ran" /\ kind[e] = "edit"
    BY <2>1, <2>2 DEF ContentInv, EntryDurable
  <2>4. QED
    BY <1>1, <1>2, <2>1, <2>3 DEF Works
<1>6. CASE Edit(c)
  <2>1. /\ active \in Slots /\ recs' = recs /\ active' = active /\ kind[c] = "edit" /\ pc' = [pc EXCEPT ![c] = "ran"]
        /\ \E e \in Entries : docs' = [docs EXCEPT ![active] = e]
    BY <1>6, EditEffect
  <2> SUFFICES ASSUME NEW s \in Slots, docs'[s] # None, s # active
               PROVE  Durable(docs[s].doc, docs[s].rev)'
    BY <1>2, <2>1 DEF EntryDurable, TypeInv, TypeOK
  <2>2. docs'[s] = docs[s]
    BY <2>1 DEF TypeInv, TypeOK
  <2>3. Durable(docs[s].doc, docs[s].rev)
    BY <2>2 DEF ContentInv, EntryDurable
  <2>4. QED
    BY <1>4, <2>1, <2>2, <2>3
<1>7. CASE SaveRecord(c)
  <2>1. PICK p \in Paths, r \in Records :
           /\ active \in Slots /\ docs[active] # None /\ docs[active] \in Entries
           /\ r.doc = docs[active].doc /\ r.rev = docs[active].rev /\ r # None
           /\ recs' = [recs EXCEPT ![p] = r]
           /\ \A s \in Slots : docs'[s] = IF s = p THEN docs[active] ELSE IF s = active THEN None ELSE docs[s]
    BY <1>7, SaveEffect DEF Open
  <2>2. \A q \in Paths : recs'[q] = IF q = p THEN r ELSE recs[q]
    BY <2>1 DEF TypeInv, TypeOK
  <2> SUFFICES ASSUME NEW s \in Slots, docs'[s] # None PROVE Durable(docs[s].doc, docs[s].rev)'
    BY DEF EntryDurable
  <2>3. CASE s = p
    <3>1. PICK d \in Ids, n \in Nat : d = r.doc /\ n = r.rev
      BY DEF Records
    <3>2. Durable(d, n)'
      BY <2>1, <2>2, <3>1, BodyHome, OwnDurable
    <3>3. d = docs'[s].doc /\ n = docs'[s].rev
      BY <2>1, <2>3, <3>1
    <3>4. QED
      BY <3>2, <3>3 DEF Durable, InFile
  <2>4. CASE s # p
    <3>1. s # active /\ docs'[s] = docs[s]
      BY <2>1, <2>4
    <3>2. Durable(docs[s].doc, docs[s].rev)
      BY <3>1 DEF ContentInv, EntryDurable
    <3>3. docs[s].doc # docs[active].doc
      BY <2>1, <3>1, HomeFacts DEF TypeInv
    <3>4. \A q \in Paths : (recs'[q] # None /\ recs'[q].doc = docs[s].doc) => recs'[q] = recs[q]
      BY <2>1, <2>2, <3>3
    <3>5. QED
      BY <1>4, <3>1, <3>2, <3>4
  <2>5. QED
    BY <2>3, <2>4
<1>8. CASE kind[c] \in Switching
  <2>1. CASE JournalChange(c)
    BY <1>5, <2>1
  <2>2. CASE ~JournalChange(c)
    <3>1. pc[c] = "begun"
      BY <1>8, <2>2, SaveEffect DEF Body, Look, Edit, SaveFile, Reopen, New, Close, Activate, Runs
    <3>2. Running = {c}
      BY <1>8, <3>1, AloneTold
    <3>3. ~ \E e \in Calls : pc[e] = "ran" /\ kind[e] = "edit"
      BY <3>1, <3>2 DEF Running
    <3>4. \A s \in Slots : docs[s] # None => Durable(docs[s].doc, docs[s].rev)
      BY <3>3 DEF ContentInv, EntryDurable
    <3>5. CASE Close(c) \/ \E s \in Slots : Activate(c, s)
      <4>1. recs' = recs /\ (docs' = docs \/ docs' = [docs EXCEPT ![active] = None])
        BY <3>5 DEF Close, Activate
      <4>2. \A s \in Slots : docs'[s] # None => docs'[s] = docs[s]
        BY <4>1 DEF TypeInv, TypeOK
      <4>3. QED
        BY <1>4, <3>4, <4>1, <4>2 DEF EntryDurable
    <3>6. CASE New(c)
      <4>1. PICK e \in Entries : e.doc = c /\ docs' = [docs EXCEPT ![Untitled] = e] /\ recs' = recs
        BY <3>6, NewEffect
      <4>2. \A s \in Slots : docs'[s] = IF s = Untitled THEN e ELSE docs[s]
        BY <4>1 DEF TypeInv, TypeOK
      <4> SUFFICES ASSUME NEW s \in Slots, docs'[s] # None PROVE Durable(docs[s].doc, docs[s].rev)'
        BY DEF EntryDurable
      <4>3. CASE s = Untitled
        <5>1. \A p \in Paths : recs'[p] # None => recs'[p].doc # docs'[s].doc
          BY <3>1, <4>1, <4>2, <4>3 DEF HomeInv, FreshId, Names
        <5>2. QED
          BY <5>1 DEF Durable
      <4>4. CASE s # Untitled
        BY <1>4, <3>4, <4>1, <4>2, <4>4
      <4>5. QED
        BY <4>3, <4>4
    <3>7. CASE \E p \in Paths : Reopen(c, p)
      <4>1. PICK p \in Paths : Reopen(c, p)
        BY <3>7
      <4>2. PICK e \in Entries, r \in Records :
               /\ r.doc = e.doc /\ r.rev = e.rev /\ r # None
               /\ docs' = [docs EXCEPT ![p] = e] /\ docs'[p] = e
               /\ recs' = [recs EXCEPT ![p] = r] /\ recs'[p] = r
        BY <4>1, ReopenEffect
      <4>3. \A s \in Slots : s # p => docs'[s] = docs[s]
        BY <4>2
      <4>4. \A q \in Paths : q # p => recs'[q] = recs[q]
        BY <4>2
      <4>5. OneRecord' /\ FileHome' /\ NoFileHome'
        BY BodyHome
      <4> SUFFICES ASSUME NEW s \in Slots, docs'[s] # None PROVE Durable(docs[s].doc, docs[s].rev)'
        BY DEF EntryDurable
      <4>6. CASE s = p
        <5>1. PICK d \in Ids, n \in Nat : d = r.doc /\ n = r.rev
          BY DEF Records
        <5>2. Durable(d, n)'
          BY <4>2, <4>5, <5>1, OwnDurable
        <5>3. d = docs'[s].doc /\ n = docs'[s].rev
          BY <4>2, <4>6, <5>1
        <5>4. QED
          BY <5>2, <5>3 DEF Durable, InFile
      <4>7. CASE s # p
        <5>1. docs'[s] = docs[s] /\ docs[s] # None
          BY <4>3, <4>7
        <5>2. docs'[s].doc # r.doc
          <6>1. CASE s = Untitled
            BY <4>2, <4>5, <6>1 DEF NoFileHome
          <6>2. CASE s \in Paths
            BY <4>2, <4>5, <4>7, <6>2 DEF FileHome, OneRecord
          <6>3. QED
            BY <6>1, <6>2 DEF Slots
        <5>3. \A q \in Paths : (recs'[q] # None /\ recs'[q].doc = docs[s].doc) => recs'[q] = recs[q]
          BY <4>2, <4>4, <5>1, <5>2
        <5>4. QED
          BY <1>4, <3>4, <5>1, <5>3
      <4>8. QED
        BY <4>6, <4>7
    <3>8. ~(Look(c) \/ Edit(c) \/ SaveRecord(c) \/ \E p \in Paths : SaveFile(c, p))
      <4>1. ~SaveRecord(c)
        BY <1>8, SaveEffect DEF Switching
      <4>2. QED
        BY <1>8, <4>1 DEF Look, Edit, SaveFile, Runs, Switching
    <3>9. QED
      BY <2>2, <3>5, <3>6, <3>7, <3>8 DEF Body
  <2>3. QED
    BY <2>1, <2>2
<1>9. kind[c] \in Switching \/ Look(c) \/ JournalChange(c) \/ Edit(c) \/ SaveRecord(c) \/ \E p \in Paths : SaveFile(c, p)
  BY DEF Body, Reopen, New, Close, Activate, Runs, Switching
<1>10. QED
  BY <1>5, <1>6, <1>7, <1>8, <1>9

\* A call that ends leaves its row in the file, if what it did is not known to a start
\* already.
LEMMA FinishKnown ==
  ASSUME Orderly, TypeInv, JournalInv, NEW c \in Calls, Finish(c), kind[c] \notin Switching, active # None
  PROVE  /\ mem[c].doc = ActiveDoc
         /\ \A n \in Nat : n <= ActiveRev => InFile(ActiveDoc, n)'
<1>1. Ends(c)
  BY FinishEnds
<1>2. mem[c].doc = ActiveDoc
  BY <1>1 DEF Ends, JournalInv, BoundTo, Bound
<1>3. ActiveDoc # None /\ ActiveRev # None
  BY ActiveFacts DEF TypeInv
<1>4. kind[c] \notin Unnamed
  BY DEF Orderly, Switching
<1>5. rows'[c] = Closed(c) /\ Closed(c) # None /\ Closed(c).doc = ActiveDoc /\ Closed(c).after = ActiveRev
  BY <1>1, <1>2, <1>3, <1>4 DEF Ends
<1>6. rows'[c] # None /\ rows'[c].doc = ActiveDoc /\ ActiveRev \in {rows'[c].before, rows'[c].after} \ {None}
  BY <1>3, <1>5
<1>7. ASSUME NEW d, d = ActiveDoc, NEW m, m = ActiveRev, NEW n \in Nat, n <= m
      PROVE  InFile(d, n)'
  BY <1>6, <1>7 DEF InFile, RevisionsIn
<1>8. active' = active /\ docs' = docs
  BY <1>1 DEF Ends
<1>9. QED
  BY <1>2, <1>7, <1>8 DEF InFile, ActiveDoc, ActiveRev

\* Outside the bodies nothing is opened or recorded.
LEMMA ElseContent ==
  ASSUME Orderly, TypeInv, JournalInv, HomeInv, ContentInv,
         \/ \E c \in Calls : \E k \in Kinds : Begin(c, k)
         \/ \E c \in Calls : Finish(c)
         \/ Around
         \/ UNCHANGED vars
  PROVE  ContentInv'
<1>1. [Next]_vars /\ Told' \subseteq Told
  BY ToldElse DEF Next, Around
<1>2. recs' = recs /\ (UNCHANGED <<docs, active>> \/ docs' = [s \in Slots |-> None])
  BY DEF Begin, Finish, Around, Flush, Kill, Start, ForeignWrite, vars, regVars
<1>3. \A s \in Slots : docs'[s] # None => docs'[s] = docs[s] /\ active' = active
  BY <1>2
<1>4. Agree'
  BY <1>1, <1>2, <1>3, SameAgree DEF ContentInv
<1>5. \A d \in Ids, n \in Nat : Durable(d, n) => Durable(d, n)'
  BY <1>1, <1>2, DurableKept
<1>6. \A d, n : InFile(d, n)' => Durable(d, n)'
  BY DEF Durable
<1>7. SeenDurable'
  <2> SUFFICES ASSUME NEW t \in seen' PROVE Durable(t[1], t[2])'
    BY DEF SeenDurable
  <2>1. t \in Told' /\ t[1] \in Ids /\ t[2] \in Nat /\ t \in Seen
    BY <1>1, ToldType DEF Told, TypeInv
  <2>2. CASE t \in seen
    BY <1>5, <2>1, <2>2 DEF ContentInv, SeenDurable
  <2>3. CASE t \notin seen
    <3>1. PICK c \in Calls : Finish(c) /\ t = did[c] /\ did[c] # None
      BY <2>3 DEF Begin, Finish, Around, Flush, Kill, Start, ForeignWrite, vars
    <3>2. c \in Running
      BY <3>1, FinishEnds DEF Ends
    <3>3. CASE kind[c] \in Switching
      <4>1. Durable(t[1], t[2])
        BY <2>1, <3>1, <3>2, <3>3 DEF ContentInv, DidDurable
      <4>2. QED
        BY <1>5, <2>1, <4>1
    <3>4. CASE kind[c] \notin Switching
      <4>1. active # None /\ t[1] = ActiveDoc /\ t[2] <= ActiveRev
        BY <3>1, <3>2, <3>4 DEF JournalInv, BoundTo, Bound
      <4>2. \A n \in Nat : n <= ActiveRev => InFile(ActiveDoc, n)'
        BY <3>1, <3>4, <4>1, FinishKnown
      <4>3. UNCHANGED <<docs, active>>
        BY <3>1 DEF Finish, regVars
      <4>4. InFile(ActiveDoc, t[2])'
        BY <2>1, <4>1, <4>2
      <4>5. InFile(t[1], t[2])'
        BY <4>1, <4>3, <4>4 DEF InFile, ActiveDoc
      <4>6. QED
        BY <1>6, <4>5
    <3>5. QED
      BY <3>3, <3>4
  <2>4. QED
    BY <2>2, <2>3
<1>8. DidDurable'
  <2> SUFFICES ASSUME NEW c \in Running', NEW t \in Seen, kind'[c] \in Switching, did'[c] = t PROVE Durable(t[1], t[2])'
    BY DEF DidDurable
  <2>1. t # None /\ t[1] \in Ids /\ t[2] \in Nat
    BY NoneIsApart DEF Seen
  <2>2. c \in Running /\ kind'[c] = kind[c] /\ did'[c] = did[c]
    <3>1. CASE \E b \in Calls : \E k \in Kinds : Begin(b, k)
      <4>1. PICK b \in Calls, k \in Kinds : Begin(b, k)
        BY <3>1
      <4>2. pc[b] = "idle" /\ did' = did /\ \A x \in Calls : x # b => kind'[x] = kind[x] /\ pc'[x] = pc[x]
        BY <4>1 DEF Begin, TypeInv, TypeOK
      <4>3. c # b
        BY <2>1, <4>2 DEF JournalInv, Resting
      <4>4. QED
        BY <4>2, <4>3 DEF Running
    <3>2. CASE \E b \in Calls : Finish(b)
      <4>1. PICK b \in Calls : Ends(b)
        BY <3>2, FinishEnds
      <4>2. QED
        BY <4>1 DEF Ends, Running
    <3>3. CASE Around \/ UNCHANGED vars
      BY <3>3 DEF Around, Flush, Kill, Start, ForeignWrite, vars, callVars, Running
    <3>4. QED
      BY <3>1, <3>2, <3>3
  <2>3. Durable(t[1], t[2])
    BY <2>2 DEF ContentInv, DidDurable
  <2>4. QED
    BY <1>5, <2>1, <2>3
<1>9. EntryDurable'
  <2> SUFFICES ASSUME NEW s \in Slots, docs'[s] # None, ~Durable(docs[s].doc, docs[s].rev)'
               PROVE  s = active' /\ \E e \in Calls : pc'[e] = "ran" /\ kind'[e] = "edit"
    BY DEF EntryDurable
  <2>1. docs'[s] = docs[s] /\ docs[s] # None /\ active' = active
    BY <1>3
  <2>2. PICK d \in Ids, n \in Nat : d = docs[s].doc /\ n = docs[s].rev
    BY <2>1 DEF TypeInv, TypeOK, Entries
  <2>3. d = docs'[s].doc /\ n = docs'[s].rev
    BY <2>1, <2>2
  <2>4. ~Durable(d, n)'
    BY <2>3 DEF Durable, InFile
  <2>5. ~Durable(d, n)
    BY <1>5, <2>4
  <2>6. s = active /\ \E e \in Calls : pc[e] = "ran" /\ kind[e] = "edit"
    BY <2>1, <2>2, <2>5 DEF ContentInv, EntryDurable
  <2>7. PICK e \in Calls : pc[e] = "ran" /\ kind[e] = "edit"
    BY <2>6
  <2>8. CASE Finish(e)
    <3>1. active # None
      BY <2>1, <2>6, <2>7, <2>8 DEF JournalInv, BoundTo, Bound, Resting, Running, Switching
    <3>2. ActiveDoc = d /\ ActiveRev = n
      BY <2>2, <2>6, <3>1 DEF ActiveDoc, ActiveRev
    <3>3. InFile(ActiveDoc, n)'
      BY <2>7, <2>8, <3>1, <3>2, FinishKnown DEF Switching
    <3>4. UNCHANGED <<docs, active>>
      BY <2>8 DEF Finish, regVars
    <3>5. InFile(d, n)'
      BY <3>2, <3>3, <3>4 DEF InFile, ActiveDoc
    <3>6. QED
      BY <1>6, <2>4, <3>5
  <2>9. CASE ~Finish(e)
    <3>1. pc'[e] = pc[e] /\ kind'[e] = kind[e]
      <4>1. CASE \E c \in Calls : \E k \in Kinds : Begin(c, k)
        <5>1. PICK c \in Calls, k \in Kinds : Begin(c, k)
          BY <4>1
        <5>2. pc[c] = "idle" /\ pc' = [pc EXCEPT ![c] = "begun"] /\ kind' = [kind EXCEPT ![c] = k]
          BY <5>1 DEF Begin
        <5>3. c # e
          BY <2>7, <5>2
        <5>4. QED
          BY <5>2, <5>3 DEF TypeInv, TypeOK
      <4>2. CASE \E c \in Calls : Finish(c)
        <5>1. PICK c \in Calls : Finish(c)
          BY <4>2
        <5>2. pc' = [pc EXCEPT ![c] = "over"] /\ kind' = kind
          BY <5>1 DEF Finish
        <5>3. c # e
          BY <2>9, <5>1
        <5>4. QED
          BY <5>2, <5>3 DEF TypeInv, TypeOK
      <4>3. CASE Around \/ UNCHANGED vars
        <5>1. ~Kill
          BY <2>1 DEF Kill
        <5>2. QED
          BY <4>3, <5>1 DEF Around, Flush, Start, ForeignWrite, vars, callVars
      <4>4. QED
        BY <4>1, <4>2, <4>3
    <3>2. QED
      BY <2>1, <2>6, <2>7, <3>1
  <2>10. QED
    BY <2>8, <2>9
<1>10. QED
  BY <1>4, <1>7, <1>8, <1>9 DEF ContentInv

\* Every step keeps it.
LEMMA ContentKept ==
  ASSUME Orderly, TypeInv, JournalInv, HomeInv, ContentInv, [Next]_vars
  PROVE  ContentInv'
<1>1. CASE \E c \in Calls : Body(c)
  BY <1>1, BodyAgree, BodySeen, BodyDid, BodyEntries DEF ContentInv
<1>2. CASE ~\E c \in Calls : Body(c)
  BY <1>2, ElseContent DEF Next, Around
<1>3. QED
  BY <1>1, <1>2

-------------------------------------------------------------------------------
(* The theorems *)

\* All of it.
IInv == TypeInv /\ JournalInv /\ HomeInv /\ ContentInv

\* It holds at the start, where each file is recorded as its own document.
LEMMA StartsWell ==
  ASSUME Orderly, Init
  PROVE  JournalInv /\ HomeInv /\ ContentInv
<1>1. Running = {} /\ queued = {} /\ seen = {} /\ active = None /\ writing = None /\ up
  BY DEF Init, Running
<1>2. JournalInv
  BY <1>1 DEF Init, JournalInv, Resting, Downed, RowKept, AloneIs, BoundTo, EditRow
<1>3. Told = {}
  BY <1>1 DEF Told
<1>4. \A p \in Paths : recs[p] # None => recs[p].doc = p
  BY DEF Init, Orderly
<1>5. \A s \in Slots : docs[s] = None
  BY DEF Init
<1>6. Paths \subseteq Slots /\ Untitled \in Slots
  BY DEF Slots
<1>7. \A c \in Calls : c \notin Names
  BY <1>4, <1>5, LineageAssumption DEF Names
<1>8. HomeInv
  BY <1>1, <1>3, <1>4, <1>5, <1>6, <1>7 DEF HomeInv, OneRecord, FileHome, NoFileHome, SavesHome, FreshId
<1>9. ContentInv
  BY <1>1, <1>3, <1>5 DEF ContentInv, Agree, SeenDurable, DidDurable, EntryDurable
<1>10. QED
  BY <1>2, <1>8, <1>9

\* So it is an invariant.
LEMMA LineageInvariant ==
  ASSUME Orderly
  PROVE  Spec => []IInv
<1>1. Init => IInv
  BY StartsWell, TypeInit DEF IInv
<1>2. IInv /\ [Next]_vars => IInv'
  BY TypeKept, JournalKept, HomeKept, ContentKept DEF IInv
<1>3. QED
  BY <1>1, <1>2, PTL DEF Spec

\* A revision names one content: whoever was told a document's revision and finds the
\* document at that revision - after kills, restarts, edits nobody saved, saves under
\* another path, other programs' writes - finds that content.
THEOREM NamesContentHolds == Orderly => (Spec => []RevisionNamesContent)
<1> SUFFICES ASSUME Orderly PROVE Spec => []RevisionNamesContent
  OBVIOUS
<1>1. IInv => RevisionNamesContent
  BY DEF IInv, ContentInv, Agree, Agrees, Told, RevisionNamesContent, Open
<1>2. Spec => []IInv
  BY LineageInvariant
<1>3. QED
  BY <1>1, <1>2, PTL

\* A revision is never taken back: no document is opened below one a client was told.
THEOREM NeverBehindHolds == Orderly => (Spec => []NeverBehind)
<1> SUFFICES ASSUME Orderly PROVE Spec => []NeverBehind
  OBVIOUS
<1>1. IInv => NeverBehind
  BY DEF IInv, ContentInv, Agree, Agrees, Told, NeverBehind, Open
<1>2. Spec => []IInv
  BY LineageInvariant
<1>3. QED
  BY <1>1, <1>2, PTL

\* No two entries of the registry are one document.
THEOREM OneEntryHolds == Orderly => (Spec => []OneEntryPerDocument)
<1> SUFFICES ASSUME Orderly PROVE Spec => []OneEntryPerDocument
  OBVIOUS
<1>1. IInv => OneEntryPerDocument
  BY HomeFacts DEF IInv, TypeInv, OneEntryPerDocument, Open
<1>2. Spec => []IInv
  BY LineageInvariant
<1>3. QED
  BY <1>1, <1>2, PTL

\* Only a reopening opens a file as the document its record names.
LEMMA OnlyReopens ==
  ASSUME TypeInv, NEW c \in Calls, NEW p \in Paths, OpensAgain(c, p), [Next]_vars
  PROVE  Reopen(c, p)
<1>1. pc[c] = "begun" /\ kind[c] = "open" /\ pc'[c] \in {"found", "ran"} /\ active' = p
  BY DEF OpensAgain
<1>2. pc' # pc /\ pc \in [Calls -> {"idle", "begun", "found", "ran", "over"}]
  BY <1>1 DEF TypeInv, TypeOK
<1>3. ASSUME NEW d \in Calls, Body(d) PROVE d = c
  <2>1. Works(d)
    BY <1>3, BodyWorks
  <2>2. QED
    BY <1>1, <2>1 DEF Works
<1>4. ASSUME NEW d \in Calls, NEW k \in Kinds, Begin(d, k) PROVE FALSE
  BY <1>1, <1>2, <1>4 DEF Begin
<1>5. ASSUME NEW d \in Calls, Finish(d) PROVE FALSE
  BY <1>1, <1>2, <1>5 DEF Finish
<1>6. ~(Around \/ UNCHANGED vars)
  BY <1>1, <1>2 DEF Around, Flush, Kill, Start, ForeignWrite, vars, callVars
<1>7. Body(c)
  BY <1>3, <1>4, <1>5, <1>6 DEF Next, Around
<1>8. ~SaveRecord(c)
  BY <1>1, SaveEffect
<1>9. \E q \in Paths : Reopen(c, q)
  BY <1>1, <1>7, <1>8 DEF Body, Look, Edit, JournalChange, New, Close, SaveFile, Activate, Runs
<1>10. PICK q \in Paths : Reopen(c, q)
  BY <1>9
<1>11. q = p
  BY <1>1, <1>10 DEF Reopen
<1>12. QED
  BY <1>10, <1>11

\* A client is told: whoever opens a file that lacks an edit some client was answered
\* learns that something was lost, whatever the server's deaths kept from the file.
THEOREM LossReportedHolds == Orderly => (Spec => LossIsReported)
<1> SUFFICES ASSUME Orderly PROVE Spec => LossIsReported
  OBVIOUS
<1>1. IInv /\ [Next]_vars =>
        [\A c \in Calls, p \in Paths :
           (OpensAgain(c, p) /\ \E e \in Calls : pc[e] = "over" /\ Missing(e, recs[p].doc, recs[p].rev))
             => said'[c]]_vars
  <2> SUFFICES ASSUME IInv, [Next]_vars, NEW c \in Calls, NEW p \in Paths, OpensAgain(c, p),
                      NEW e \in Calls, pc[e] = "over", Missing(e, recs[p].doc, recs[p].rev)
               PROVE  said'[c]
    OBVIOUS
  <2>1. TypeInv /\ JournalInv /\ HomeInv
    BY DEF IInv
  <2>2. PICK x \in Entries :
           /\ ~Continues(p) => x.doc = c
           /\ did' = [did EXCEPT ![c] = Facts(x)]
           /\ said' = [said EXCEPT ![c] = Continues(p) /\ Lost(recs[p].doc, recs[p].rev, recs[p].at)]
           /\ pc[c] = "begun"
    BY <2>1, OnlyReopens, ReopenEffect
  <2>3. recs[p] # None /\ did'[c][1] = recs[p].doc
    BY DEF OpensAgain
  <2>4. recs[p].doc # c
    BY <2>1, <2>2, <2>3 DEF HomeInv, FreshId, Names
  <2>5. did'[c][1] = x.doc
    BY <2>1, <2>2 DEF Facts, TypeInv, TypeOK
  <2>6. Continues(p)
    BY <2>2, <2>3, <2>4, <2>5
  <2>7. kind[e] = "edit" /\ did[e] # None /\ did[e][1] = recs[p].doc /\ did[e][2] > recs[p].rev
    BY DEF Missing
  <2>8. /\ e \notin queued
        /\ rows[e] # None /\ rows[e].state = "committed" /\ rows[e].doc = did[e][1]
        /\ rows[e].before # None /\ rows[e].after # None
        /\ rows[e].before < did[e][2] /\ did[e][2] <= rows[e].after
    BY <2>1, <2>7 DEF JournalInv, EditRow
  <2>9. rows[e].before \in Nat /\ rows[e].after \in Nat /\ did[e][2] \in Nat /\ recs[p].rev \in Nat
    BY <2>1, <2>3, <2>7, <2>8 DEF TypeInv, TypeOK, Rows, Seen, Records
  <2>10. IsLost(rows[e], recs[p].rev, recs[p].at, e)
    BY <2>7, <2>8, <2>9 DEF IsLost
  <2>11. Flushed[e] = rows[e]
    BY <2>1, <2>8, FlushedFacts DEF TypeInv
  <2>12. Lost(recs[p].doc, recs[p].rev, recs[p].at)
    BY <2>7, <2>8, <2>10, <2>11 DEF Lost
  <2>13. QED
    BY <2>1, <2>2, <2>6, <2>12 DEF TypeInv, TypeOK
<1>2. Spec => []IInv
  BY LineageInvariant
<1>3. QED
  BY <1>1, <1>2, PTL DEF Spec, LossIsReported
===============================================================================
