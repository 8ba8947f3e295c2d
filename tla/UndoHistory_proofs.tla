--------------------------- MODULE UndoHistory_proofs --------------------------
(***************************************************************************)
(* The safety of UndoHistory for every number of revisions, rows, snapshots *)
(* and forms: its types; what rows and undo bases name; that a restore can  *)
(* be undone; that undo walks back and that redo retraces it.               *)
(***************************************************************************)
EXTENDS UndoHistory, SequenceTheorems, WellFoundedInduction, TLAPS

-------------------------------------------------------------------------------
(* Numbers and sequences *)

\* A set of numbers has a least one.
LEMMA LeastExists ==
  ASSUME NEW S, S \subseteq Nat, S # {}
  PROVE  \E n \in S : \A k \in S : n <= k
<1> DEFINE R == {ss \in Nat \X Nat : ss[1] < ss[2]}
<1>1. IsWellFoundedOn(R, Nat)
  <2>1. OpToRel(<,Nat) = R
    BY Zenon DEF OpToRel
  <2>2. QED
    BY <2>1, NatLessThanWellFounded, Zenon
<1>2. \E x \in S : \A y \in S : ~ (<<y, x>> \in R)
  <2> HIDE DEF R
  <2>1. QED
    BY <1>1, WFMin
<1>3. PICK x \in S : \A y \in S : ~ (<<y, x>> \in R)
  BY <1>2
<1>4. ASSUME NEW y \in S, y < x PROVE FALSE
  <2>1. <<y, x>> \in Nat \X Nat /\ <<y, x>>[1] < <<y, x>>[2]
    BY <1>4
  <2>2. QED
    BY <1>3, <2>1
<1>5. QED
  BY <1>4

\* A bounded one has a greatest.
LEMMA GreatestExists ==
  ASSUME NEW S, S \subseteq Nat, S # {}, NEW N \in Nat, \A n \in S : n <= N
  PROVE  \E n \in S : \A k \in S : k <= n
<1> DEFINE below == {k \in Nat : N - k \in S}
<1>1. below \subseteq Nat /\ below # {}
  <2>1. PICK n \in S : TRUE
    OBVIOUS
  <2>2. N - n \in Nat /\ N - (N - n) = n
    BY <2>1
  <2>3. QED
    BY <2>1, <2>2
<1>2. PICK m \in below : \A k \in below : m <= k
  <2> HIDE DEF below
  <2>1. QED
    BY <1>1, LeastExists
<1>3. N - m \in S /\ m \in Nat
  BY <1>2
<1>4. ASSUME NEW k \in S PROVE k <= N - m
  <2>1. N - k \in Nat /\ N - (N - k) = k
    OBVIOUS
  <2>2. m <= N - k
    BY <1>2, <2>1
  <2>3. QED
    BY <1>3, <2>2
<1>5. QED
  BY <1>3, <1>4

\* The last place and the rest of a sequence that is not empty.
LEMMA FrontLast ==
  ASSUME NEW S, NEW s \in Seq(S), s # <<>>
  PROVE  /\ Len(s) \in Nat \ {0} /\ Len(s) \in DOMAIN s /\ Last(s) = s[Len(s)] /\ Last(s) \in S
         /\ Front(s) \in Seq(S) /\ Len(Front(s)) = Len(s) - 1 /\ DOMAIN Front(s) = 1..(Len(s) - 1)
         /\ \A i \in 1..(Len(s) - 1) : Front(s)[i] = s[i]
<1>1. Len(s) \in Nat \ {0} /\ DOMAIN s = 1..Len(s)
  BY EmptySeq, LenProperties
<1>2. \A i \in 1..(Len(s) - 1) : s[i] \in S
  BY <1>1, ElementOfSeq
<1>3. /\ Front(s) \in Seq(S)
      /\ Len(Front(s)) = Len(s) - 1
      /\ \A i \in 1..(Len(s) - 1) : Front(s)[i] = s[i]
  <2>1. /\ SubSeq(s, 1, Len(s) - 1) \in Seq(S)
        /\ Len(SubSeq(s, 1, Len(s) - 1)) = IF 1 <= Len(s) - 1 THEN Len(s) - 1 - 1 + 1 ELSE 0
        /\ \A i \in 1..(Len(s) - 1 - 1 + 1) : SubSeq(s, 1, Len(s) - 1)[i] = s[1 + i - 1]
    <3>1. 1 \in Int /\ Len(s) - 1 \in Int
      BY <1>1
    <3>2. QED
      BY <1>2, <3>1, SubSeqProperties
  <2>2. QED
    BY <1>1, <2>1 DEF Front
<1>4. DOMAIN Front(s) = 1..(Len(s) - 1)
  BY <1>3, LenProperties
<1>5. s[Len(s)] \in S
  BY <1>1, ElementOfSeq
<1>6. QED
  BY <1>1, <1>3, <1>4, <1>5 DEF Last

\* A sequence and one more.
LEMMA Appended ==
  ASSUME NEW S, NEW s \in Seq(S), NEW e \in S
  PROVE  /\ Len(s) \in Nat /\ DOMAIN s = 1..Len(s) /\ \A i \in DOMAIN s : s[i] \in S
         /\ Append(s, e) \in Seq(S) /\ Append(s, e) # <<>>
         /\ Len(Append(s, e)) = Len(s) + 1 /\ DOMAIN Append(s, e) = 1..(Len(s) + 1)
         /\ \A i \in 1..Len(s) : Append(s, e)[i] = s[i]
         /\ Append(s, e)[Len(s) + 1] = e /\ Last(Append(s, e)) = e
<1>1. Len(s) \in Nat /\ DOMAIN s = 1..Len(s) /\ \A i \in DOMAIN s : s[i] \in S
  BY LenProperties, ElementOfSeq
<1>2. /\ Append(s, e) \in Seq(S) /\ Append(s, e) # <<>>
      /\ Len(Append(s, e)) = Len(s) + 1
      /\ \A i \in 1..Len(s) : Append(s, e)[i] = s[i]
      /\ Append(s, e)[Len(s) + 1] = e
  BY AppendProperties
<1>3. DOMAIN Append(s, e) = 1..(Len(s) + 1)
  BY <1>2, LenProperties
<1>4. QED
  BY <1>1, <1>2, <1>3 DEF Last

\* What Seq says of its members.
LEMMA Members ==
  ASSUME NEW S, NEW s \in Seq(S)
  PROVE  /\ Len(s) \in Nat /\ DOMAIN s = 1..Len(s) /\ \A i \in DOMAIN s : s[i] \in S
         /\ s = <<>> <=> Len(s) = 0
<1>1. Len(s) \in Nat /\ DOMAIN s = 1..Len(s) /\ \A i \in DOMAIN s : s[i] \in S
  BY LenProperties, ElementOfSeq
<1>2. s = <<>> => Len(s) = 0
  BY EmptySeq
<1>3. s # <<>> => Len(s) # 0
  BY EmptySeq
<1>4. QED
  BY <1>1, <1>2, <1>3

\* A sequence of the same length is a sequence.
LEMMA SameLength ==
  ASSUME NEW S, NEW T, NEW s \in Seq(S), NEW f, f \in [DOMAIN s -> T]
  PROVE  f \in Seq(T) /\ Len(f) = Len(s)
<1>1. Len(s) \in Nat /\ DOMAIN s = 1..Len(s)
  BY LenProperties
<1>2. f \in Seq(T)
  BY <1>1, SeqDef
<1>3. DOMAIN f = 1..Len(f) /\ DOMAIN f = 1..Len(s) /\ Len(f) \in Nat
  BY <1>1, <1>2, LenProperties
<1>4. QED
  BY <1>1, <1>2, <1>3

-------------------------------------------------------------------------------
(* The rows *)

\* What may become of a row: it is evicted, or loses its file.
Later(a, b) ==
  /\ b.kind = a.kind /\ b.rev = a.rev /\ b.base = a.base /\ b.content = a.content
  /\ a.evicted => b.evicted

\* rs goes on from the rows with some of the rows of N; no file is lost but with its row.
Grown(rs, N) ==
  /\ rs \in Seq(Row) /\ DOMAIN rows \subseteq DOMAIN rs
  /\ \A i \in DOMAIN rows : Later(rows[i], rs[i]) /\ ("cut" \in Mishaps \/ rs[i].evicted \/ rs[i].there = rows[i].there)
  /\ \A i \in DOMAIN rs \ DOMAIN rows : rs[i] \in N


LEMMA TrimmedIs ==
  ASSUME NEW rs \in Seq(Row), rs # <<>>
  PROVE  /\ Trimmed(rs) \in Seq(Row) /\ Len(Trimmed(rs)) = Len(rs)
         /\ \A i \in DOMAIN rs : /\ Later(rs[i], Trimmed(rs)[i])
                                 /\ Trimmed(rs)[i].evicted \/ Trimmed(rs)[i] = rs[i]
         /\ Trimmed(rs)[1] = rs[1] /\ Trimmed(rs)[Len(rs)] = rs[Len(rs)]
<1> DEFINE live == {i \in 2..Len(rs) : ~rs[i].evicted}
           Older(i) == {j \in live : j <= i}
           gone == {i \in live \ {Len(rs)} : Cardinality(Older(i)) <= Cardinality(live) - Keep}
           Cut(r) == [r EXCEPT !.evicted = TRUE, !.there = FALSE]
<1>1. Len(rs) \in Nat \ {0} /\ DOMAIN rs = 1..Len(rs) /\ \A i \in DOMAIN rs : rs[i] \in Row
  BY Members
<1>2. Trimmed(rs) = [i \in DOMAIN rs |-> IF i \in gone THEN Cut(rs[i]) ELSE rs[i]]
  BY DEF Trimmed
<1>3. 1 \notin gone /\ Len(rs) \notin gone
  BY <1>1
<1> HIDE DEF gone
<1>4. \A r \in Row : Cut(r) \in Row /\ Later(r, Cut(r)) /\ Later(r, r) /\ Cut(r).evicted
  BY DEF Row, Later
<1>5. \A i \in DOMAIN rs : Trimmed(rs)[i] = IF i \in gone THEN Cut(rs[i]) ELSE rs[i]
  BY <1>2
<1> HIDE DEF Cut
<1>6. Trimmed(rs) \in [DOMAIN rs -> Row]
  BY <1>1, <1>2, <1>4
<1>7. Trimmed(rs) \in Seq(Row) /\ Len(Trimmed(rs)) = Len(rs)
  BY <1>6, SameLength
<1>8. 1 \in DOMAIN rs /\ Len(rs) \in DOMAIN rs
  BY <1>1
<1>9. QED
  BY <1>1, <1>3, <1>4, <1>5, <1>7, <1>8

\* A new row is one.
LEMMA NewRowType ==
  ASSUME hist \in [Revs -> Revs],
         NEW kind \in {"new", "open", "save", "transaction", "label", "pre_restore", "pre_undo"},
         NEW r \in Revs, NEW b \in Revs, NEW f \in Forms \cup {0}
  PROVE  /\ NewRow(kind, r, b, f) \in Row
         /\ NewRow(kind, r, b, f).kind = kind
         /\ NewRow(kind, r, b, f).rev = r /\ NewRow(kind, r, b, f).base = b
         /\ NewRow(kind, r, b, f).content = hist[r] /\ NewRow(kind, r, b, f).form = f
         /\ ~NewRow(kind, r, b, f).evicted /\ NewRow(kind, r, b, f).there
BY DEF NewRow, Row

RowTypes ==
  /\ hist \in [Revs -> Revs] /\ rows \in Seq(Row)
  /\ s0 \in [rev : Revs, form : Forms \cup {0}] \cup {None}
  /\ s0 # None => s0.rev = 0

\* What is shown and what an addition starts from.
LEMMA WithS0Is ==
  ASSUME RowTypes
  PROVE  /\ WithS0 \in Seq(Row)
         /\ ~Pending => WithS0 = rows /\ Shown = rows
         /\ Pending => /\ S0Row \in Row /\ WithS0 = <<S0Row>> /\ rows = <<>> /\ s0 # None
                       /\ S0Row.rev = 0 /\ S0Row.base = 0 /\ S0Row.content = hist[0] /\ S0Row.kind = "new"
                       /\ ~S0Row.evicted /\ S0Row.there
         /\ Shown \in Seq(Row) /\ Len(Shown) = Len(WithS0)
         /\ \A i \in DOMAIN Shown : i \in DOMAIN WithS0 /\ Later(WithS0[i], Shown[i]) /\ Later(Shown[i], WithS0[i])
                                    /\ Shown[i].there = WithS0[i].there
<1>1. CASE Pending
  <2>1. s0 # None /\ rows = <<>> /\ s0.rev = 0 /\ s0.rev \in Revs /\ s0.form \in Forms \cup {0}
    BY <1>1 DEF Pending, RowTypes
  <2>2. /\ S0Row \in Row /\ S0Row.rev = 0 /\ S0Row.base = 0 /\ S0Row.content = hist[0]
        /\ S0Row.kind = "new" /\ ~S0Row.evicted /\ S0Row.there
    BY <2>1, NewRowType DEF S0Row, RowTypes
  <2> DEFINE shown == [S0Row EXCEPT !.form = 0]
  <2>3. shown \in Row /\ Later(S0Row, shown) /\ Later(shown, S0Row) /\ shown.there = S0Row.there
    BY <2>2 DEF Row, Later
  <2>4. WithS0 = <<S0Row>> /\ Shown = <<shown>>
    BY <1>1 DEF WithS0, Shown
  <2> HIDE DEF shown
  <2>5. /\ WithS0 \in Seq(Row) /\ Len(WithS0) = 1 /\ DOMAIN WithS0 = {1} /\ WithS0[1] = S0Row
        /\ Shown \in Seq(Row) /\ Len(Shown) = 1 /\ DOMAIN Shown = {1} /\ Shown[1] = shown
    BY <2>2, <2>3, <2>4
  <2>6. QED
    BY <1>1, <2>1, <2>2, <2>3, <2>4, <2>5
<1>2. CASE ~Pending
  <2>1. WithS0 = rows /\ Shown = rows /\ rows \in Seq(Row)
    BY <1>2 DEF WithS0, Shown, RowTypes
  <2>2. QED
    BY <1>2, <2>1 DEF Later
<1>3. QED
  BY <1>1, <1>2

\* A row more, and some old ones evicted.
LEMMA OneMore ==
  ASSUME rows \in Seq(Row), NEW row \in Row
  PROVE  /\ Trimmed(Append(rows, row)) \in Seq(Row) /\ Len(rows) \in Nat
         /\ Len(Trimmed(Append(rows, row))) = Len(rows) + 1
         /\ Len(rows) + 1 \in DOMAIN Trimmed(Append(rows, row)) /\ Len(rows) + 1 \notin DOMAIN rows
         /\ Trimmed(Append(rows, row))[Len(rows) + 1] = row
         /\ Grown(Trimmed(Append(rows, row)), {row})
<1> DEFINE rs == Append(rows, row)
<1>1. /\ Len(rows) \in Nat /\ DOMAIN rows = 1..Len(rows)
      /\ rs \in Seq(Row) /\ rs # <<>> /\ Len(rs) = Len(rows) + 1 /\ DOMAIN rs = 1..(Len(rows) + 1)
      /\ \A i \in 1..Len(rows) : rs[i] = rows[i]
      /\ rs[Len(rows) + 1] = row
  BY Appended
<1> HIDE DEF rs
<1>2. /\ Trimmed(rs) \in Seq(Row) /\ Len(Trimmed(rs)) = Len(rs)
      /\ \A i \in DOMAIN rs : /\ Later(rs[i], Trimmed(rs)[i])
                              /\ Trimmed(rs)[i].evicted \/ Trimmed(rs)[i] = rs[i]
      /\ Trimmed(rs)[Len(rs)] = rs[Len(rs)]
  BY <1>1, TrimmedIs
<1>3. DOMAIN Trimmed(rs) = 1..(Len(rows) + 1)
  BY <1>1, <1>2, Members
<1>4. \A i \in DOMAIN rows : i \in DOMAIN rs /\ rs[i] = rows[i]
  BY <1>1
<1>5. \A i \in DOMAIN Trimmed(rs) \ DOMAIN rows : Trimmed(rs)[i] = row
  BY <1>1, <1>2, <1>3
<1>6. DOMAIN rows \subseteq DOMAIN Trimmed(rs)
  BY <1>1, <1>3
<1>7. \A i \in DOMAIN rows : /\ Later(rows[i], Trimmed(rs)[i])
                             /\ Trimmed(rs)[i].evicted \/ Trimmed(rs)[i].there = rows[i].there
  BY <1>2, <1>4
<1>8. Len(rows) + 1 \notin DOMAIN rows
  BY <1>1
<1>9. Grown(Trimmed(rs), {row})
  BY <1>2, <1>5, <1>6, <1>7 DEF Grown
<1>10. QED
  BY <1>1, <1>2, <1>3, <1>8, <1>9 DEF rs

\* CheckpointStore.add keeps what there is and adds its row, and the S0 that was held back.
LEMMA AddedIs ==
  ASSUME RowTypes, NEW row \in Row
  PROVE  /\ Added(row) \in Seq(Row) /\ Len(WithS0) \in Nat /\ Len(Added(row)) = Len(WithS0) + 1
         /\ Len(WithS0) + 1 \in DOMAIN Added(row) /\ Len(WithS0) + 1 \notin DOMAIN rows
         /\ Added(row)[Len(WithS0) + 1] = row
         /\ Grown(Added(row), {row} \cup {x \in {S0Row} : Pending})
<1> DEFINE rs == Append(WithS0, row)
<1>1. WithS0 \in Seq(Row)
  BY WithS0Is
<1>2. /\ Len(WithS0) \in Nat /\ DOMAIN WithS0 = 1..Len(WithS0)
      /\ rs \in Seq(Row) /\ rs # <<>> /\ Len(rs) = Len(WithS0) + 1 /\ DOMAIN rs = 1..(Len(WithS0) + 1)
      /\ \A i \in 1..Len(WithS0) : rs[i] = WithS0[i]
      /\ rs[Len(WithS0) + 1] = row
  BY <1>1, Appended
<1> HIDE DEF rs
<1>3. Added(row) = Trimmed(rs)
  BY DEF Added, rs
<1>4. /\ Trimmed(rs) \in Seq(Row) /\ Len(Trimmed(rs)) = Len(rs)
      /\ \A i \in DOMAIN rs : /\ Later(rs[i], Trimmed(rs)[i])
                              /\ Trimmed(rs)[i].evicted \/ Trimmed(rs)[i] = rs[i]
      /\ Trimmed(rs)[1] = rs[1] /\ Trimmed(rs)[Len(rs)] = rs[Len(rs)]
  BY <1>2, TrimmedIs
<1>5. DOMAIN Trimmed(rs) = 1..(Len(WithS0) + 1)
  BY <1>2, <1>4, Members
<1>6. CASE Pending
  <2>1. WithS0 = <<S0Row>> /\ rows = <<>>
    BY <1>6, WithS0Is
  <2>2. Len(WithS0) = 1 /\ WithS0[1] = S0Row /\ DOMAIN rows = {}
    BY <2>1
  <2>3. \A i \in DOMAIN Trimmed(rs) : Trimmed(rs)[i] \in {row, S0Row}
    BY <1>2, <1>4, <1>5, <2>2
  <2>4. QED
    BY <1>2, <1>3, <1>4, <1>5, <1>6, <2>2, <2>3 DEF Grown
<1>7. CASE ~Pending
  <2>1. WithS0 = rows
    BY <1>7, WithS0Is
  <2>2. Added(row) = Trimmed(Append(rows, row)) /\ rows \in Seq(Row)
    BY <1>1, <1>3, <2>1 DEF rs
  <2>3. Grown(Added(row), {row} \cup {x \in {S0Row} : Pending})
    BY <2>2, OneMore DEF Grown
  <2>4. QED
    BY <2>1, <2>2, <2>3, OneMore
<1>8. QED
  BY <1>6, <1>7

\* The newest of some rows.
LEMMA NewestIs ==
  ASSUME NEW rs \in Seq(Row), NEW S, S \subseteq DOMAIN rs, S # {}
  PROVE  Newest(S) \in S /\ \A j \in S : j <= Newest(S)
<1>1. Len(rs) \in Nat /\ DOMAIN rs = 1..Len(rs)
  BY Members
<1>2. S \subseteq Nat /\ \A j \in S : j <= Len(rs)
  BY <1>1
<1>3. \E i \in S : \A j \in S : j <= i
  BY <1>1, <1>2, GreatestExists
<1>4. QED
  BY <1>3 DEF Newest

\* The row an undo restores is of the highest revision below the effective one.
LEMMA TargetIs ==
  ASSUME RowTypes, Candidates # {}
  PROVE  /\ Target \in Candidates
         /\ \A j \in Candidates : Shown[j].rev < Shown[Target].rev \/ (Shown[j].rev = Shown[Target].rev /\ j <= Target)
<1>1. Shown \in Seq(Row)
  BY WithS0Is
<1>2. /\ Candidates \subseteq DOMAIN Shown
      /\ \A i \in DOMAIN Shown : i \in Nat /\ Shown[i].rev \in Nat /\ Shown[i].rev <= MaxRev
  <2>1. Candidates \subseteq DOMAIN Shown
    BY DEF Candidates, Live
  <2>2. \A i \in DOMAIN Shown : i \in Nat /\ Shown[i] \in Row
    BY <1>1, Members
  <2>3. MaxRev \in Nat
    BY UndoAssumption
  <2>4. QED
    BY <2>1, <2>2, <2>3 DEF Row, Revs
<1> DEFINE revs == {Shown[i].rev : i \in Candidates}
<1>3. PICK r \in revs : \A q \in revs : q <= r
  <2>1. revs \subseteq Nat /\ revs # {} /\ MaxRev \in Nat /\ \A q \in revs : q <= MaxRev
    BY <1>2, UndoAssumption
  <2> HIDE DEF revs
  <2>2. QED
    BY <2>1, GreatestExists
<1> DEFINE S == {i \in Candidates : Shown[i].rev = r}
<1>4. S # {} /\ S \subseteq DOMAIN Shown
  BY <1>2, <1>3
<1>5. Newest(S) \in S /\ \A j \in S : j <= Newest(S)
  <2> HIDE DEF S
  <2>1. QED
    BY <1>1, <1>4, NewestIs
<1>6. \A j \in Candidates : Shown[j].rev <= r
  BY <1>3
<1> DEFINE i == Newest(S)
<1>7. i \in Candidates /\ Shown[i].rev = r
  BY <1>5
<1>8. ASSUME NEW j \in Candidates
      PROVE  Shown[j].rev < Shown[i].rev \/ (Shown[j].rev = Shown[i].rev /\ j <= i)
  <2>1. CASE Shown[j].rev = r
    BY <1>5, <1>7, <2>1
  <2>2. CASE Shown[j].rev # r
    BY <1>2, <1>6, <1>7, <2>2
  <2>3. QED
    BY <2>1, <2>2
<1> HIDE DEF i
<1>9. \E x \in Candidates : \A j \in Candidates :
        Shown[j].rev < Shown[x].rev \/ (Shown[j].rev = Shown[x].rev /\ j <= x)
  BY <1>7, <1>8
<1>10. QED
  BY <1>9 DEF Target

\* The row that holds what an undo or a restore replaces.
LEMMA CapturedIs ==
  ASSUME RowTypes, rev \in Revs, Effective \in Revs, NEW kind \in {"pre_undo", "pre_restore"}, NEW f \in Forms
  PROVE  /\ Captured(kind, f) \in Seq(Row)
         /\ Grown(Captured(kind, f), {NewRow(kind, rev, Effective, f)} \cup {x \in {S0Row} : Pending})
         /\ Before \in DOMAIN Captured(kind, f)
         /\ Captured(kind, f)[Before].rev = rev /\ ~Captured(kind, f)[Before].evicted
         /\ \/ Holding # {} /\ Before \in Holding /\ Captured(kind, f) = rows
            \/ /\ Holding = {} /\ Before \notin DOMAIN rows
               /\ Captured(kind, f)[Before] = NewRow(kind, rev, Effective, f)
<1>1. CASE Holding # {}
  <2>1. Captured(kind, f) = rows /\ Before = Newest(Holding) /\ rows \in Seq(Row)
    BY <1>1 DEF Captured, Before, RowTypes
  <2>2. Holding \subseteq DOMAIN rows /\ \A i \in Holding : rows[i].rev = rev /\ ~rows[i].evicted
    BY DEF Holding, Live
  <2>3. Before \in Holding
    BY <1>1, <2>1, <2>2, NewestIs
  <2>4. Grown(rows, {NewRow(kind, rev, Effective, f)} \cup {x \in {S0Row} : Pending})
    BY <2>1 DEF Grown, Later
  <2>5. QED
    BY <1>1, <2>1, <2>2, <2>3, <2>4
<1>2. CASE Holding = {}
  <2> DEFINE row == NewRow(kind, rev, Effective, f)
  <2>1. Captured(kind, f) = Added(row) /\ Before = Len(WithS0) + 1
    BY <1>2 DEF Captured, Before
  <2>2. row \in Row /\ row.rev = rev /\ ~row.evicted
    BY NewRowType DEF RowTypes
  <2> HIDE DEF row
  <2>3. /\ Added(row) \in Seq(Row)
        /\ Len(WithS0) + 1 \in DOMAIN Added(row) /\ Len(WithS0) + 1 \notin DOMAIN rows
        /\ Added(row)[Len(WithS0) + 1] = row
        /\ Grown(Added(row), {row} \cup {x \in {S0Row} : Pending})
    BY <2>2, AddedIs
  <2>4. QED
    BY <1>2, <2>1, <2>2, <2>3 DEF row
<1>3. QED
  BY <1>1, <1>2

-------------------------------------------------------------------------------
(* Types *)

Trails(r) == Seq([rev : 0..(r - 1), as : Revs])
PointsTo(r) ==
  {p \in [rev : Revs, base : Revs, trail : Seq([rev : Revs, as : Revs]), strayed : BOOLEAN] :
     p.rev <= r /\ p.base <= p.rev /\ p.trail \in Trails(p.rev)}

Scalars ==
  /\ depth \in Depths /\ up \in BOOLEAN /\ rev \in Revs /\ hist \in [Revs -> Revs]
  /\ base \in Revs \cup {None} /\ sha \in Forms \cup {0} /\ strayed \in BOOLEAN
  /\ base # None => base <= rev

\* Every snapshot is of a revision that was; together they are no more than the depth.
Stacks ==
  /\ undoStack \in Seq(0..rev) /\ redoStack \in Seq(0..rev)
  /\ \A i \in DOMAIN parkedRedo : parkedRedo[i] \in Seq(0..rev) /\ Len(parkedRedo[i]) <= depth
  /\ depth = 0 => undoStack = <<>> /\ redoStack = <<>>
  /\ depth > 0 => Len(undoStack) + Len(redoStack) <= depth + 1
  /\ depth > 0 /\ up => undoStack # <<>>

RowsTyped ==
  /\ rows \in Seq(Row) /\ Len(rows) <= MaxRows
  /\ \A i \in DOMAIN rows : rows[i].base <= rows[i].rev /\ rows[i].rev <= rev
  /\ s0 \in [rev : Revs, form : Forms \cup {0}] \cup {None}
  /\ s0 # None => s0.rev = 0

\* What names rows names rows that there are.
Named ==
  /\ DOMAIN parkedRedo \subseteq DOMAIN rows
  /\ storeRedo \in Seq(DOMAIN rows)
  /\ replaced \in DOMAIN rows \cup {None}

Past ==
  /\ begins \in Seq(PointsTo(rev)) /\ Len(begins) <= MaxBegins
  /\ saved \in [rev : Revs, content : Revs, form : Forms, trail : Seq([rev : Revs, as : Revs]),
                strayed : BOOLEAN] \cup {None}
  /\ saved # None => saved.rev <= rev /\ saved.trail \in Trails(saved.rev)
  /\ trail \in Trails(rev)

\* A drawing that is not open is on disk, and nothing is left of its session.
Shut ==
  ~up => /\ saved # None /\ base = None /\ sha = 0
         /\ undoStack = <<>> /\ redoStack = <<>> /\ begins = <<>> /\ s0 = None
         /\ storeRedo = <<>> /\ parkedRedo = Empty
         /\ trail = <<>> /\ replaced = None

TypeInv == Scalars /\ Stacks /\ RowsTyped /\ Named /\ Past /\ Shut

\* Revisions are numbers; None is none.
LEMMA Numbers ==
  /\ MaxRev \in Nat /\ Revs \subseteq Nat /\ None \notin Nat /\ None \notin Revs
  /\ \A d \in Depths : d \in Nat
  /\ 0 \in Revs /\ 0 \notin Forms
  /\ \A r \in Revs : r \in Nat /\ 0 <= r /\ r <= MaxRev
  /\ \A r \in Nat : r <= MaxRev => r \in Revs
BY UndoAssumption DEF Revs

LEMMA Monotone ==
  ASSUME NEW r \in Nat, NEW q \in Nat, r <= q
  PROVE  /\ \A s \in Seq(0..r) : s \in Seq(0..q)
         /\ \A s \in Trails(r) : s \in Trails(q)
         /\ \A s \in Seq(PointsTo(r)) : s \in Seq(PointsTo(q))
<1>1. 0..r \subseteq 0..q
  OBVIOUS
<1>2. [rev : 0..(r - 1), as : Revs] \subseteq [rev : 0..(q - 1), as : Revs]
  <2>1. 0..(r - 1) \subseteq 0..(q - 1)
    OBVIOUS
  <2>2. QED
    BY <2>1
<1>3. PointsTo(r) \subseteq PointsTo(q)
  <2> DEFINE S == [rev : Revs, base : Revs, trail : Seq([rev : Revs, as : Revs]), strayed : BOOLEAN]
  <2>1. \A p \in S : p.rev \in Nat
    BY Numbers
  <2>2. /\ PointsTo(r) = {p \in S : p.rev <= r /\ p.base <= p.rev /\ p.trail \in Trails(p.rev)}
        /\ PointsTo(q) = {p \in S : p.rev <= q /\ p.base <= p.rev /\ p.trail \in Trails(p.rev)}
    BY DEF PointsTo
  <2> HIDE DEF S
  <2>3. QED
    BY <2>1, <2>2
<1>4. ASSUME NEW s \in Seq(0..r) PROVE s \in Seq(0..q)
  BY <1>1, SeqMonotonic
<1>5. ASSUME NEW s \in Trails(r) PROVE s \in Trails(q)
  <2> DEFINE A == [rev : 0..(r - 1), as : Revs]
             B == [rev : 0..(q - 1), as : Revs]
  <2>1. A \subseteq B /\ s \in Seq(A) /\ Trails(q) = Seq(B)
    BY <1>2 DEF Trails
  <2> HIDE DEF A, B
  <2>2. QED
    BY <2>1, SeqMonotonic
<1>6. ASSUME NEW s \in Seq(PointsTo(r)) PROVE s \in Seq(PointsTo(q))
  BY <1>3, SeqMonotonic
<1>7. QED
  BY <1>4, <1>5, <1>6

\* What an undo steps back from is a revision, and not a later one.
LEMMA EffectiveType ==
  ASSUME Scalars
  PROVE  Effective \in Revs /\ Effective <= rev /\ rev \in Nat /\ Effective \in Nat
BY Numbers DEF Scalars, Effective

LEMMA BeginTypes ==
  ASSUME TypeInv, begins # <<>>
  PROVE  /\ Len(begins) \in DOMAIN begins /\ Last(begins) = begins[Len(begins)]
         /\ Last(begins) \in PointsTo(rev) /\ Front(begins) \in Seq(PointsTo(rev))
         /\ Len(Front(begins)) = Len(begins) - 1 /\ Len(begins) \in Nat
         /\ DOMAIN Front(begins) = 1..(Len(begins) - 1) /\ DOMAIN begins = 1..Len(begins)
         /\ \A i \in 1..(Len(begins) - 1) : Front(begins)[i] = begins[i]
BY FrontLast, Members DEF TypeInv, Past

\* The types are those of TypeOK.
LEMMA TypeInvIsTypeOK == TypeInv => TypeOK
<1> SUFFICES ASSUME TypeInv PROVE TypeOK
  OBVIOUS
<1> USE DEF TypeInv, Scalars, Stacks, RowsTyped, Named, Past
<1>1. 0..rev \subseteq Revs /\ rev \in Nat /\ depth \in Nat
  <2>1. rev \in Nat /\ rev <= MaxRev /\ MaxRev \in Nat /\ depth \in Nat
    BY Numbers
  <2>2. \A r \in 0..rev : r \in Nat /\ r <= MaxRev
    BY <2>1
  <2>3. QED
    BY <2>1, <2>2, Numbers
<1>2. undoStack \in Seq(Revs) /\ redoStack \in Seq(Revs) /\ \A i \in DOMAIN parkedRedo : parkedRedo[i] \in Seq(Revs)
  BY <1>1, SeqMonotonic
<1>3. trail \in Seq([rev : Revs, as : Revs])
  <2>1. [rev : 0..(rev - 1), as : Revs] \subseteq [rev : Revs, as : Revs]
    BY <1>1 DEF Revs
  <2> DEFINE A == [rev : 0..(rev - 1), as : Revs]
             B == [rev : Revs, as : Revs]
  <2>2. A \subseteq B /\ trail \in Seq(A)
    BY <2>1 DEF Trails
  <2> HIDE DEF A
  <2>3. trail \in Seq(B)
    <3> HIDE DEF B
    <3>1. QED
      BY <2>2, SeqMonotonic
  <2>4. QED
    BY <2>3
<1>4. begins \in Seq([rev : Revs, base : Revs, trail : Seq([rev : Revs, as : Revs]), strayed : BOOLEAN])
  <2>1. PointsTo(rev) \subseteq [rev : Revs, base : Revs, trail : Seq([rev : Revs, as : Revs]), strayed : BOOLEAN]
    BY DEF PointsTo
  <2>2. QED
    BY <2>1, SeqMonotonic
<1>5. Len(undoStack) <= depth + 1 /\ Len(redoStack) <= depth
  <2>1. Len(undoStack) \in Nat /\ Len(redoStack) \in Nat
    BY Members
  <2>2. CASE depth = 0
    BY <2>2, EmptySeq
  <2>3. CASE depth > 0 /\ up
    BY <1>1, <2>1, <2>3, EmptySeq
  <2>4. CASE ~up
    BY <1>1, <2>4, EmptySeq DEF Shut
  <2>5. QED
    BY <1>1, <2>2, <2>3, <2>4
<1>6. QED
  BY <1>2, <1>3, <1>4, <1>5 DEF TypeOK

-------------------------------------------------------------------------------
(* What a step does to the rows *)

\* A row that a call writes: the S0 that was held back, the current revision, or the
\* snapshot of a begin.
Known(n) ==
  /\ n \in Row /\ ~n.evicted /\ n.there
  /\ \/ n.kind = "new" /\ n.rev = 0 /\ n.base = 0 /\ n.content = hist[0]
     \/ n.rev = rev /\ n.base = Effective /\ n.content = hist[rev]
     \/ \E k \in DOMAIN begins : /\ n.kind = "transaction"
                                 /\ n.rev = begins[k].rev /\ n.base = begins[k].base
                                 /\ n.content = hist[begins[k].rev]

KnownRows == {n \in Row : Known(n)}

LEMMA Rowed == TypeInv => RowTypes /\ Scalars /\ Effective \in Revs /\ rev \in Revs
BY EffectiveType DEF TypeInv, RowTypes, RowsTyped, Scalars

\* A row of the current revision is known, and so is the S0 that is held back.
LEMMA WrittenIsKnown ==
  ASSUME TypeInv, NEW kind \in {"save", "label", "pre_restore", "pre_undo"}, NEW f \in Forms
  PROVE  /\ NewRow(kind, rev, Effective, f) \in KnownRows
         /\ NewRow(kind, rev, Effective, f) \in Row
         /\ NewRow(kind, rev, Effective, f).kind = kind
         /\ Pending => S0Row \in KnownRows /\ S0Row.kind = "new"
<1>1. /\ NewRow(kind, rev, Effective, f) \in KnownRows
      /\ NewRow(kind, rev, Effective, f) \in Row
      /\ NewRow(kind, rev, Effective, f).kind = kind
  BY Rowed, NewRowType DEF RowTypes, KnownRows, Known
<1>2. Pending => S0Row \in KnownRows /\ S0Row.kind = "new"
  BY Rowed, WithS0Is DEF KnownRows, Known
<1>3. QED
  BY <1>1, <1>2

LEMMA ClosedIsKnown ==
  ASSUME TypeInv, begins # <<>>, NEW f \in Forms
  PROVE  /\ Closed(Last(begins), f) \in KnownRows
         /\ Closed(Last(begins), f) \in Row
         /\ Closed(Last(begins), f).kind = "transaction"
<1>1. Last(begins) \in PointsTo(rev) /\ Last(begins) = begins[Len(begins)] /\ Len(begins) \in DOMAIN begins
  BY BeginTypes
<1>2. Last(begins).rev \in Revs /\ Last(begins).base \in Revs
  BY <1>1 DEF PointsTo
<1> DEFINE c == Closed(Last(begins), f)
<1>3. /\ c \in Row /\ c.kind = "transaction" /\ ~c.evicted /\ c.there
      /\ c.rev = Last(begins).rev /\ c.base = Last(begins).base /\ c.content = hist[Last(begins).rev]
  BY <1>2, Rowed, NewRowType DEF Closed, RowTypes
<1> HIDE DEF c
<1>4. Known(c)
  BY <1>1, <1>3 DEF Known
<1>5. QED
  BY <1>3, <1>4 DEF KnownRows, c

\* More is written than what N says only by a mistake.
LEMMA GrownMore ==
  ASSUME NEW rs, NEW N, NEW M, Grown(rs, N), N \subseteq M
  PROVE  Grown(rs, M)
BY DEF Grown

\* Every step but a reopening keeps the rows and writes known ones; a pre_undo row is
\* behind the revision, but where its undo did not load.
RowsGo ==
  /\ Grown(rows', KnownRows) /\ Len(rows') <= MaxRows
  /\ \A i \in DOMAIN rows' \ DOMAIN rows :
       rows'[i].kind = "pre_undo" => rev' = rev + 1 \/ "load" \in Mishaps

LEMMA CapturesGo ==
  ASSUME TypeInv, NEW kind \in {"pre_undo", "pre_restore"}, NEW f \in Forms,
         rows' = Captured(kind, f), Fits, rev' = rev + 1 \/ "load" \in Mishaps
  PROVE  RowsGo
<1>1. Grown(rows', {NewRow(kind, rev, Effective, f)} \cup {x \in {S0Row} : Pending})
  BY Rowed, CapturedIs
<1>2. {NewRow(kind, rev, Effective, f)} \cup {x \in {S0Row} : Pending} \subseteq KnownRows
  BY WrittenIsKnown
<1>3. QED
  BY <1>1, <1>2, GrownMore DEF RowsGo, Fits

LEMMA AddsGo ==
  ASSUME TypeInv, NEW row \in Row, row \in KnownRows, row.kind # "pre_undo", rows' = Added(row), Fits
  PROVE  RowsGo
<1>1. Grown(rows', {row} \cup {x \in {S0Row} : Pending})
  BY Rowed, AddedIs
<1>2. \A f \in Forms : Pending => S0Row \in KnownRows /\ S0Row.kind = "new"
  BY WrittenIsKnown
<1>3. Pending => S0Row \in KnownRows /\ S0Row.kind = "new"
  BY <1>2, UndoAssumption
<1>4. {row} \cup {x \in {S0Row} : Pending} \subseteq {n \in KnownRows : n.kind # "pre_undo"}
  BY <1>3
<1>5. Grown(rows', {n \in KnownRows : n.kind # "pre_undo"})
  BY <1>1, <1>4, GrownMore
<1>6. Grown(rows', KnownRows)
  BY <1>5, GrownMore
<1>7. QED
  BY <1>5, <1>6 DEF RowsGo, Fits, Grown

LEMMA KeepsGo ==
  ASSUME TypeInv, rows' = rows
  PROVE  RowsGo
BY DEF TypeInv, RowsTyped, RowsGo, Grown, Later

LEMMA RowsStep ==
  ASSUME TypeInv, [Next]_vars, ~Reopen
  PROVE  RowsGo
<1>1. CASE UndoInStore
  <2>1. PICK f \in Forms : rows' = Captured("pre_undo", f)
    BY <1>1 DEF UndoInStore
  <2>2. rev' = rev + 1 /\ Fits
    BY <1>1 DEF UndoInStore, Replace, Becomes
  <2>3. QED
    BY <2>1, <2>2, CapturesGo
<1>2. CASE UndoDoesNotLoad
  <2>1. PICK f \in Forms : rows' = Captured("pre_undo", f)
    BY <1>2 DEF UndoDoesNotLoad
  <2>2. "load" \in Mishaps /\ Fits
    BY <1>2 DEF UndoDoesNotLoad
  <2>3. QED
    BY <2>1, <2>2, CapturesGo
<1>3. CASE Restore
  <2>1. PICK f \in Forms : rows' = Captured("pre_restore", f)
    BY <1>3 DEF Restore
  <2>2. rev' = rev + 1 /\ Fits
    BY <1>3 DEF Restore, Replace, Becomes
  <2>3. QED
    BY <2>1, <2>2, CapturesGo
<1>4. CASE Label
  <2>1. PICK f \in Forms : rows' = Added(NewRow("label", rev, Effective, f))
    BY <1>4 DEF Label
  <2>2. Fits
    BY <1>4 DEF Label
  <2> DEFINE row == NewRow("label", rev, Effective, f)
  <2>3. row \in Row /\ row \in KnownRows /\ row.kind = "label"
    BY WrittenIsKnown
  <2> HIDE DEF row
  <2>4. rows' = Added(row)
    BY <2>1 DEF row
  <2>5. QED
    BY <2>2, <2>3, <2>4, AddsGo
<1>5. CASE Save
  <2>1. Fits
    BY <1>5 DEF Save
  <2>2. \/ \E f \in Forms : rows' = Added(NewRow("save", rev, Effective, f))
        \/ rows' = WithS0
        \/ rows' = rows
    BY <1>5 DEF Save
  <2>3. ASSUME NEW f \in Forms, rows' = Added(NewRow("save", rev, Effective, f)) PROVE RowsGo
    <3> DEFINE row == NewRow("save", rev, Effective, f)
    <3>1. row \in Row /\ row \in KnownRows /\ row.kind = "save"
      BY WrittenIsKnown
    <3> HIDE DEF row
    <3>2. rows' = Added(row)
      BY <2>3 DEF row
    <3>3. QED
      BY <2>1, <3>1, <3>2, AddsGo
  <2>4. CASE rows' = WithS0 /\ Pending
    <3>1. PICK f \in Forms : TRUE
      BY UndoAssumption
    <3>2. S0Row \in KnownRows /\ S0Row.kind = "new" /\ S0Row \in Row
      BY <2>4, <3>1, WrittenIsKnown DEF KnownRows
    <3>3. rows' = <<S0Row>> /\ rows = <<>>
      BY <2>4, Rowed, WithS0Is
    <3> HIDE DEF KnownRows
    <3>4. rows' \in Seq(Row) /\ DOMAIN rows' = {1} /\ rows'[1] = S0Row /\ DOMAIN rows = {}
      BY <3>2, <3>3
    <3>5. QED
      BY <2>1, <3>2, <3>4 DEF RowsGo, Grown, Fits
  <2>5. QED
    BY <2>2, <2>3, <2>4, KeepsGo, Rowed, WithS0Is
<1>6. CASE Commit
  <2>1. PICK f \in Forms : rows' = Added(Closed(Last(begins), f))
    BY <1>6 DEF Commit
  <2>2. begins # <<>> /\ Fits
    BY <1>6 DEF Commit
  <2>3. QED
    BY <2>1, <2>2, ClosedIsKnown, AddsGo
<1>7. CASE Rollback
  <2>1. PICK f \in Forms : rows' = Added(Closed(Last(begins), f))
    BY <1>7 DEF Rollback
  <2>2. begins # <<>> /\ Fits
    BY <1>7 DEF Rollback
  <2>3. QED
    BY <2>1, <2>2, ClosedIsKnown, AddsGo
<1>8. CASE BudgetEvicts
  <2>1. PICK n \in DOMAIN rows : Budget(n)
    BY <1>8 DEF BudgetEvicts
  <2> DEFINE gone == {i \in Live(rows) : i <= n /\ rows[i].form # 0}
             Cut(r, marked) == [r EXCEPT !.evicted = marked, !.there = FALSE]
  <2>2. PICK marked \in {TRUE} \cup (IF "cut" \in Mishaps THEN {FALSE} ELSE {}) :
          rows' = [i \in DOMAIN rows |-> IF i \in gone THEN Cut(rows[i], marked) ELSE rows[i]]
    BY <2>1 DEF Budget
  <2>3. marked \in BOOLEAN /\ (marked \/ "cut" \in Mishaps)
    BY <2>2
  <2>4. \A i \in gone : ~rows[i].evicted
    BY DEF Live
  <2> HIDE DEF gone
  <2>5. rows \in Seq(Row) /\ Len(rows) <= MaxRows /\ \A i \in DOMAIN rows : rows[i] \in Row
    BY Members DEF TypeInv, RowsTyped
  <2>6. ASSUME NEW r \in Row
        PROVE  /\ Cut(r, marked) \in Row /\ Later(r, r)
               /\ ~r.evicted => Later(r, Cut(r, marked))
               /\ "cut" \in Mishaps \/ Cut(r, marked).evicted
    BY <2>3 DEF Row, Later
  <2> HIDE DEF Cut
  <2>7. rows' \in [DOMAIN rows -> Row]
    BY <2>2, <2>5, <2>6
  <2>8. rows' \in Seq(Row) /\ Len(rows') = Len(rows)
    BY <2>5, <2>7, SameLength
  <2>9. DOMAIN rows' = DOMAIN rows
    BY <2>7
  <2>10. \A i \in DOMAIN rows : /\ Later(rows[i], rows'[i])
                                /\ "cut" \in Mishaps \/ rows'[i].evicted \/ rows'[i].there = rows[i].there
    BY <2>2, <2>4, <2>5, <2>6
  <2>11. Grown(rows', KnownRows)
    BY <2>8, <2>9, <2>10 DEF Grown
  <2>12. QED
    BY <2>5, <2>8, <2>9, <2>11 DEF RowsGo
<1>9. CASE rows' = rows
  BY <1>9, KeepsGo
<1>10. QED
  BY <1>1, <1>2, <1>3, <1>4, <1>5, <1>6, <1>7, <1>8, <1>9
     DEF Next, vars, Edit, UndoInMemory, RedoInMemory, RedoInStore, Begin, Leave

-------------------------------------------------------------------------------
(* Types are kept *)

\* What is shown is a row.
LEMMA ShownTypes ==
  ASSUME TypeInv
  PROVE  \A i \in DOMAIN Shown :
           /\ Shown[i] \in Row /\ Shown[i].content \in Revs
           /\ Shown[i].rev \in Revs /\ Shown[i].base \in Revs /\ Shown[i].form \in Forms \cup {0}
           /\ Shown[i].rev <= rev /\ Shown[i].base <= Shown[i].rev
<1> SUFFICES ASSUME NEW i \in DOMAIN Shown
             PROVE  /\ Shown[i] \in Row /\ Shown[i].rev <= rev /\ Shown[i].base <= Shown[i].rev
  BY DEF Row
<1>1. Shown \in Seq(Row)
  BY Rowed, WithS0Is
<1>2. Shown[i] \in Row
  BY <1>1, Members
<1>3. CASE Pending
  <2>1. i \in DOMAIN WithS0 /\ Later(WithS0[i], Shown[i]) /\ WithS0 = <<S0Row>> /\ S0Row.rev = 0 /\ S0Row.base = 0
    BY <1>3, Rowed, WithS0Is
  <2>2. Shown[i].rev = 0 /\ Shown[i].base = 0
    BY <2>1 DEF Later
  <2>3. 0 <= rev /\ rev \in Nat
    BY Numbers DEF TypeInv, Scalars
  <2>4. QED
    BY <1>2, <2>2, <2>3
<1>4. CASE ~Pending
  BY <1>2, <1>4, Rowed, WithS0Is DEF TypeInv, RowsTyped
<1>5. QED
  BY <1>3, <1>4

\* The rows that a call may choose are shown.
LEMMA ChosenIsShown ==
  ASSUME TypeInv
  PROVE  /\ Live(Shown) \subseteq DOMAIN Shown
         /\ Candidates # {} => Target \in DOMAIN Shown /\ Target \in Candidates
         /\ storeRedo # <<>> =>
              /\ Last(storeRedo) \in DOMAIN Shown /\ Shown = rows /\ ~Pending
              /\ Last(storeRedo) \in DOMAIN rows
<1>1. Live(Shown) \subseteq DOMAIN Shown /\ Candidates \subseteq DOMAIN Shown
  BY DEF Live, Candidates
<1>2. Candidates # {} => Target \in Candidates
  BY Rowed, TargetIs
<1>3. ASSUME storeRedo # <<>>
      PROVE  Last(storeRedo) \in DOMAIN rows /\ ~Pending
  <2>1. Last(storeRedo) \in DOMAIN rows
    BY <1>3, FrontLast DEF TypeInv, Named
  <2>2. rows # <<>>
    BY <2>1
  <2>3. QED
    BY <2>1, <2>2 DEF Pending
<1>4. QED
  BY <1>1, <1>2, <1>3, Rowed, WithS0Is

\* The revision does not go back, and only a reopening names another content.
Moves ==
  /\ rev' \in Revs /\ hist' \in [Revs -> Revs]
  /\ \/ rev' = rev /\ hist' = hist
     \/ rev' = rev + 1 /\ \A r \in 0..rev : hist'[r] = hist[r]
     \/ Reopen /\ rev' = rev /\ ~(saved.rev < rev) /\ hist' = [hist EXCEPT ![rev] = saved.content]

LEMMA BecomesMoves ==
  ASSUME Scalars, NEW c \in Revs, Becomes(c)
  PROVE  Moves /\ rev' = rev + 1 /\ hist'[rev + 1] = c /\ rev + 1 \in Revs
<1>1. rev \in Nat /\ rev < MaxRev /\ rev' = rev + 1 /\ hist' = [hist EXCEPT ![rev + 1] = c]
  BY Numbers DEF Becomes, Scalars
<1>2. rev + 1 \in Revs /\ \A r \in 0..rev : r # rev + 1 /\ r \in Revs
  BY <1>1, Numbers DEF Revs
<1>3. hist' \in [Revs -> Revs] /\ hist'[rev + 1] = c /\ \A r \in 0..rev : hist'[r] = hist[r]
  BY <1>1, <1>2 DEF Scalars
<1>4. QED
  BY <1>1, <1>2, <1>3 DEF Moves

\* What every change draws is the content of a revision.
Drawn ==
  \/ Edit /\ Becomes(rev + 1) /\ rev + 1 \in Revs
  \/ \E h \in 0..rev : /\ UndoInMemory \/ RedoInMemory
                       /\ Becomes(hist[h]) /\ base' = h
  \/ \E i \in DOMAIN Shown : /\ UndoInStore \/ RedoInStore \/ Restore
                             /\ Becomes(Shown[i].content) /\ base' \in {None, Shown[i].base}
                             /\ sha' = Shown[i].form
  \/ /\ Rollback /\ begins # <<>>
     /\ Becomes(hist[Last(begins).rev]) /\ base' = Last(begins).base

LEMMA DrawnIs ==
  ASSUME TypeInv,
         Edit \/ UndoInMemory \/ UndoInStore \/ RedoInMemory \/ RedoInStore \/ Restore \/ Rollback
  PROVE  Drawn
<1>1. CASE Edit
  BY <1>1, Numbers DEF Edit, Becomes, Drawn, Revs, TypeInv, Scalars
<1>2. CASE UndoInMemory
  <2>1. Len(undoStack) >= 2 /\ DOMAIN undoStack = 1..Len(undoStack) /\ Len(undoStack) \in Nat
        /\ \A i \in DOMAIN undoStack : undoStack[i] \in 0..rev
    BY <1>2, Members DEF UndoInMemory, TypeInv, Stacks
  <2>2. undoStack[Len(undoStack) - 1] \in 0..rev
    BY <2>1
  <2>3. QED
    BY <1>2, <2>2 DEF UndoInMemory, Drawn
<1>3. CASE RedoInMemory
  <2>1. Last(redoStack) \in 0..rev
    BY <1>3, FrontLast DEF RedoInMemory, TypeInv, Stacks
  <2>2. QED
    BY <1>3, <2>1 DEF RedoInMemory, Drawn
<1>4. CASE UndoInStore
  <2>1. Target \in DOMAIN Shown
    BY <1>4, ChosenIsShown DEF UndoInStore
  <2>2. QED
    BY <1>4, <2>1 DEF UndoInStore, Drawn, Replace
<1>5. CASE RedoInStore
  <2>1. Last(storeRedo) \in DOMAIN Shown /\ Shown = rows
    BY <1>5, ChosenIsShown DEF RedoInStore
  <2>2. QED
    BY <1>5, <2>1 DEF RedoInStore, Drawn, Replace
<1>6. CASE Restore
  <2>1. PICK i \in Live(Shown) : Replace(i) /\ base' = RestoredBase(Shown[i])
    BY <1>6 DEF Restore
  <2>2. i \in DOMAIN Shown
    BY ChosenIsShown
  <2>3. QED
    BY <1>6, <2>1, <2>2 DEF Drawn, Replace, RestoredBase
<1>7. CASE Rollback
  BY <1>7 DEF Rollback, Drawn
<1>8. QED
  BY <1>1, <1>2, <1>3, <1>4, <1>5, <1>6, <1>7

\* A reopening has the saved content, at the revision it was saved at or past every other.
LEMMA ReopenMoves ==
  ASSUME TypeInv, Reopen
  PROVE  /\ Moves /\ rev' \in {rev, rev + 1} /\ hist'[rev'] = saved.content
         /\ (rev' = rev + 1) <=> saved.rev < rev
         /\ saved # None /\ saved.content \in Revs /\ saved.form \in Forms /\ saved.rev \in Revs /\ saved.rev <= rev
<1>1. /\ saved # None /\ saved.content \in Revs /\ saved.form \in Forms /\ saved.rev \in Revs /\ saved.rev <= rev
      /\ rev \in Nat /\ rev \in Revs /\ hist \in [Revs -> Revs]
  BY Numbers DEF TypeInv, Past, Shut, Scalars, Reopen
<1> DEFINE r == IF saved.rev < rev THEN rev + 1 ELSE rev
<1>2. rev' = r /\ hist' = [hist EXCEPT ![r] = saved.content] /\ r <= MaxRev
  BY DEF Reopen
<1>3. r \in Revs
  BY <1>1, <1>2, Numbers DEF Revs
<1>4. ASSUME NEW q \in 0..rev PROVE q \in Revs /\ q # rev + 1
  <2>1. q \in Nat /\ q <= rev /\ rev <= MaxRev /\ MaxRev \in Nat
    BY <1>1, Numbers
  <2>2. q <= MaxRev /\ q # rev + 1
    BY <1>1, <2>1
  <2>3. QED
    BY <2>1, <2>2, Numbers
<1>5. hist' \in [Revs -> Revs] /\ hist'[r] = saved.content
  BY <1>1, <1>2, <1>3
<1>6. CASE saved.rev < rev
  <2>1. rev' = rev + 1 /\ \A q \in 0..rev : hist'[q] = hist[q]
    BY <1>1, <1>2, <1>4, <1>6
  <2>2. QED
    BY <1>1, <1>2, <1>3, <1>5, <1>6, <2>1 DEF Moves
<1>7. CASE ~(saved.rev < rev)
  BY <1>1, <1>2, <1>3, <1>5, <1>7 DEF Moves
<1>8. QED
  BY <1>6, <1>7

LEMMA ScalarsKept ==
  ASSUME TypeInv, [Next]_vars
  PROVE  Scalars' /\ Moves
<1> USE DEF TypeInv
<1>1. rev \in Nat /\ 0 <= rev
  BY Numbers DEF Scalars
<1>2. CASE Edit \/ UndoInMemory \/ UndoInStore \/ RedoInMemory \/ RedoInStore \/ Restore \/ Rollback
  <2>1. UNCHANGED <<depth, up>> /\ strayed' \in BOOLEAN /\ sha' \in Forms \cup {0}
    <3>1. CASE Rollback
      BY <3>1, BeginTypes DEF Rollback, PointsTo
    <3>2. CASE UndoInStore \/ RedoInStore \/ Restore
      BY <3>2, ChosenIsShown, ShownTypes DEF UndoInStore, RedoInStore, Restore, Replace, Scalars
    <3>3. QED
      BY <1>2, <3>1, <3>2 DEF Edit, UndoInMemory, RedoInMemory, Scalars
  <2>2. CASE Edit
    <3>1. base' = None /\ Becomes(rev + 1) /\ rev + 1 \in Revs
      BY <2>2, DrawnIs, Numbers DEF Edit, Becomes, Revs, Scalars
    <3>2. QED
      BY <2>1, <3>1, BecomesMoves DEF Scalars, Moves
  <2>3. CASE \E h \in 0..rev : Becomes(hist[h]) /\ base' = h
    <3>1. PICK h \in 0..rev : Becomes(hist[h]) /\ base' = h
      BY <2>3
    <3>2. h \in Revs /\ hist[h] \in Revs /\ h <= rev + 1
      BY <1>1, Numbers DEF Revs, Scalars
    <3>3. QED
      BY <2>1, <3>1, <3>2, BecomesMoves DEF Scalars, Moves
  <2>4. CASE \E i \in DOMAIN Shown : Becomes(Shown[i].content) /\ base' \in {None, Shown[i].base}
    <3>1. PICK i \in DOMAIN Shown : Becomes(Shown[i].content) /\ base' \in {None, Shown[i].base}
      BY <2>4
    <3>2. Shown[i].content \in Revs /\ Shown[i].base \in Revs /\ Shown[i].base <= rev + 1
      <4>1. /\ Shown[i].content \in Revs /\ Shown[i].base \in Revs /\ Shown[i].rev \in Revs
            /\ Shown[i].base <= Shown[i].rev /\ Shown[i].rev <= rev
        BY ShownTypes
      <4>2. Shown[i].base \in Nat /\ Shown[i].rev \in Nat
        BY <4>1, Numbers
      <4>3. QED
        BY <1>1, <4>1, <4>2
    <3>3. QED
      BY <2>1, <3>1, <3>2, BecomesMoves DEF Scalars, Moves
  <2>5. CASE begins # <<>> /\ Becomes(hist[Last(begins).rev]) /\ base' = Last(begins).base
    <3>1. /\ Last(begins).rev \in Revs /\ Last(begins).base \in Revs
          /\ Last(begins).base <= Last(begins).rev /\ Last(begins).rev <= rev
      BY <2>5, BeginTypes DEF PointsTo
    <3>2. hist[Last(begins).rev] \in Revs /\ Last(begins).base \in Nat /\ Last(begins).rev \in Nat
      BY <3>1, Numbers DEF Scalars
    <3>3. Last(begins).base <= rev + 1
      BY <1>1, <3>1, <3>2
    <3>4. QED
      BY <2>1, <2>5, <3>1, <3>2, <3>3, BecomesMoves DEF Scalars, Moves
  <2>6. QED
    BY <1>2, <2>2, <2>3, <2>4, <2>5, DrawnIs DEF Drawn
<1>3. CASE Reopen
  <2>1. /\ Moves /\ rev' \in {rev, rev + 1} /\ saved # None /\ saved.form \in Forms
    BY <1>3, ReopenMoves
  <2>2. saved.strayed \in BOOLEAN
    BY <2>1 DEF Past
  <2>3. /\ depth' = depth /\ up' = TRUE /\ sha' = saved.form /\ strayed' \in BOOLEAN
    BY <1>3, <2>2 DEF Reopen
  <2>4. base' = None \/ \E i \in DOMAIN rows : base' = rows[i].base
    <3>1. Live(rows) # {} => Newest(Live(rows)) \in DOMAIN rows
      <4>1. Live(rows) \subseteq DOMAIN rows /\ rows \in Seq(Row)
        BY DEF Live, RowsTyped
      <4>2. QED
        BY <4>1, NewestIs
    <3>2. QED
      BY <1>3, <3>1 DEF Reopen, ReopenedBase
  <2>5. base' \in Revs \cup {None} /\ (base' # None => base' <= rev')
    <3>1. ASSUME NEW i \in DOMAIN rows PROVE rows[i].base \in Revs /\ rows[i].base <= rev'
      <4>1. rows[i] \in Row /\ rows[i].base <= rows[i].rev /\ rows[i].rev <= rev
        BY Members DEF RowsTyped
      <4>2. rows[i].base \in Revs /\ rows[i].rev \in Revs
        BY <4>1 DEF Row
      <4>3. rows[i].base \in Nat /\ rows[i].rev \in Nat
        BY <4>2, Numbers
      <4>4. QED
        BY <1>1, <2>1, <4>1, <4>2, <4>3
    <3>2. QED
      BY <2>4, <3>1
  <2>6. QED
    BY <2>1, <2>3, <2>5 DEF Scalars, Moves
<1>4. CASE UndoDoesNotLoad \/ Label \/ Save \/ Begin \/ Commit \/ BudgetEvicts \/ UNCHANGED vars
  <2>1. UNCHANGED <<depth, up, rev, hist, base, strayed>>
    BY <1>4 DEF UndoDoesNotLoad, Label, Save, Begin, Commit, BudgetEvicts, Budget, vars, memVars, ghosts
  <2>2. sha' = sha \/ sha' \in Forms
    BY <1>4 DEF UndoDoesNotLoad, Label, Save, Begin, Commit, BudgetEvicts, Budget, vars, memVars, ghosts
  <2>3. QED
    BY <2>1, <2>2 DEF Scalars, Moves
<1>5. CASE Leave
  BY <1>5 DEF Leave, Scalars, Moves
<1>6. QED
  BY <1>2, <1>3, <1>4, <1>5 DEF Next

\* Baseline is one snapshot, or none.
LEMMA BaselineIs ==
  ASSUME NEW r \in Nat, depth \in Nat
  PROVE  /\ Baseline(r) \in Seq(0..r)
         /\ depth = 0 => Baseline(r) = <<>>
         /\ depth > 0 => Baseline(r) = <<r>> /\ Baseline(r) # <<>> /\ Len(Baseline(r)) = 1
         /\ Len(Baseline(r)) <= 1 /\ Len(Baseline(r)) \in Nat
<1>1. CASE depth > 0
  <2>1. Baseline(r) = <<r>> /\ r \in 0..r
    BY <1>1 DEF Baseline
  <2>2. QED
    BY <1>1, <2>1
<1>2. CASE depth = 0
  BY <1>2, EmptySeq DEF Baseline
<1>3. QED
  BY <1>1, <1>2

\* What was of a revision that was, still is.
LEMMA StillPast ==
  ASSUME TypeInv, Moves
  PROVE  /\ rev \in Nat /\ rev' \in Nat /\ rev <= rev' /\ rev' \in {rev, rev + 1}
         /\ \A s \in Seq(0..rev) : s \in Seq(0..rev')
         /\ \A s \in Trails(rev) : s \in Trails(rev')
         /\ \A s \in Seq(PointsTo(rev)) : s \in Seq(PointsTo(rev'))
         /\ depth \in Nat
<1>1. rev \in Nat /\ rev' \in {rev, rev + 1} /\ depth \in Nat
  BY Numbers DEF TypeInv, Scalars, Moves
<1>2. rev' \in Nat /\ rev <= rev'
  BY <1>1
<1>3. QED
  BY <1>1, <1>2, Monotone

\* No branch is parked in Empty.
LEMMA EmptyIs == DOMAIN Empty = {}
BY DEF Empty

\* The stacks by their lengths.
LEMMA StacksAre ==
  ASSUME depth' = depth, depth \in Nat,
         undoStack' \in Seq(0..rev'), redoStack' \in Seq(0..rev'),
         NEW m \in Nat, NEW n \in Nat, Len(undoStack') = m, Len(redoStack') = n,
         depth = 0 => m = 0 /\ n = 0,
         depth > 0 => m + n <= depth + 1,
         depth > 0 /\ up' => m # 0,
         \A i \in DOMAIN parkedRedo' : parkedRedo'[i] \in Seq(0..rev') /\ Len(parkedRedo'[i]) <= depth
  PROVE  Stacks'
<1>1. (undoStack' = <<>> <=> m = 0) /\ (redoStack' = <<>> <=> n = 0)
  BY Members
<1>2. QED
  BY <1>1 DEF Stacks

\* ... when the memory starts again from a baseline.
LEMMA OneBaseline ==
  ASSUME depth' = depth, depth \in Nat, rev' \in Nat, undoStack' = Baseline(rev'),
         redoStack' \in Seq(0..rev'), Len(redoStack') <= depth,
         \A i \in DOMAIN parkedRedo' : parkedRedo'[i] \in Seq(0..rev') /\ Len(parkedRedo'[i]) <= depth
  PROVE  Stacks'
<1>1. Len(redoStack') \in Nat
  BY Members
<1>2. /\ undoStack' \in Seq(0..rev') /\ Len(undoStack') \in Nat
      /\ depth = 0 => Len(undoStack') = 0
      /\ depth > 0 => Len(undoStack') = 1
  BY BaselineIs, EmptySeq
<1> DEFINE m == Len(undoStack')
           n == Len(redoStack')
<1>3. m \in Nat /\ n \in Nat
  BY <1>1, <1>2
<1> HIDE DEF m, n
<1>4. /\ depth = 0 => m = 0 /\ n = 0
      /\ depth > 0 => m + n <= depth + 1
      /\ depth > 0 /\ up' => m # 0
  <2>1. n <= depth /\ (depth = 0 => m = 0) /\ (depth > 0 => m = 1)
    BY <1>2 DEF m, n
  <2>2. QED
    BY <1>3, <2>1
<1>5. QED
  BY <1>2, <1>3, <1>4, StacksAre DEF m, n

LEMMA StacksKept ==
  ASSUME TypeInv, [Next]_vars, Moves
  PROVE  Stacks'
<1>1. /\ rev \in Nat /\ rev' \in Nat /\ rev <= rev' /\ rev' \in {rev, rev + 1}
      /\ \A s \in Seq(0..rev) : s \in Seq(0..rev')
      /\ depth \in Nat /\ depth' = depth
  <2>1. depth' = depth
    BY DEF Next, Edit, UndoInMemory, UndoInStore, UndoDoesNotLoad, RedoInMemory, RedoInStore, Restore,
           Label, Save, Begin, Commit, Rollback, BudgetEvicts, Budget, Leave, Reopen, vars
  <2>2. QED
    BY <2>1, StillPast
<1> DEFINE m == Len(undoStack)
           n == Len(redoStack)
<1>2. /\ undoStack \in Seq(0..rev) /\ redoStack \in Seq(0..rev)
      /\ undoStack \in Seq(0..rev') /\ redoStack \in Seq(0..rev')
      /\ m \in Nat /\ n \in Nat /\ Len(undoStack) = m /\ Len(redoStack) = n
      /\ (undoStack = <<>> <=> m = 0) /\ (redoStack = <<>> <=> n = 0)
      /\ <<>> \in Seq(0..rev') /\ Len(<<>>) = 0 /\ Len(<<>>) <= depth
      /\ \A i \in DOMAIN parkedRedo : parkedRedo[i] \in Seq(0..rev') /\ Len(parkedRedo[i]) <= depth
  BY <1>1, Members, EmptySeq DEF TypeInv, Stacks
<1>3. /\ depth = 0 => m = 0 /\ n = 0
      /\ depth > 0 => m + n <= depth + 1
      /\ depth > 0 /\ up => m # 0
      /\ ~up => m = 0 /\ n = 0
  BY <1>2 DEF TypeInv, Stacks, Shut
<1> HIDE DEF m, n
<1>4. CASE Edit
  <2>1. rev' = rev + 1 /\ rev + 1 \in 0..rev'
    BY <1>1, <1>4 DEF Edit, Becomes
  <2> DEFINE pushed == Append(undoStack, rev + 1)
  <2>2. pushed \in Seq(0..rev') /\ pushed # <<>> /\ Len(pushed) = m + 1
    BY <1>2, <2>1, Appended
  <2>3. Tail(pushed) \in Seq(0..rev') /\ Len(Tail(pushed)) = m
    <3> HIDE DEF pushed
    <3>1. Tail(pushed) \in Seq(0..rev') /\ Len(Tail(pushed)) = Len(pushed) - 1
      BY <2>2, HeadTailProperties
    <3>2. QED
      BY <1>2, <2>2, <3>1
  <2> HIDE DEF pushed
  <2>4. /\ undoStack' = IF depth = 0 THEN undoStack
                        ELSE IF Len(pushed) > depth + 1 THEN Tail(pushed) ELSE pushed
        /\ redoStack' = IF depth = 0 THEN redoStack ELSE <<>>
        /\ parkedRedo' = Empty /\ up
    BY <1>4 DEF Edit, DropRedo, pushed
  <2>5. \A i \in DOMAIN parkedRedo' : parkedRedo'[i] \in Seq(0..rev') /\ Len(parkedRedo'[i]) <= depth
    BY <2>4, EmptyIs
  <2>6. CASE depth = 0
    <3>1. undoStack' \in Seq(0..rev') /\ redoStack' \in Seq(0..rev') /\ Len(undoStack') = m /\ Len(redoStack') = n
      BY <1>2, <2>4, <2>6
    <3>2. QED
      BY <1>1, <1>2, <1>3, <2>5, <2>6, <3>1, StacksAre
  <2>7. CASE depth > 0 /\ Len(pushed) > depth + 1
    <3>1. undoStack' \in Seq(0..rev') /\ redoStack' \in Seq(0..rev') /\ Len(undoStack') = m /\ Len(redoStack') = 0
      <4>1. depth # 0
        BY <1>1, <2>7
      <4>2. undoStack' = Tail(pushed) /\ redoStack' = <<>>
        BY <2>4, <2>7, <4>1
      <4>3. QED
        BY <1>2, <2>3, <4>2
    <3>2. m + 0 <= depth + 1 /\ m # 0
      BY <1>1, <1>2, <1>3, <2>2, <2>4, <2>7
    <3>3. QED
      BY <1>1, <1>2, <2>5, <2>7, <3>1, <3>2, StacksAre
  <2>8. CASE depth > 0 /\ ~(Len(pushed) > depth + 1)
    <3>1. undoStack' \in Seq(0..rev') /\ redoStack' \in Seq(0..rev') /\ Len(undoStack') = m + 1 /\ Len(redoStack') = 0
      <4>1. depth # 0
        BY <1>1, <2>8
      <4>2. undoStack' = pushed /\ redoStack' = <<>>
        BY <2>4, <2>8, <4>1
      <4>3. QED
        BY <1>2, <2>2, <4>2
    <3>2. (m + 1) + 0 <= depth + 1 /\ m + 1 # 0 /\ m + 1 \in Nat
      BY <1>1, <1>2, <2>2, <2>8
    <3>3. QED
      BY <1>1, <1>2, <2>5, <2>8, <3>1, <3>2, StacksAre
  <2>9. QED
    BY <1>1, <2>6, <2>7, <2>8
<1>5. CASE UndoInMemory
  <2>1. /\ m >= 2 /\ undoStack # <<>> /\ parkedRedo' = Empty
        /\ undoStack' = Front(undoStack) /\ redoStack' = Append(redoStack, Last(undoStack))
    BY <1>2, <1>5 DEF UndoInMemory, DropRedo
  <2>2. Front(undoStack) \in Seq(0..rev') /\ Len(Front(undoStack)) = m - 1 /\ Last(undoStack) \in 0..rev'
    BY <1>2, <2>1, FrontLast
  <2>3. undoStack' \in Seq(0..rev') /\ Len(undoStack') = m - 1
    BY <2>1, <2>2
  <2>4. redoStack' \in Seq(0..rev') /\ Len(redoStack') = n + 1
    BY <1>2, <2>1, <2>2, Appended
  <2>5. \A i \in DOMAIN parkedRedo' : parkedRedo'[i] \in Seq(0..rev') /\ Len(parkedRedo'[i]) <= depth
    BY <2>1, EmptyIs
  <2>6. /\ m - 1 \in Nat /\ n + 1 \in Nat /\ depth # 0 /\ (m - 1) + (n + 1) <= depth + 1 /\ m - 1 # 0
    BY <1>1, <1>2, <1>3, <2>1
  <2>7. QED
    BY <1>1, <2>3, <2>4, <2>5, <2>6, StacksAre
<1>6. CASE RedoInMemory
  <2>1. PICK held : /\ held = Last(redoStack) /\ redoStack # <<>> /\ parkedRedo' = Empty
                    /\ undoStack' = Append(undoStack, held) /\ redoStack' = Front(redoStack)
    BY <1>6 DEF RedoInMemory, DropRedo
  <2>2. redoStack' \in Seq(0..rev') /\ Len(redoStack') = n - 1 /\ held \in 0..rev'
    BY <1>2, <2>1, FrontLast
  <2>3. undoStack' \in Seq(0..rev') /\ Len(undoStack') = m + 1
    BY <1>2, <2>1, <2>2, Appended
  <2>4. \A i \in DOMAIN parkedRedo' : parkedRedo'[i] \in Seq(0..rev') /\ Len(parkedRedo'[i]) <= depth
    BY <2>1, EmptyIs
  <2>5. n # 0
    BY <1>2, <2>1
  <2>6. /\ m + 1 \in Nat /\ n - 1 \in Nat /\ depth # 0 /\ (m + 1) + (n - 1) <= depth + 1 /\ m + 1 # 0
    BY <1>1, <1>2, <1>3, <2>5
  <2>7. QED
    BY <1>1, <2>2, <2>3, <2>4, <2>6, StacksAre
<1>7. CASE UndoInStore
  <2>1. /\ undoStack' = Baseline(rev') /\ redoStack' = <<>> /\ m < 2 /\ up
        /\ parkedRedo' = IF redoStack = <<>> THEN parkedRedo
                         ELSE [j \in DOMAIN parkedRedo \cup {Before} |-> IF j = Before THEN redoStack ELSE parkedRedo[j]]
    BY <1>2, <1>7 DEF UndoInStore, Replace, Parked, Becomes
  <2>2. n <= depth
    <3>1. QED
      BY <1>1, <1>2, <1>3, <2>1
  <2>3. \A i \in DOMAIN parkedRedo' : parkedRedo'[i] \in Seq(0..rev') /\ Len(parkedRedo'[i]) <= depth
    BY <1>2, <2>1, <2>2
  <2>4. QED
    <3>1. redoStack' \in Seq(0..rev') /\ Len(redoStack') <= depth
      BY <1>2, <2>1
    <3>2. QED
      BY <1>1, <2>1, <2>3, <3>1, OneBaseline
<1>8. CASE RedoInStore
  <2>1. PICK i : /\ redoStack' = IF i \in DOMAIN parkedRedo THEN parkedRedo[i] ELSE <<>>
                 /\ parkedRedo' = [j \in DOMAIN parkedRedo \ {i} |-> parkedRedo[j]]
                 /\ undoStack' = Baseline(rev') /\ redoStack = <<>>
    BY <1>8 DEF RedoInStore, Replace, Becomes
  <2>2. redoStack' \in Seq(0..rev') /\ Len(redoStack') <= depth
    <3>1. CASE i \in DOMAIN parkedRedo
      BY <1>2, <2>1, <3>1
    <3>2. CASE i \notin DOMAIN parkedRedo
      BY <1>2, <2>1, <3>2
    <3>3. QED
      BY <3>1, <3>2
  <2>3. \A j \in DOMAIN parkedRedo' : parkedRedo'[j] \in Seq(0..rev') /\ Len(parkedRedo'[j]) <= depth
    BY <1>2, <2>1
  <2>4. QED
    BY <1>1, <2>1, <2>2, <2>3, OneBaseline
<1>9. CASE Restore
  <2>1. undoStack' = Baseline(rev') /\ redoStack' = <<>> /\ parkedRedo' = Empty
    BY <1>9 DEF Restore, Replace, Becomes, DropRedo
  <2>2. \A i \in DOMAIN parkedRedo' : parkedRedo'[i] \in Seq(0..rev') /\ Len(parkedRedo'[i]) <= depth
    BY <2>1, EmptyIs
  <2>3. QED
    BY <1>1, <1>2, <2>1, <2>2, OneBaseline
<1>10. CASE Reopen
  <2>1. redoStack = <<>> /\ undoStack' = Baseline(rev') /\ UNCHANGED <<redoStack, parkedRedo>>
    BY <1>10 DEF Reopen, TypeInv, Shut
  <2>2. QED
    BY <1>1, <1>2, <2>1, OneBaseline
<1>11. CASE Rollback
  <2>1. UNCHANGED <<undoStack, redoStack, up>> /\ parkedRedo' = Empty
    BY <1>11 DEF Rollback, DropRedo
  <2>2. \A i \in DOMAIN parkedRedo' : parkedRedo'[i] \in Seq(0..rev') /\ Len(parkedRedo'[i]) <= depth
    BY <2>1, EmptyIs
  <2>3. QED
    BY <1>1, <1>2, <1>3, <2>1, <2>2, StacksAre
<1>12. CASE Leave
  <2>1. undoStack' = <<>> /\ redoStack' = <<>> /\ ~up' /\ parkedRedo' = Empty
    BY <1>12 DEF Leave, DropRedo
  <2>2. \A i \in DOMAIN parkedRedo' : parkedRedo'[i] \in Seq(0..rev') /\ Len(parkedRedo'[i]) <= depth
    BY <2>1, EmptyIs
  <2>3. /\ undoStack' \in Seq(0..rev') /\ redoStack' \in Seq(0..rev') /\ Len(undoStack') = 0 /\ Len(redoStack') = 0
    BY <1>2, <2>1
  <2>4. QED
    BY <1>1, <2>1, <2>2, <2>3, StacksAre
<1>13. CASE UndoDoesNotLoad \/ Label \/ Save \/ Begin \/ Commit \/ BudgetEvicts \/ UNCHANGED vars
  <2>1. UNCHANGED <<undoStack, redoStack, parkedRedo, up>>
    BY <1>13 DEF UndoDoesNotLoad, Label, Save, Begin, Commit, BudgetEvicts, Budget, vars, memVars
  <2>2. QED
    BY <1>1, <1>2, <1>3, <2>1, StacksAre
<1>14. QED
  BY <1>4, <1>5, <1>6, <1>7, <1>8, <1>9, <1>10, <1>11, <1>12, <1>13 DEF Next

-------------------------------------------------------------------------------
(* The rows and what names them *)

\* A reopening finds the rows as they are, or notes the file as a new one.
LEMMA ReopenRows ==
  ASSUME TypeInv, Reopen
  PROVE  \/ rows' = rows
         \/ \E n \in Row : /\ n.kind = "open" /\ n.rev = rev' /\ n.base = rev' /\ n.content = saved.content
                           /\ n.form = saved.form /\ ~n.evicted /\ n.there
                           /\ rows' = Trimmed(Append(rows, n)) /\ base' = None
                           /\ Grown(rows', {n})
<1>1. rev' \in Revs /\ saved.content \in Revs /\ saved.form \in Forms /\ saved.form \in Forms \cup {0}
  BY ReopenMoves DEF Moves
<1>2. rows \in Seq(Row) /\ hist \in [Revs -> Revs]
  BY Rowed DEF RowTypes
<1> DEFINE new == NewRow("open", rev', rev', saved.form)
           n == [new EXCEPT !.content = saved.content]
<1>3. rows' = rows \/ (rows' = Trimmed(Append(rows, n)) /\ base' = None)
  BY DEF Reopen
<1>4. /\ new \in Row /\ new.kind = "open" /\ new.rev = rev' /\ new.base = rev' /\ new.form = saved.form
      /\ ~new.evicted /\ new.there
  BY <1>1, <1>2, NewRowType
<1> HIDE DEF new
<1>5. /\ n \in Row /\ n.kind = "open" /\ n.rev = rev' /\ n.base = rev' /\ n.content = saved.content
      /\ n.form = saved.form /\ ~n.evicted /\ n.there
  BY <1>1, <1>4 DEF Row
<1> HIDE DEF n
<1>6. Grown(Trimmed(Append(rows, n)), {n})
  BY <1>2, <1>5, OneMore
<1>7. QED
  BY <1>3, <1>5, <1>6

\* What is known is of a revision that was.
LEMMA KnownIsPast ==
  ASSUME TypeInv, NEW n \in Row, Known(n)
  PROVE  n.base <= n.rev /\ n.rev <= rev /\ n.rev \in Nat /\ n.base \in Nat
<1>1. rev \in Nat /\ Effective \in Nat /\ Effective <= rev
  BY EffectiveType DEF TypeInv
<1>2. CASE n.rev = 0 /\ n.base = 0
  BY <1>1, <1>2
<1>3. CASE n.rev = rev /\ n.base = Effective
  BY <1>1, <1>3
<1>4. CASE \E k \in DOMAIN begins : n.rev = begins[k].rev /\ n.base = begins[k].base
  <2>1. PICK k \in DOMAIN begins : n.rev = begins[k].rev /\ n.base = begins[k].base
    BY <1>4
  <2>2. begins[k] \in PointsTo(rev)
    BY Members DEF TypeInv, Past
  <2>3. QED
    BY <2>1, <2>2, Numbers DEF PointsTo
<1>5. QED
  BY <1>2, <1>3, <1>4 DEF Known

\* Every new row is of a revision that was, and has a base that is no later.
LEMMA RowsMove ==
  ASSUME TypeInv, [Next]_vars, Moves
  PROVE  Grown(rows', {n \in Row : n.base <= n.rev /\ n.rev <= rev'})
<1>1. /\ rev \in Nat /\ rev' \in Nat /\ rev <= rev' /\ Effective \in Nat /\ Effective <= rev
  BY StillPast, EffectiveType DEF TypeInv
<1>2. CASE Reopen
  <2>1. CASE rows' = rows
    BY <2>1 DEF TypeInv, RowsTyped, Grown, Later
  <2>2. CASE \E n \in Row : n.rev = rev' /\ n.base = rev' /\ Grown(rows', {n})
    <3>1. PICK n \in Row : n.rev = rev' /\ n.base = rev' /\ Grown(rows', {n})
      BY <2>2
    <3>2. n \in {x \in Row : x.base <= x.rev /\ x.rev <= rev'}
      BY <1>1, <3>1
    <3>3. {n} \subseteq {x \in Row : x.base <= x.rev /\ x.rev <= rev'}
      BY <3>2
    <3>4. QED
      BY <3>1, <3>3, GrownMore
  <2>3. QED
    BY <1>2, <2>1, <2>2, ReopenRows
<1>3. CASE ~Reopen
  <2>1. Grown(rows', KnownRows)
    BY <1>3, RowsStep DEF RowsGo
  <2>2. ASSUME NEW n \in Row, Known(n) PROVE n.base <= n.rev /\ n.rev <= rev'
    <3>1. n.base <= n.rev /\ n.rev <= rev /\ n.rev \in Nat
      BY <2>2, KnownIsPast
    <3>2. QED
      BY <1>1, <3>1
  <2>3. KnownRows \subseteq {n \in Row : n.base <= n.rev /\ n.rev <= rev'}
    BY <2>2 DEF KnownRows
  <2>4. QED
    BY <2>1, <2>3, GrownMore
<1>4. QED
  BY <1>2, <1>3

LEMMA RowsTypedKept ==
  ASSUME TypeInv, [Next]_vars, Moves
  PROVE  RowsTyped'
<1>1. Grown(rows', {n \in Row : n.base <= n.rev /\ n.rev <= rev'})
  BY RowsMove
<1>2. /\ rev \in Nat /\ rev' \in Nat /\ rev <= rev'
  BY StillPast
<1>3. rows' \in Seq(Row)
  BY <1>1 DEF Grown
<1>4. Len(rows') <= MaxRows
  BY RowsStep DEF RowsGo, Reopen, Fits
<1>5. ASSUME NEW i \in DOMAIN rows'
      PROVE  rows'[i].base <= rows'[i].rev /\ rows'[i].rev <= rev'
  <2>1. CASE i \in DOMAIN rows
    <3>1. rows[i] \in Row /\ rows[i].base <= rows[i].rev /\ rows[i].rev <= rev /\ Later(rows[i], rows'[i])
      BY <1>1, <2>1, Members DEF TypeInv, RowsTyped, Grown
    <3>2. rows[i].rev \in Nat
      BY <3>1, Numbers DEF Row
    <3>3. QED
      BY <1>2, <3>1, <3>2 DEF Later
  <2>2. CASE i \notin DOMAIN rows
    BY <1>1, <2>2 DEF Grown
  <2>3. QED
    BY <2>1, <2>2
<1>6. s0' = s0 \/ s0' = None
  BY DEF Next, Edit, UndoInMemory, UndoInStore, UndoDoesNotLoad, RedoInMemory, RedoInStore, Restore,
         Label, Save, Begin, Commit, Rollback, BudgetEvicts, Budget, Leave, Reopen, vars
<1>7. QED
  BY <1>3, <1>4, <1>5, <1>6 DEF TypeInv, RowsTyped

\* What an undo or a restore replaces has a row then.
LEMMA BeforeIsRow ==
  ASSUME TypeInv, UndoInStore \/ Restore
  PROVE  /\ Before \in DOMAIN rows' /\ rows'[Before].rev = rev /\ ~rows'[Before].evicted
         /\ \/ Holding # {} /\ Before \in Holding /\ rows' = rows
            \/ /\ Holding = {} /\ Before \notin DOMAIN rows
               /\ \E f \in Forms, kind \in {"pre_undo", "pre_restore"} :
                    /\ rows'[Before] = NewRow(kind, rev, Effective, f)
                    /\ Restore => kind = "pre_restore"
<1>1. PICK kind \in {"pre_undo", "pre_restore"} :
        (\E f \in Forms : rows' = Captured(kind, f)) /\ (Restore => kind = "pre_restore")
  BY DEF UndoInStore, Restore
<1>2. PICK f \in Forms : rows' = Captured(kind, f)
  BY <1>1
<1>3. /\ Before \in DOMAIN Captured(kind, f)
      /\ Captured(kind, f)[Before].rev = rev /\ ~Captured(kind, f)[Before].evicted
      /\ \/ Holding # {} /\ Before \in Holding /\ Captured(kind, f) = rows
         \/ /\ Holding = {} /\ Before \notin DOMAIN rows
            /\ Captured(kind, f)[Before] = NewRow(kind, rev, Effective, f)
  BY Rowed, CapturedIs
<1>4. QED
  BY <1>1, <1>2, <1>3

\* The front of a sequence, the empty one included.
LEMMA FrontType ==
  ASSUME NEW S, NEW s \in Seq(S)
  PROVE  Front(s) \in Seq(S)
<1>1. CASE s # <<>>
  BY <1>1, FrontLast
<1>2. CASE s = <<>>
  <2>1. Len(s) = 0
    BY <1>2, EmptySeq
  <2>2. SubSeq(s, 1, Len(s) - 1) \in Seq(S)
    <3>1. 1 \in Int /\ Len(s) - 1 \in Int /\ \A i \in 1..(Len(s) - 1) : s[i] \in S
      BY <2>1
    <3>2. QED
      BY <3>1, SubSeqProperties
  <2>3. QED
    BY <2>2 DEF Front
<1>3. QED
  BY <1>1, <1>2

LEMMA NamedKept ==
  ASSUME TypeInv, [Next]_vars, Moves
  PROVE  Named'
<1>1. DOMAIN rows \subseteq DOMAIN rows'
  BY RowsMove DEF Grown
<1>2. /\ DOMAIN parkedRedo \subseteq DOMAIN rows' /\ storeRedo \in Seq(DOMAIN rows)
      /\ storeRedo \in Seq(DOMAIN rows') /\ replaced \in DOMAIN rows' \cup {None} /\ <<>> \in Seq(DOMAIN rows')
  BY <1>1, SeqMonotonic, EmptySeq DEF TypeInv, Named
<1>3. CASE UndoInStore
  <2>1. Before \in DOMAIN rows'
    BY <1>3, BeforeIsRow
  <2>2. /\ storeRedo' = Append(storeRedo, Before) /\ replaced' = None
        /\ DOMAIN parkedRedo' \subseteq DOMAIN parkedRedo \cup {Before}
    BY <1>3 DEF UndoInStore, Parked
  <2>3. storeRedo' \in Seq(DOMAIN rows')
    BY <1>2, <2>1, <2>2, Appended
  <2>4. QED
    BY <1>2, <2>1, <2>2, <2>3 DEF Named
<1>4. CASE RedoInStore
  <2>1. /\ storeRedo' = Front(storeRedo) /\ replaced' = None
        /\ DOMAIN parkedRedo' \subseteq DOMAIN parkedRedo
    BY <1>4 DEF RedoInStore
  <2>2. storeRedo' \in Seq(DOMAIN rows')
    BY <1>2, <2>1, FrontType
  <2>3. QED
    BY <1>2, <2>1, <2>2 DEF Named
<1>5. CASE Restore
  <2>1. Before \in DOMAIN rows' /\ storeRedo' = <<>> /\ DOMAIN parkedRedo' = {} /\ replaced' = Before
    BY <1>5, BeforeIsRow, EmptyIs DEF Restore, DropRedo
  <2>2. QED
    BY <1>2, <2>1 DEF Named
<1>6. CASE Edit \/ UndoInMemory \/ RedoInMemory \/ Rollback \/ Leave
  <2>1. storeRedo' = <<>> /\ DOMAIN parkedRedo' = {} /\ replaced' = None
    BY <1>6, EmptyIs DEF Edit, UndoInMemory, RedoInMemory, Rollback, Leave, DropRedo
  <2>2. QED
    BY <1>2, <2>1 DEF Named
<1>7. CASE UndoDoesNotLoad \/ Label \/ Save \/ Begin \/ Commit \/ BudgetEvicts \/ Reopen \/ UNCHANGED vars
  <2>1. UNCHANGED <<storeRedo, parkedRedo, replaced>>
    BY <1>7 DEF UndoDoesNotLoad, Label, Save, Begin, Commit, BudgetEvicts, Budget, Reopen, vars, memVars, ghosts
  <2>2. QED
    BY <1>2, <2>1 DEF Named
<1>8. QED
  BY <1>3, <1>4, <1>5, <1>6, <1>7 DEF Next

-------------------------------------------------------------------------------
(* What is remembered of earlier revisions *)

\* The state of now goes on the trail of what comes next.
LEMMA HereOnTrail ==
  ASSUME TypeInv, rev' = rev + 1
  PROVE  Append(trail, Here) \in Trails(rev')
<1> DEFINE A == [rev : 0..(rev' - 1), as : Revs]
<1>1. rev \in Nat /\ rev' \in Nat /\ rev <= rev' /\ rev \in 0..(rev' - 1) /\ Effective \in Revs
  BY EffectiveType DEF TypeInv
<1>2. Here \in A
  BY <1>1 DEF Here
<1>3. trail \in Trails(rev') /\ Trails(rev') = Seq(A)
  BY <1>1, Monotone DEF TypeInv, Past, Trails
<1> HIDE DEF A
<1>4. QED
  BY <1>2, <1>3, Appended

\* A trail's front is one.
LEMMA TrailsFront ==
  ASSUME NEW r, NEW s \in Trails(r)
  PROVE  Front(s) \in Trails(r) /\ <<>> \in Trails(r)
<1> DEFINE A == [rev : 0..(r - 1), as : Revs]
<1>1. Trails(r) = Seq(A)
  BY DEF Trails
<1> HIDE DEF A
<1>2. QED
  BY <1>1, FrontType, EmptySeq

LEMMA TrailKept ==
  ASSUME TypeInv, [Next]_vars, Moves
  PROVE  trail' \in Trails(rev')
<1>1. rev \in Nat /\ rev' \in Nat /\ rev <= rev' /\ trail \in Trails(rev') /\ trail \in Trails(rev)
  BY StillPast DEF TypeInv, Past
<1>2. CASE UndoInMemory \/ UndoInStore
  <2>1. rev' = rev + 1 /\ trail' = Append(trail, Here)
    BY <1>2 DEF UndoInMemory, UndoInStore, Replace, Becomes
  <2>2. QED
    BY <2>1, HereOnTrail
<1>3. CASE RedoInMemory \/ RedoInStore
  <2>1. trail' = Front(trail)
    BY <1>3 DEF RedoInMemory, RedoInStore
  <2>2. QED
    BY <1>1, <2>1, TrailsFront
<1>4. CASE Edit \/ Restore \/ Leave
  <2>1. trail' = <<>>
    BY <1>4 DEF Edit, Restore, Leave
  <2>2. QED
    BY <1>1, <2>1, TrailsFront
<1>5. CASE Rollback
  <2>1. Last(begins) \in PointsTo(rev) /\ trail' = Last(begins).trail
    BY <1>5, BeginTypes DEF Rollback
  <2>2. Last(begins).rev \in Nat /\ Last(begins).rev <= rev /\ Last(begins).trail \in Trails(Last(begins).rev)
    BY <2>1, Numbers DEF PointsTo
  <2>3. Last(begins).rev <= rev'
    BY <1>1, <2>2
  <2>4. QED
    BY <1>1, <2>1, <2>2, <2>3, Monotone
<1>6. CASE Reopen
  <2>1. saved # None /\ trail' = saved.trail /\ saved.trail \in Trails(saved.rev) /\ saved.rev \in Revs /\ saved.rev <= rev
    BY <1>6, ReopenMoves DEF Reopen, TypeInv, Past
  <2>2. saved.rev \in Nat
    BY <2>1, Numbers
  <2>3. saved.rev <= rev'
    BY <1>1, <2>1, <2>2
  <2>4. QED
    BY <1>1, <2>1, <2>2, <2>3, Monotone
<1>7. CASE UndoDoesNotLoad \/ Label \/ Save \/ Begin \/ Commit \/ BudgetEvicts \/ UNCHANGED vars
  <2>1. trail' = trail
    BY <1>7 DEF UndoDoesNotLoad, Label, Save, Begin, Commit, BudgetEvicts, Budget, vars, ghosts
  <2>2. QED
    BY <1>1, <2>1
<1>8. QED
  BY <1>2, <1>3, <1>4, <1>5, <1>6, <1>7 DEF Next

LEMMA BeginsKept ==
  ASSUME TypeInv, [Next]_vars, Moves
  PROVE  begins' \in Seq(PointsTo(rev')) /\ Len(begins') <= MaxBegins
<1>1. /\ rev \in Nat /\ rev' \in Nat /\ rev <= rev'
      /\ begins \in Seq(PointsTo(rev)) /\ begins \in Seq(PointsTo(rev')) /\ Len(begins) <= MaxBegins
      /\ Len(begins) \in Nat /\ MaxBegins \in Nat
      /\ \A s \in Seq(PointsTo(rev)) : s \in Seq(PointsTo(rev'))
  BY StillPast, Members, UndoAssumption DEF TypeInv, Past
<1>2. CASE Begin
  <2> DEFINE p == [rev |-> rev, base |-> Effective, trail |-> trail, strayed |-> strayed]
  <2>1. p \in PointsTo(rev)
    <3>1. Effective \in Revs /\ Effective <= rev /\ rev \in Revs /\ strayed \in BOOLEAN /\ trail \in Trails(rev)
      BY EffectiveType DEF TypeInv, Scalars, Past
    <3>2. trail \in Seq([rev : Revs, as : Revs])
      BY TypeInvIsTypeOK DEF TypeOK
    <3>3. QED
      BY <1>1, <3>1, <3>2 DEF PointsTo
  <2>2. begins' = Append(begins, p) /\ Len(begins) < MaxBegins /\ rev' = rev
    BY <1>2 DEF Begin
  <2> HIDE DEF p
  <2>3. begins' \in Seq(PointsTo(rev)) /\ Len(begins') = Len(begins) + 1
    BY <1>1, <2>1, <2>2, Appended
  <2>4. Len(begins') <= MaxBegins
    BY <1>1, <2>2, <2>3
  <2>5. QED
    BY <1>1, <2>2, <2>3, <2>4
<1>3. CASE Commit \/ Rollback
  <2>1. begins # <<>> /\ begins' = Front(begins)
    BY <1>3 DEF Commit, Rollback
  <2>2. Front(begins) \in Seq(PointsTo(rev)) /\ Len(Front(begins)) = Len(begins) - 1
    BY <2>1, BeginTypes
  <2>3. Len(begins') <= MaxBegins
    BY <1>1, <2>1, <2>2
  <2>4. QED
    BY <1>1, <2>1, <2>2, <2>3
<1>4. CASE Leave
  <2>1. begins' = <<>> /\ <<>> \in Seq(PointsTo(rev')) /\ Len(<<>>) = 0
    BY <1>4, EmptySeq DEF Leave
  <2>2. QED
    BY <1>1, <2>1
<1>5. CASE ~(Begin \/ Commit \/ Rollback \/ Leave)
  <2>1. begins' = begins
    BY <1>5 DEF Next, Edit, UndoInMemory, UndoInStore, UndoDoesNotLoad, RedoInMemory, RedoInStore, Restore,
           Label, Save, BudgetEvicts, Budget, Reopen, vars, memVars
  <2>2. QED
    BY <1>1, <2>1
<1>6. QED
  BY <1>2, <1>3, <1>4, <1>5

SavedType(r) ==
  {s \in [rev : Revs, content : Revs, form : Forms, trail : Seq([rev : Revs, as : Revs]), strayed : BOOLEAN] :
     s.rev <= r /\ s.trail \in Trails(s.rev)}

LEMMA SavedKept ==
  ASSUME TypeInv, [Next]_vars, Moves
  PROVE  saved' \in SavedType(rev') \cup {None}
<1>1. /\ rev \in Nat /\ rev' \in Nat /\ rev <= rev'
      /\ saved # None => saved \in SavedType(rev)
  BY StillPast DEF TypeInv, Past, SavedType
<1>2. CASE Save
  <2>1. PICK f \in Forms :
          saved' = [rev |-> rev, content |-> hist[rev], form |-> f, trail |-> trail, strayed |-> strayed]
    BY <1>2 DEF Save
  <2>2. rev' = rev
    BY <1>2 DEF Save
  <2>3. rev \in Revs /\ hist[rev] \in Revs /\ strayed \in BOOLEAN /\ trail \in Trails(rev)
    BY DEF TypeInv, Scalars, Past
  <2>4. trail \in Seq([rev : Revs, as : Revs])
    BY TypeInvIsTypeOK DEF TypeOK
  <2>5. QED
    BY <1>1, <2>1, <2>2, <2>3, <2>4 DEF SavedType
<1>3. CASE Reopen
  <2>1. saved # None /\ saved \in SavedType(rev) /\ rev' \in Revs
    BY <1>1, <1>3, ReopenMoves DEF Moves
  <2>2. PICK stray \in BOOLEAN : saved' = [saved EXCEPT !.rev = rev', !.strayed = stray]
    <3>1. saved.strayed \in BOOLEAN
      BY <2>1 DEF SavedType
    <3>2. QED
      BY <1>3, <3>1 DEF Reopen
  <2>3. saved.rev \in Nat /\ saved.rev <= rev /\ saved.trail \in Trails(saved.rev)
    BY <2>1, Numbers DEF SavedType
  <2>4. saved.trail \in Trails(rev')
    <3>1. saved.rev <= rev'
      BY <1>1, <2>3
    <3>2. QED
      BY <1>1, <2>3, <3>1, Monotone
  <2>5. /\ saved' \in [rev : Revs, content : Revs, form : Forms, trail : Seq([rev : Revs, as : Revs]), strayed : BOOLEAN]
        /\ saved'.rev = rev' /\ saved'.trail = saved.trail
    BY <2>1, <2>2 DEF SavedType
  <2>6. QED
    BY <1>1, <2>4, <2>5 DEF SavedType
<1>4. CASE ~(Save \/ Reopen)
  <2>1. saved' = saved
    BY <1>4 DEF Next, Edit, UndoInMemory, UndoInStore, UndoDoesNotLoad, RedoInMemory, RedoInStore, Restore,
           Label, Begin, Commit, Rollback, BudgetEvicts, Budget, Leave, vars
  <2>2. CASE saved # None
    <3>1. saved \in SavedType(rev) /\ saved.rev \in Nat
      BY <1>1, <2>2, Numbers DEF SavedType
    <3>2. saved.rev <= rev'
      BY <1>1, <3>1 DEF SavedType
    <3>3. QED
      BY <2>1, <3>1, <3>2 DEF SavedType
  <2>3. QED
    BY <2>1, <2>2
<1>5. QED
  BY <1>2, <1>3, <1>4

LEMMA PastKept ==
  ASSUME TypeInv, [Next]_vars, Moves
  PROVE  Past'
BY TrailKept, BeginsKept, SavedKept, Numbers DEF Past, SavedType

LEMMA ShutKept ==
  ASSUME TypeInv, [Next]_vars
  PROVE  Shut'
<1>1. CASE Leave
  BY <1>1 DEF Leave, Shut, DropRedo
<1>2. CASE up' \/ ~Leave
  <2>1. up' \/ UNCHANGED vars \/ BudgetEvicts
    BY <1>2 DEF Next, Edit, UndoInMemory, UndoInStore, UndoDoesNotLoad, RedoInMemory, RedoInStore, Restore,
           Label, Save, Begin, Commit, Rollback, Leave, Reopen
  <2>2. QED
    BY <2>1 DEF BudgetEvicts, Budget, TypeInv, Shut, vars, memVars, ghosts
<1>3. QED
  BY <1>1, <1>2

LEMMA TypeStep ==
  ASSUME TypeInv, [Next]_vars
  PROVE  TypeInv' /\ Moves
<1>1. Scalars' /\ Moves
  BY ScalarsKept
<1>2. QED
  BY <1>1, StacksKept, RowsTypedKept, NamedKept, PastKept, ShutKept DEF TypeInv

LEMMA TypeInit == Init => TypeInv
<1> SUFFICES ASSUME Init PROVE TypeInv
  OBVIOUS
<1>1. 0 \in Revs /\ depth \in Nat /\ rev = 0 /\ <<>> \in Seq(0..rev) /\ Len(<<>>) = 0 /\ DOMAIN Empty = {}
  BY Numbers, EmptyIs, EmptySeq DEF Init
<1>2. Scalars
  BY <1>1 DEF Init, Scalars
<1>3. Stacks
  <2>1. undoStack = Baseline(0) /\ redoStack = <<>> /\ parkedRedo = Empty
    BY DEF Init, Baseline
  <2>2. /\ Baseline(0) \in Seq(0..0)
        /\ depth = 0 => Baseline(0) = <<>>
        /\ depth > 0 => Baseline(0) # <<>> /\ Len(Baseline(0)) = 1
        /\ Len(Baseline(0)) <= 1 /\ Len(Baseline(0)) \in Nat
    BY <1>1, BaselineIs
  <2>3. QED
    BY <1>1, <2>1, <2>2 DEF Stacks
<1>4. RowsTyped
  <2>1. rows = <<>> /\ DOMAIN rows = {} /\ rows \in Seq(Row) /\ Len(rows) = 0 /\ MaxRows \in Nat
    BY EmptySeq, UndoAssumption DEF Init
  <2>2. s0 \in [rev : Revs, form : Forms \cup {0}] /\ s0.rev = 0
    BY <1>1 DEF Init
  <2>3. QED
    BY <2>1, <2>2 DEF RowsTyped
<1>5. Named
  BY <1>1, EmptySeq DEF Init, Named
<1>6. Past
  <2>1. trail = <<>> /\ begins = <<>> /\ saved = None /\ MaxBegins \in Nat
    BY UndoAssumption DEF Init
  <2>2. <<>> \in Trails(rev) /\ <<>> \in Seq(PointsTo(rev))
    BY EmptySeq DEF Trails
  <2>3. QED
    BY <1>1, <2>1, <2>2 DEF Past
<1>7. Shut
  BY DEF Init, Shut
<1>8. QED
  BY <1>2, <1>3, <1>4, <1>5, <1>6, <1>7 DEF TypeInv

\* The types of TypeOK: whatever the undo depth, the bounds and the mishaps, the
\* snapshots of memory stay within EZDXF_UNDO_DEPTH, and every snapshot, row, begin and
\* record is of a revision that was.
THEOREM TypeCorrect == Spec => []TypeOK
<1>1. Init => TypeInv
  BY TypeInit
<1>2. TypeInv /\ [Next]_vars => TypeInv'
  BY TypeStep
<1>3. TypeInv => TypeOK
  BY TypeInvIsTypeOK
<1>4. QED
  BY <1>1, <1>2, <1>3, PTL DEF Spec

-------------------------------------------------------------------------------
(* What revisions name *)

RowsNameHist ==
  \A i \in DOMAIN rows : rows[i].content = hist[rows[i].rev] /\ hist[rows[i].base] = hist[rows[i].rev]

BeginsNameHist == \A k \in DOMAIN begins : hist[begins[k].base] = hist[begins[k].rev]

\* A row, a begin, the file and the current undo base name contents that are what was
\* drawn at their revisions.
HistInv ==
  /\ RowsNameHist
  /\ BeginsNameHist
  /\ saved # None => saved.content = hist[saved.rev]
  /\ hist[Effective] = hist[rev]

\* No revision that was is given another content: a reopening gives the one it saved
\* to the revision it was saved at, or to a new one.
LEMMA HistSame ==
  ASSUME TypeInv, HistInv, [Next]_vars
  PROVE  /\ \A r \in 0..rev : hist'[r] = hist[r]
         /\ Moves /\ TypeInv' /\ rev \in Nat /\ rev' \in Nat /\ rev <= rev' /\ rev' \in {rev, rev + 1}
         /\ rev \in Revs /\ Effective \in 0..rev
<1>1. Moves /\ TypeInv' /\ rev \in Nat /\ rev' \in Nat /\ rev <= rev' /\ rev' \in {rev, rev + 1}
  BY TypeStep, StillPast
<1>2. rev \in Revs /\ Effective \in 0..rev
  BY EffectiveType DEF TypeInv, Scalars
<1>3. CASE Reopen /\ rev' = rev /\ ~(saved.rev < rev) /\ hist' = [hist EXCEPT ![rev] = saved.content]
  <2>1. saved # None /\ saved.rev \in Revs /\ saved.rev <= rev
    BY <1>3, ReopenMoves
  <2>2. saved.rev = rev
    <3>1. saved.rev \in Nat
      BY <2>1, Numbers
    <3>2. QED
      BY <1>1, <1>3, <2>1, <3>1
  <2>3. saved.content = hist[rev] /\ hist \in [Revs -> Revs]
    BY <2>1, <2>2 DEF HistInv, TypeInv, Scalars
  <2>4. hist' = hist
    BY <1>2, <1>3, <2>3
  <2>5. QED
    BY <1>1, <1>2, <2>4
<1>4. QED
  BY <1>1, <1>2, <1>3 DEF Moves

\* What is shown holds what was drawn at its revision.
LEMMA ShownHist ==
  ASSUME TypeInv, HistInv, NEW i \in DOMAIN Shown
  PROVE  Shown[i].content = hist[Shown[i].rev] /\ hist[Shown[i].base] = hist[Shown[i].rev]
<1>1. CASE Pending
  <2>1. /\ i \in DOMAIN WithS0 /\ Later(WithS0[i], Shown[i]) /\ WithS0 = <<S0Row>>
        /\ S0Row.rev = 0 /\ S0Row.base = 0 /\ S0Row.content = hist[0]
    BY <1>1, Rowed, WithS0Is
  <2>2. QED
    BY <2>1 DEF Later
<1>2. CASE ~Pending
  BY <1>2, Rowed, WithS0Is DEF HistInv, RowsNameHist
<1>3. QED
  BY <1>1, <1>2

LEMMA RowsHistKept ==
  ASSUME TypeInv, HistInv, [Next]_vars
  PROVE  RowsNameHist'
<1>1. /\ \A r \in 0..rev : hist'[r] = hist[r]
      /\ Moves /\ rev \in Nat /\ rev' \in Nat /\ rev <= rev'
      /\ Effective \in 0..rev /\ 0 \in 0..rev
  BY HistSame
<1> SUFFICES ASSUME NEW i \in DOMAIN rows'
             PROVE  /\ rows'[i].content = hist'[rows'[i].rev]
                    /\ hist'[rows'[i].base] = hist'[rows'[i].rev]
  BY DEF RowsNameHist
<1>2. CASE i \in DOMAIN rows
  <2>1. Later(rows[i], rows'[i])
    BY <1>1, <1>2, RowsMove DEF Grown
  <2>2. rows[i] \in Row /\ rows[i].base <= rows[i].rev /\ rows[i].rev <= rev
    BY <1>2, Members DEF TypeInv, RowsTyped
  <2>3. rows[i].rev \in Nat /\ rows[i].base \in Nat
    BY <2>2, Numbers DEF Row
  <2>4. rows[i].rev \in 0..rev /\ rows[i].base \in 0..rev
    BY <1>1, <2>2, <2>3
  <2>5. QED
    BY <1>1, <1>2, <2>1, <2>4 DEF HistInv, RowsNameHist, Later
<1>3. CASE i \notin DOMAIN rows /\ ~Reopen
  <2>1. rows'[i] \in KnownRows
    BY <1>3, RowsStep DEF RowsGo, Grown
  <2> DEFINE n == rows'[i]
  <2>2. CASE n.rev = 0 /\ n.base = 0 /\ n.content = hist[0]
    BY <1>1, <2>2
  <2>3. CASE n.rev = rev /\ n.base = Effective /\ n.content = hist[rev]
    <3>1. rev \in 0..rev
      BY <1>1
    <3>2. QED
      BY <1>1, <2>3, <3>1 DEF HistInv
  <2>4. CASE \E k \in DOMAIN begins :
               n.rev = begins[k].rev /\ n.base = begins[k].base /\ n.content = hist[begins[k].rev]
    <3>1. PICK k \in DOMAIN begins :
               n.rev = begins[k].rev /\ n.base = begins[k].base /\ n.content = hist[begins[k].rev]
      BY <2>4
    <3>2. begins[k] \in PointsTo(rev)
      BY Members DEF TypeInv, Past
    <3>3. begins[k].rev \in Nat /\ begins[k].base \in Nat /\ begins[k].rev <= rev /\ begins[k].base <= begins[k].rev
      BY <3>2, Numbers DEF PointsTo
    <3>4. begins[k].rev \in 0..rev /\ begins[k].base \in 0..rev
      BY <1>1, <3>3
    <3>5. hist[begins[k].base] = hist[begins[k].rev]
      BY DEF HistInv, BeginsNameHist
    <3>6. QED
      BY <1>1, <3>1, <3>4, <3>5
  <2>5. QED
    BY <2>1, <2>2, <2>3, <2>4 DEF KnownRows, Known
<1>4. CASE i \notin DOMAIN rows /\ Reopen
  <2>1. hist'[rev'] = saved.content
    BY <1>4, ReopenMoves
  <2>2. PICK n \in Row : /\ n.rev = rev' /\ n.base = rev' /\ n.content = saved.content
                         /\ Grown(rows', {n})
    BY <1>4, ReopenRows
  <2>3. rows'[i] = n
    BY <1>4, <2>2 DEF Grown
  <2>4. QED
    BY <2>1, <2>2, <2>3
<1>5. QED
  BY <1>2, <1>3, <1>4

LEMMA BeginsHistKept ==
  ASSUME TypeInv, HistInv, [Next]_vars
  PROVE  BeginsNameHist'
<1>1. \A r \in 0..rev : hist'[r] = hist[r]
  BY HistSame
<1>2. rev \in Nat /\ rev \in 0..rev /\ Effective \in 0..rev
  BY HistSame
<1>3. /\ DOMAIN begins = 1..Len(begins) /\ Len(begins) \in Nat
      /\ \A k \in DOMAIN begins : /\ begins[k].rev \in 0..rev /\ begins[k].base \in 0..rev
                                  /\ hist[begins[k].base] = hist[begins[k].rev]
  <2>1. DOMAIN begins = 1..Len(begins) /\ Len(begins) \in Nat /\ \A k \in DOMAIN begins : begins[k] \in PointsTo(rev)
    BY Members DEF TypeInv, Past
  <2>2. ASSUME NEW p \in PointsTo(rev) PROVE p.rev \in 0..rev /\ p.base \in 0..rev
    <3>1. p.rev \in Nat /\ p.base \in Nat /\ p.rev <= rev /\ p.base <= p.rev
      BY Numbers DEF PointsTo
    <3>2. QED
      BY <1>2, <3>1
  <2>3. QED
    BY <2>1, <2>2 DEF HistInv, BeginsNameHist
<1>4. CASE Begin
  <2> DEFINE p == [rev |-> rev, base |-> Effective, trail |-> trail, strayed |-> strayed]
  <2>1. begins' = Append(begins, p) /\ hist' = hist
    BY <1>4 DEF Begin
  <2>2. p.rev = rev /\ p.base = Effective
    OBVIOUS
  <2> HIDE DEF p
  <2>3. /\ DOMAIN begins' = 1..(Len(begins) + 1)
        /\ \A k \in 1..Len(begins) : begins'[k] = begins[k]
        /\ begins'[Len(begins) + 1] = p
    <3>1. begins \in Seq(PointsTo(rev) \cup {p}) /\ p \in PointsTo(rev) \cup {p}
      <4>1. begins \in Seq(PointsTo(rev)) /\ PointsTo(rev) \subseteq PointsTo(rev) \cup {p}
        BY DEF TypeInv, Past
      <4>2. QED
        BY <4>1, SeqMonotonic
    <3>2. QED
      BY <2>1, <3>1, Appended
  <2>4. ASSUME NEW k \in DOMAIN begins' PROVE hist'[begins'[k].base] = hist'[begins'[k].rev]
    <3>1. CASE k \in 1..Len(begins)
      BY <1>3, <2>1, <2>3, <3>1
    <3>2. CASE k = Len(begins) + 1
      BY <2>1, <2>2, <2>3, <3>2 DEF HistInv
    <3>3. QED
      BY <1>3, <2>3, <2>4, <3>1, <3>2
  <2>5. QED
    BY <2>4 DEF BeginsNameHist
<1>5. CASE Commit \/ Rollback
  <2>1. begins # <<>> /\ begins' = Front(begins)
    BY <1>5 DEF Commit, Rollback
  <2>2. DOMAIN begins' = 1..(Len(begins) - 1) /\ \A k \in 1..(Len(begins) - 1) : begins'[k] = begins[k] /\ k \in DOMAIN begins
    BY <1>3, <2>1, BeginTypes
  <2>3. QED
    BY <1>1, <1>3, <2>2 DEF BeginsNameHist
<1>6. CASE Leave
  BY <1>6 DEF Leave, BeginsNameHist
<1>7. CASE ~(Begin \/ Commit \/ Rollback \/ Leave)
  <2>1. begins' = begins
    BY <1>7 DEF Next, Edit, UndoInMemory, UndoInStore, UndoDoesNotLoad, RedoInMemory, RedoInStore, Restore,
           Label, Save, BudgetEvicts, Budget, Reopen, vars, memVars
  <2>2. QED
    BY <1>1, <1>3, <2>1 DEF BeginsNameHist
<1>8. QED
  BY <1>4, <1>5, <1>6, <1>7

LEMMA SavedHistKept ==
  ASSUME TypeInv, HistInv, [Next]_vars
  PROVE  saved' # None => saved'.content = hist'[saved'.rev]
<1>1. rev \in Nat /\ \A r \in 0..rev : hist'[r] = hist[r]
  BY HistSame
<1>2. CASE Save
  BY <1>2 DEF Save
<1>3. CASE Reopen
  <2>1. hist'[rev'] = saved.content /\ saved # None
    BY <1>3, ReopenMoves
  <2>2. saved'.rev = rev' /\ saved'.content = saved.content
    <3>1. saved \in SavedType(rev)
      BY <2>1 DEF TypeInv, Past, SavedType
    <3>2. PICK stray : saved' = [saved EXCEPT !.rev = rev', !.strayed = stray]
      BY <1>3 DEF Reopen
    <3>3. QED
      BY <3>1, <3>2 DEF SavedType
  <2>3. QED
    BY <2>1, <2>2
<1>4. CASE ~(Save \/ Reopen)
  <2>1. saved' = saved
    BY <1>4 DEF Next, Edit, UndoInMemory, UndoInStore, UndoDoesNotLoad, RedoInMemory, RedoInStore, Restore,
           Label, Begin, Commit, Rollback, BudgetEvicts, Budget, Leave, vars
  <2>2. ASSUME saved # None PROVE saved.rev \in 0..rev
    <3>1. saved.rev \in Nat /\ saved.rev <= rev
      BY <2>2, Numbers DEF TypeInv, Past
    <3>2. QED
      BY <1>1, <3>1
  <2>3. QED
    BY <1>1, <2>1, <2>2 DEF HistInv
<1>5. QED
  BY <1>2, <1>3, <1>4

LEMMA EffectiveHistKept ==
  ASSUME TypeInv, HistInv, [Next]_vars
  PROVE  hist'[Effective'] = hist'[rev']
<1>1. rev \in Nat /\ (\A r \in 0..rev : hist'[r] = hist[r]) /\ rev \in 0..rev
  BY HistSame
<1>2. Effective' = IF base' = None THEN rev' ELSE base'
  BY DEF Effective
<1>3. CASE base' = None
  BY <1>2, <1>3
<1>4. CASE Edit \/ UndoInMemory \/ UndoInStore \/ RedoInMemory \/ RedoInStore \/ Restore \/ Rollback
  <2>1. Drawn
    BY <1>4, DrawnIs
  <2>2. CASE Edit
    BY <1>3, <2>2 DEF Edit
  <2>3. CASE \E h \in 0..rev : Becomes(hist[h]) /\ base' = h
    <3>1. PICK h \in 0..rev : Becomes(hist[h]) /\ base' = h
      BY <2>3
    <3>2. h \in Revs /\ hist[h] \in Revs
      BY <1>1, Numbers DEF Revs, TypeInv, Scalars
    <3>3. hist'[rev'] = hist[h] /\ hist'[h] = hist[h]
      BY <1>1, <3>1, <3>2, BecomesMoves DEF TypeInv
    <3>4. QED
      BY <1>2, <1>3, <3>1, <3>3
  <2>4. CASE \E i \in DOMAIN Shown : Becomes(Shown[i].content) /\ base' \in {None, Shown[i].base}
    <3>1. PICK i \in DOMAIN Shown : Becomes(Shown[i].content) /\ base' \in {None, Shown[i].base}
      BY <2>4
    <3>2. /\ Shown[i].content \in Revs /\ Shown[i].base \in Revs /\ Shown[i].rev \in Revs
          /\ Shown[i].base <= Shown[i].rev /\ Shown[i].rev <= rev
      BY ShownTypes
    <3>3. Shown[i].base \in Nat /\ Shown[i].rev \in Nat
      BY <3>2, Numbers
    <3>4. Shown[i].base \in 0..rev
      BY <1>1, <3>2, <3>3
    <3>5. Shown[i].content = hist[Shown[i].base]
      BY ShownHist
    <3>6. hist'[rev'] = Shown[i].content /\ hist'[Shown[i].base] = hist[Shown[i].base]
      BY <1>1, <3>1, <3>2, <3>4, BecomesMoves DEF TypeInv
    <3>7. QED
      BY <1>2, <1>3, <3>1, <3>5, <3>6
  <2>5. CASE begins # <<>> /\ Becomes(hist[Last(begins).rev]) /\ base' = Last(begins).base
    <3>1. /\ Last(begins) \in PointsTo(rev) /\ Last(begins) = begins[Len(begins)] /\ Len(begins) \in DOMAIN begins
      BY <2>5, BeginTypes
    <3>2. /\ Last(begins).rev \in Revs /\ Last(begins).rev \in Nat /\ Last(begins).base \in Nat
          /\ Last(begins).base <= Last(begins).rev /\ Last(begins).rev <= rev
      BY <3>1, Numbers DEF PointsTo
    <3>3. Last(begins).base \in 0..rev /\ hist[Last(begins).rev] \in Revs
      BY <1>1, <3>2 DEF TypeInv, Scalars
    <3>4. hist[Last(begins).base] = hist[Last(begins).rev]
      BY <3>1 DEF HistInv, BeginsNameHist
    <3>5. hist'[rev'] = hist[Last(begins).rev]
      BY <2>5, <3>3, BecomesMoves DEF TypeInv
    <3>6. QED
      BY <1>1, <1>2, <1>3, <2>5, <3>3, <3>4, <3>5
  <2>6. QED
    BY <2>1, <2>2, <2>3, <2>4, <2>5 DEF Drawn
<1>5. CASE Reopen /\ base' # None
  <2>1. Live(rows) # {} => Newest(Live(rows)) \in DOMAIN rows
    <3>1. Live(rows) \subseteq DOMAIN rows /\ rows \in Seq(Row)
      BY DEF Live, TypeInv, RowsTyped
    <3>2. QED
      BY <3>1, NewestIs
  <2>2. PICK i \in DOMAIN rows : base' = rows[i].base /\ rows[i].rev = rev' /\ rows' = rows
    BY <1>5, <2>1 DEF Reopen, ReopenedBase
  <2>3. i \in DOMAIN rows' /\ rows'[i] = rows[i]
    BY <2>2
  <2>4. RowsNameHist'
    BY RowsHistKept
  <2>5. hist'[rows'[i].base] = hist'[rows'[i].rev]
    BY <2>3, <2>4 DEF RowsNameHist
  <2>6. QED
    BY <1>2, <1>3, <2>2, <2>3, <2>5
<1>6. CASE UndoDoesNotLoad \/ Label \/ Save \/ Begin \/ Commit \/ BudgetEvicts \/ UNCHANGED vars
  <2>1. UNCHANGED <<rev, hist, base>>
    BY <1>6 DEF UndoDoesNotLoad, Label, Save, Begin, Commit, BudgetEvicts, Budget, vars, memVars
  <2>2. QED
    BY <1>2, <2>1 DEF HistInv, Effective
<1>7. CASE Leave
  BY <1>3, <1>7 DEF Leave
<1>8. QED
  BY <1>3, <1>4, <1>5, <1>6, <1>7 DEF Next

LEMMA HistStep ==
  ASSUME TypeInv, HistInv, [Next]_vars
  PROVE  HistInv'
BY RowsHistKept, BeginsHistKept, SavedHistKept, EffectiveHistKept DEF HistInv

LEMMA HistInit == Init => HistInv
BY DEF Init, HistInv, RowsNameHist, BeginsNameHist, Effective

\* Every kept row holds what the drawing was at its revision, and what an undo steps
\* back from names the content that is current - however rows are captured late, held
\* back, evicted or skipped, and whatever a kill or a reopening loses.
THEOREM RowsHoldTheirRevisionHolds == Spec => []RowsHoldTheirRevision
<1>1. Init => TypeInv /\ HistInv
  BY TypeInit, HistInit
<1>2. TypeInv /\ HistInv /\ [Next]_vars => (TypeInv /\ HistInv)'
  BY TypeStep, HistStep
<1>3. TypeInv /\ HistInv => RowsHoldTheirRevision
  <2> SUFFICES ASSUME TypeInv, HistInv PROVE RowsHoldTheirRevision
    OBVIOUS
  <2>2. \A i \in Live(Shown) : Shown[i].content = hist[Shown[i].rev]
    BY ShownHist DEF Live
  <2>3. QED
    BY <2>2 DEF RowsHoldTheirRevision, HistInv
<1>4. QED
  BY <1>1, <1>2, <1>3, PTL DEF Spec

-------------------------------------------------------------------------------
(* What a restore replaced *)

NoneTorn == {"cut", "load"} \cap Mishaps = {}

\* A pre_undo row is behind the revision, and no row is live without its file.
RowsSound ==
  /\ \A i \in DOMAIN rows : rows[i].kind = "pre_undo" => rows[i].rev < rev
  /\ \A i \in DOMAIN rows : ~rows[i].evicted => rows[i].there

\* The next undo finds what the last restore replaced: its row is just behind the
\* revision, is none that an undo skips, and memory holds nothing to undo first.
ReplacedIsNext ==
  replaced # None =>
    /\ rows[replaced].rev + 1 = rev /\ rows[replaced].kind # "pre_undo"
    /\ base = None /\ Len(undoStack) < 2

RestoreInv == RowsSound /\ ReplacedIsNext

LEMMA RowsSoundKept ==
  ASSUME TypeInv, RowsSound, NoneTorn, [Next]_vars
  PROVE  RowsSound'
<1>1. /\ Moves /\ rev \in Nat /\ rev' \in Nat /\ rev <= rev'
  BY TypeStep, StillPast
<1> SUFFICES ASSUME NEW i \in DOMAIN rows'
             PROVE  /\ rows'[i].kind = "pre_undo" => rows'[i].rev < rev'
                    /\ ~rows'[i].evicted => rows'[i].there
  BY DEF RowsSound
<1>2. CASE i \in DOMAIN rows
  <2>1. /\ Later(rows[i], rows'[i])
        /\ rows'[i].evicted \/ rows'[i].there = rows[i].there
    <3>1. "cut" \notin Mishaps
      BY DEF NoneTorn
    <3>2. Grown(rows', {n \in Row : n.base <= n.rev /\ n.rev <= rev'})
      BY <1>1, RowsMove
    <3>3. QED
      BY <1>2, <3>1, <3>2 DEF Grown
  <2>2. rows[i] \in Row /\ rows[i].rev \in Nat
    <3>1. rows[i] \in Row
      BY <1>2, Members DEF TypeInv, RowsTyped
    <3>2. QED
      BY <3>1, Numbers DEF Row
  <2>3. rows'[i].kind = rows[i].kind /\ rows'[i].rev = rows[i].rev /\ (rows[i].evicted => rows'[i].evicted)
    BY <2>1 DEF Later
  <2>4. /\ rows[i].kind = "pre_undo" => rows[i].rev < rev
        /\ ~rows[i].evicted => rows[i].there
    BY <1>2 DEF RowsSound
  <2>5. QED
    BY <1>1, <2>1, <2>2, <2>3, <2>4
<1>3. CASE i \notin DOMAIN rows /\ ~Reopen
  <2>1. rows'[i] \in KnownRows /\ (rows'[i].kind = "pre_undo" => rev' = rev + 1)
    BY <1>3, RowsStep DEF RowsGo, Grown, NoneTorn
  <2>2. rows'[i] \in Row /\ Known(rows'[i])
    BY <2>1 DEF KnownRows
  <2>3. rows'[i].rev <= rev /\ rows'[i].rev \in Nat
    BY <2>2, KnownIsPast
  <2>4. rows'[i].there
    BY <2>2 DEF Known
  <2>5. QED
    BY <1>1, <2>1, <2>3, <2>4
<1>4. CASE i \notin DOMAIN rows /\ Reopen
  <2>1. PICK n \in Row : n.kind = "open" /\ n.there /\ Grown(rows', {n})
    BY <1>4, ReopenRows
  <2>2. rows'[i] = n
    BY <1>4, <2>1 DEF Grown
  <2>3. QED
    BY <2>1, <2>2
<1>5. QED
  BY <1>2, <1>3, <1>4

LEMMA ReplacedKept ==
  ASSUME TypeInv, RestoreInv, NoneTorn, [Next]_vars
  PROVE  ReplacedIsNext'
<1>1. rev \in Nat /\ TypeInv' /\ Moves
  BY TypeStep, StillPast
<1>2. CASE Restore
  <2>1. replaced' = Before /\ base' = None /\ undoStack' = Baseline(rev') /\ rev' = rev + 1
    BY <1>2 DEF Restore, RestoredBase, Replace, Becomes
  <2>2. Len(undoStack') < 2
    <3>1. depth \in Nat /\ rev' \in Nat
      BY <1>1, StillPast
    <3>2. Len(Baseline(rev')) <= 1 /\ Len(Baseline(rev')) \in Nat
      BY <3>1, BaselineIs
    <3>3. QED
      BY <2>1, <3>2
  <2>3. rows'[Before].rev = rev
    BY <1>2, BeforeIsRow
  <2>4. rows'[Before].kind # "pre_undo"
    <3>1. CASE Before \in Holding /\ rows' = rows
      <4>1. Before \in DOMAIN rows /\ rows[Before].rev = rev
        BY <3>1 DEF Holding, Live
      <4>2. ~(rows[Before].rev < rev)
        BY <1>1, <4>1
      <4>3. QED
        BY <3>1, <4>1, <4>2 DEF RestoreInv, RowsSound
    <3>2. CASE \E f \in Forms : rows'[Before] = NewRow("pre_restore", rev, Effective, f)
      BY <3>2 DEF NewRow
    <3>3. QED
      BY <1>2, <3>1, <3>2, BeforeIsRow
  <2>5. QED
    BY <1>1, <2>1, <2>2, <2>3, <2>4 DEF ReplacedIsNext
<1>3. CASE replaced' = None
  BY <1>3 DEF ReplacedIsNext
<1>4. CASE Label \/ Save \/ Begin \/ Commit \/ BudgetEvicts \/ UNCHANGED vars
  <2>1. UNCHANGED <<rev, base, undoStack, replaced>>
    BY <1>4 DEF Label, Save, Begin, Commit, BudgetEvicts, Budget, vars, memVars, ghosts
  <2>2. CASE replaced # None
    <3>1. replaced \in DOMAIN rows
      BY <2>2 DEF TypeInv, Named
    <3>2. Later(rows[replaced], rows'[replaced])
      BY <1>1, <3>1, RowsMove DEF Grown
    <3>3. QED
      BY <2>1, <2>2, <3>2 DEF RestoreInv, ReplacedIsNext, Later
  <2>3. QED
    BY <1>3, <2>1, <2>2
<1>5. CASE Reopen
  BY <1>3, <1>5 DEF Reopen, TypeInv, Shut
<1>6. CASE UndoDoesNotLoad
  BY <1>6 DEF UndoDoesNotLoad, NoneTorn
<1>7. QED
  BY <1>2, <1>3, <1>4, <1>5, <1>6 DEF Next, Edit, UndoInMemory, UndoInStore, RedoInMemory, RedoInStore, Rollback, Leave

LEMMA RestoreStep ==
  ASSUME TypeInv, RestoreInv, NoneTorn, [Next]_vars
  PROVE  RestoreInv'
BY RowsSoundKept, ReplacedKept DEF RestoreInv

LEMMA RestoreInit == Init => RestoreInv
BY DEF Init, RestoreInv, RowsSound, ReplacedIsNext

LEMMA ReplacedIsUndone ==
  ASSUME TypeInv, HistInv, RestoreInv
  PROVE  RestoreIsUndone
<1> SUFFICES ASSUME replaced # None, ~rows[replaced].evicted, hist[rev] # rows[replaced].content
             PROVE  /\ Len(undoStack) < 2 /\ Candidates # {}
                    /\ Shown[Target].there /\ Shown[Target].content = rows[replaced].content
  BY DEF RestoreIsUndone
<1>1. replaced \in DOMAIN rows /\ rows # <<>> /\ Shown = rows
  <2>1. replaced \in DOMAIN rows
    BY DEF TypeInv, Named
  <2>2. rows # <<>>
    BY <2>1
  <2>3. QED
    BY <2>1, <2>2, Rowed, WithS0Is DEF Pending
<1>2. /\ rows[replaced].rev + 1 = rev /\ rows[replaced].kind # "pre_undo"
      /\ base = None /\ Len(undoStack) < 2
  BY DEF RestoreInv, ReplacedIsNext
<1>3. /\ \A i \in DOMAIN rows : rows[i].rev \in Nat
      /\ rev \in Nat /\ Effective = rev
  <2>1. \A i \in DOMAIN rows : rows[i] \in Row
    BY Members DEF TypeInv, RowsTyped
  <2>2. QED
    BY <1>2, <2>1, Numbers DEF Row, TypeInv, Scalars, Effective
<1>4. replaced \in Candidates
  <2>1. rows[replaced].rev < Effective
    BY <1>1, <1>2, <1>3
  <2>2. ~IsCurrent(rows[replaced])
    BY DEF IsCurrent
  <2>3. QED
    BY <1>1, <1>2, <2>1, <2>2 DEF Candidates, Live
<1>5. /\ Target \in DOMAIN rows /\ ~rows[Target].evicted /\ rows[Target].rev < rev
      /\ rows[replaced].rev <= rows[Target].rev
  <2>1. Target \in Candidates /\ (rows[replaced].rev < rows[Target].rev \/ rows[replaced].rev = rows[Target].rev)
    BY <1>1, <1>4, Rowed, TargetIs
  <2>2. Target \in DOMAIN rows /\ ~rows[Target].evicted /\ rows[Target].rev < rev
    BY <1>1, <1>3, <2>1 DEF Candidates, Live
  <2>3. QED
    BY <1>1, <1>3, <2>1, <2>2
<1>6. rows[Target].rev = rows[replaced].rev
  BY <1>1, <1>2, <1>3, <1>5
<1>7. rows[Target].content = rows[replaced].content
  BY <1>1, <1>5, <1>6 DEF HistInv, RowsNameHist
<1>8. rows[Target].there
  BY <1>5 DEF RestoreInv, RowsSound
<1>9. QED
  BY <1>1, <1>2, <1>4, <1>7, <1>8

\* Where no eviction of another lineage is cut short and every restored snapshot loads,
\* the undo after a restore finds what the restore replaced, whatever tools, saves and
\* evictions come between, as long as the row is kept.
THEOREM RestoreIsUndoneHolds ==
  ASSUME NoneTorn
  PROVE  Spec => []RestoreIsUndone
<1>1. Init => TypeInv /\ HistInv /\ RestoreInv
  BY TypeInit, HistInit, RestoreInit
<1>2. TypeInv /\ HistInv /\ RestoreInv /\ [Next]_vars => (TypeInv /\ HistInv /\ RestoreInv)'
  BY TypeStep, HistStep, RestoreStep
<1>3. TypeInv /\ HistInv /\ RestoreInv => RestoreIsUndone
  BY ReplacedIsUndone
<1>4. QED
  BY <1>1, <1>2, <1>3, PTL DEF Spec

-------------------------------------------------------------------------------
(* Undo walks back *)

State == [rev : Revs, as : Revs]

\* Every state of the trail was left by an undo that went back below it.
Descends(t, e) ==
  /\ \A i \in DOMAIN t : e < t[i].as /\ t[i].as <= t[i].rev
  /\ \A i, j \in DOMAIN t : i < j => t[j].as < t[i].as

\* What is of the revision r has the undo base e.
BasesAt(ps, r, e) == \A i \in DOMAIN ps : ps[i].rev = r => ps[i].base = e

\* The undo base is below all that undos left, and is what a row would tell.
Walked == up /\ ~strayed => Descends(trail, Effective) /\ BasesAt(rows, rev, Effective)

\* So it was at each begin, to which a rollback returns.
BeginsWalked ==
  /\ \A k \in DOMAIN begins : ~begins[k].strayed => Descends(begins[k].trail, begins[k].base)
  /\ BasesAt(begins, rev, Effective)

\* ... and at the last save, from which a reopening goes on.
SavedWalked ==
  saved # None /\ ~saved.strayed =>
    \E e \in Revs : /\ e <= saved.rev /\ Descends(saved.trail, e)
                    /\ BasesAt(rows, saved.rev, e) /\ BasesAt(begins, saved.rev, e)
                    /\ up /\ saved.rev = rev => Effective = e

\* The rows to redo are those of the last states on the trail.
RedoWalked ==
  ~strayed =>
    /\ Len(storeRedo) <= Len(trail)
    /\ \A k \in DOMAIN storeRedo :
         rows[storeRedo[k]].base = trail[Len(trail) - Len(storeRedo) + k].as

WalkInv == depth = 0 => Walked /\ BeginsWalked /\ SavedWalked /\ RedoWalked

LEMMA DescendsFurther ==
  ASSUME NEW t \in Seq(State), NEW e \in Nat, Descends(t, e),
         NEW h \in State, h.as = e, e <= h.rev, NEW f \in Nat, f < e
  PROVE  Descends(Append(t, h), f)
<1> DEFINE s == Append(t, h)
<1>1. /\ Len(t) \in Nat /\ DOMAIN t = 1..Len(t) /\ DOMAIN s = 1..(Len(t) + 1)
      /\ \A i \in 1..Len(t) : s[i] = t[i]
      /\ s[Len(t) + 1] = h
      /\ \A i \in DOMAIN t : t[i] \in State
  BY Appended
<1> HIDE DEF s
<1>2. \A i \in DOMAIN t : t[i].as \in Nat /\ t[i].rev \in Nat
  BY <1>1, Numbers DEF State
<1>3. ASSUME NEW i \in DOMAIN s PROVE f < s[i].as /\ s[i].as <= s[i].rev
  <2>1. CASE i \in 1..Len(t)
    BY <1>1, <1>2, <2>1 DEF Descends
  <2>2. CASE i = Len(t) + 1
    BY <1>1, <2>2
  <2>3. QED
    BY <1>1, <2>1, <2>2
<1>4. ASSUME NEW i \in DOMAIN s, NEW j \in DOMAIN s, i < j PROVE s[j].as < s[i].as
  <2>1. i \in 1..Len(t)
    BY <1>1, <1>4
  <2>2. CASE j \in 1..Len(t)
    BY <1>1, <1>4, <2>1, <2>2 DEF Descends
  <2>3. CASE j = Len(t) + 1
    BY <1>1, <2>1, <2>3 DEF Descends
  <2>4. QED
    BY <1>1, <2>2, <2>3
<1>5. QED
  BY <1>3, <1>4 DEF Descends, s

LEMMA DescendsLess ==
  ASSUME NEW t \in Seq(State), NEW e, Descends(t, e), t # <<>>
  PROVE  Descends(Front(t), t[Len(t)].as)
<1>1. /\ Len(t) \in Nat \ {0} /\ DOMAIN Front(t) = 1..(Len(t) - 1) /\ Len(t) \in DOMAIN t
      /\ \A i \in 1..(Len(t) - 1) : Front(t)[i] = t[i]
      /\ DOMAIN t = 1..Len(t)
  BY FrontLast, Members
<1>2. \A i \in 1..(Len(t) - 1) : i \in DOMAIN t /\ i < Len(t)
  BY <1>1
<1> DEFINE s == Front(t)
<1>3. DOMAIN s = 1..(Len(t) - 1) /\ \A i \in DOMAIN s : s[i] = t[i] /\ i \in DOMAIN t /\ i < Len(t)
  BY <1>1, <1>2
<1> HIDE DEF s
<1>4. ASSUME NEW i \in DOMAIN s
      PROVE  t[Len(t)].as < s[i].as /\ s[i].as <= s[i].rev
  BY <1>1, <1>3 DEF Descends
<1>5. ASSUME NEW i \in DOMAIN s, NEW j \in DOMAIN s, i < j PROVE s[j].as < s[i].as
  BY <1>3, <1>5 DEF Descends
<1>6. QED
  BY <1>4, <1>5 DEF Descends, s

\* A step adds no row of another base to a revision, but of the current one.
LEMMA BasesKept ==
  ASSUME TypeInv, [Next]_vars, ~Reopen, NEW r, NEW e,
         BasesAt(rows, r, e), BasesAt(begins, r, e), r = rev => e = Effective, r = 0 => e = 0
  PROVE  BasesAt(rows', r, e)
<1> SUFFICES ASSUME NEW i \in DOMAIN rows', rows'[i].rev = r PROVE rows'[i].base = e
  BY DEF BasesAt
<1>1. Grown(rows', KnownRows)
  BY RowsStep DEF RowsGo
<1>2. CASE i \in DOMAIN rows
  BY <1>1, <1>2 DEF Grown, Later, BasesAt
<1>3. CASE i \notin DOMAIN rows
  <2>1. Known(rows'[i])
    BY <1>1, <1>3 DEF Grown, KnownRows
  <2>2. QED
    BY <2>1 DEF Known, BasesAt
<1>4. QED
  BY <1>2, <1>3

\* A begin is one that was or notes the current revision, base and trail.
LEMMA BeginsGo ==
  ASSUME TypeInv, [Next]_vars, NEW k \in DOMAIN begins'
  PROVE  \/ \E j \in DOMAIN begins : begins'[k] = begins[j]
         \/ /\ begins'[k].rev = rev /\ begins'[k].base = Effective
            /\ begins'[k].trail = trail /\ begins'[k].strayed = strayed
            /\ up /\ rev' = rev /\ Effective' = Effective
<1>1. CASE Begin
  <2> DEFINE p == [rev |-> rev, base |-> Effective, trail |-> trail, strayed |-> strayed]
  <2>1. begins' = Append(begins, p)
    BY <1>1 DEF Begin
  <2>2. p.rev = rev /\ p.base = Effective /\ p.trail = trail /\ p.strayed = strayed
    OBVIOUS
  <2> HIDE DEF p
  <2>3. /\ Len(begins) \in Nat /\ DOMAIN begins = 1..Len(begins)
        /\ DOMAIN begins' = 1..(Len(begins) + 1)
        /\ \A j \in 1..Len(begins) : begins'[j] = begins[j]
        /\ begins'[Len(begins) + 1] = p
    <3>1. begins \in Seq(PointsTo(rev) \cup {p}) /\ p \in PointsTo(rev) \cup {p}
      <4>1. begins \in Seq(PointsTo(rev)) /\ PointsTo(rev) \subseteq PointsTo(rev) \cup {p}
        BY DEF TypeInv, Past
      <4>2. QED
        BY <4>1, SeqMonotonic
    <3>2. QED
      BY <2>1, <3>1, Appended
  <2>4. up /\ rev' = rev /\ Effective' = Effective
    BY <1>1 DEF Begin, Effective
  <2>5. CASE k \in 1..Len(begins)
    BY <2>3, <2>5
  <2>6. CASE k = Len(begins) + 1
    BY <2>2, <2>3, <2>4, <2>6
  <2>7. QED
    BY <2>3, <2>5, <2>6
<1>2. CASE Commit \/ Rollback
  <2>1. begins # <<>> /\ begins' = Front(begins)
    BY <1>2 DEF Commit, Rollback
  <2>2. /\ Len(begins) \in Nat /\ DOMAIN begins = 1..Len(begins)
        /\ DOMAIN begins' = 1..(Len(begins) - 1) /\ \A j \in 1..(Len(begins) - 1) : begins'[j] = begins[j]
    BY <2>1, BeginTypes
  <2>3. k \in DOMAIN begins /\ begins'[k] = begins[k]
    BY <2>2
  <2>4. QED
    BY <2>3
<1>3. CASE Leave
  BY <1>3 DEF Leave
<1>4. CASE ~(Begin \/ Commit \/ Rollback \/ Leave)
  BY <1>4 DEF Next, Edit, UndoInMemory, UndoInStore, UndoDoesNotLoad, RedoInMemory, RedoInStore, Restore,
           Label, Save, BudgetEvicts, Budget, Reopen, vars, memVars
<1>5. QED
  BY <1>1, <1>2, <1>3, <1>4

\* No row and no begin is of a revision that is still to come.
LEMMA NothingAhead ==
  ASSUME TypeInv, [Next]_vars, ~Reopen, rev' = rev + 1
  PROVE  \A e : BasesAt(rows', rev', e) /\ BasesAt(begins', rev', e)
<1>1. rev \in Nat /\ Grown(rows', KnownRows)
  BY RowsStep, Numbers DEF RowsGo, TypeInv, Scalars
<1>2. ASSUME NEW i \in DOMAIN rows' PROVE rows'[i].rev # rev'
  <2>1. CASE i \in DOMAIN rows
    <3>1. rows'[i].rev = rows[i].rev /\ rows[i] \in Row /\ rows[i].rev <= rev
      BY <1>1, <2>1, Members DEF Grown, Later, TypeInv, RowsTyped
    <3>2. rows[i].rev \in Nat
      BY <3>1, Numbers DEF Row
    <3>3. QED
      BY <1>1, <3>1, <3>2
  <2>2. CASE i \notin DOMAIN rows
    <3>1. rows'[i] \in Row /\ Known(rows'[i])
      BY <1>1, <2>2 DEF Grown, KnownRows
    <3>2. rows'[i].rev <= rev /\ rows'[i].rev \in Nat
      BY <3>1, KnownIsPast
    <3>3. QED
      BY <1>1, <3>2
  <2>3. QED
    BY <2>1, <2>2
<1>3. ASSUME NEW k \in DOMAIN begins' PROVE begins'[k].rev # rev'
  <2>1. PICK j \in DOMAIN begins : begins'[k] = begins[j]
    BY <1>1, BeginsGo
  <2>2. begins[j] \in PointsTo(rev)
    BY Members DEF TypeInv, Past
  <2>3. begins[j].rev \in Nat /\ begins[j].rev <= rev
    BY <2>2, Numbers DEF PointsTo
  <2>4. QED
    BY <1>1, <2>1, <2>3
<1>4. QED
  BY <1>2, <1>3 DEF BasesAt

\* A step ends the session or begins it, moves the revision, or leaves what is current.
LEMMA StepKinds ==
  ASSUME TypeInv, [Next]_vars
  PROVE  \/ Reopen \/ Leave
         \/ rev' = rev + 1
         \/ rev' = rev /\ Effective' = Effective /\ UNCHANGED <<up, trail, strayed, storeRedo>>
BY DEF Next, Edit, UndoInMemory, UndoInStore, UndoDoesNotLoad, RedoInMemory, RedoInStore, Restore,
       Label, Save, Begin, Commit, Rollback, BudgetEvicts, Budget, Replace, Becomes, vars, memVars, ghosts, Effective

\* While the drawing is not open only other lineages touch its rows.
LEMMA WhileShut ==
  ASSUME TypeInv, ~up, [Next]_vars, ~Reopen
  PROVE  /\ ~up' /\ begins' = begins /\ rev' = rev
         /\ \A r, e : BasesAt(rows, r, e) => BasesAt(rows', r, e)
<1>1. BudgetEvicts \/ UNCHANGED vars
  BY DEF Next, Edit, UndoInMemory, UndoInStore, UndoDoesNotLoad, RedoInMemory, RedoInStore, Restore,
         Label, Save, Begin, Commit, Rollback, Leave
<1>2. /\ ~up' /\ begins' = begins /\ rev' = rev
  <2>1. CASE BudgetEvicts
    <3>1. PICK n \in DOMAIN rows : Budget(n)
      BY <2>1 DEF BudgetEvicts
    <3>2. UNCHANGED <<up, rev, memVars>>
      BY <3>1 DEF Budget
    <3>3. QED
      BY <3>2 DEF memVars
  <2>2. CASE UNCHANGED vars
    BY <2>2 DEF vars, memVars
  <2>3. QED
    BY <1>1, <2>1, <2>2
<1>3. DOMAIN rows' = DOMAIN rows
  BY <1>1 DEF BudgetEvicts, Budget, vars
<1>4. \A i \in DOMAIN rows : Later(rows[i], rows'[i])
  BY RowsStep DEF RowsGo, Grown
<1>5. QED
  BY <1>2, <1>3, <1>4 DEF BasesAt, Later

\* A reopened drawing that has not strayed goes on where it was saved.
LEMMA ReopenWalked ==
  ASSUME TypeInv, SavedWalked, Reopen, ~strayed'
  PROVE  /\ Effective' \in Revs /\ Effective' <= saved'.rev /\ saved'.rev = rev' /\ saved'.trail = saved.trail
         /\ Descends(saved.trail, Effective') /\ BasesAt(rows', rev', Effective')
<1>1. /\ saved # None /\ saved.rev \in Revs /\ saved.rev <= rev
      /\ (rev' = rev + 1) <=> saved.rev < rev
      /\ rev' \in {rev, rev + 1}
  BY ReopenMoves
<1>2. saved.rev \in Nat /\ rev \in Nat
  BY <1>1, Numbers DEF TypeInv, Scalars
<1> DEFINE i == Newest(Live(rows))
<1>3. /\ ~saved.strayed /\ rows' = rows /\ Live(rows) # {} /\ rows[i].rev = rev' /\ base' = rows[i].base
  BY <1>1, <1>2 DEF Reopen, ReopenedBase
<1>4. i \in DOMAIN rows
  <2>1. Live(rows) \subseteq DOMAIN rows /\ rows \in Seq(Row)
    BY DEF Live, TypeInv, RowsTyped
  <2>2. QED
    BY <1>3, <2>1, NewestIs
<1>5. rows[i] \in Row /\ rows[i].rev <= rev
  BY <1>4, Members DEF TypeInv, RowsTyped
<1>6. rows[i].rev \in Nat /\ rows[i].base \in Nat /\ rows[i].base \in Revs
  BY <1>5, Numbers DEF Row
<1> HIDE DEF i
<1>7. rev' = rev /\ saved.rev = rev
  BY <1>1, <1>2, <1>3, <1>5, <1>6
<1>8. PICK e \in Revs : e <= saved.rev /\ Descends(saved.trail, e) /\ BasesAt(rows, saved.rev, e)
  BY <1>1, <1>3 DEF SavedWalked
<1>9. base' = e
  BY <1>3, <1>4, <1>7, <1>8 DEF BasesAt
<1>10. Effective' = e
  <2>1. base' # None
    BY <1>3, <1>6, Numbers
  <2>2. QED
    BY <1>9, <2>1 DEF Effective
<1>11. saved'.rev = rev' /\ saved'.trail = saved.trail
  <2>1. saved \in SavedType(rev)
    BY <1>1 DEF TypeInv, Past, SavedType
  <2>2. PICK stray : saved' = [saved EXCEPT !.rev = rev', !.strayed = stray]
    BY DEF Reopen
  <2>3. QED
    BY <2>1, <2>2 DEF SavedType
<1>12. QED
  BY <1>3, <1>7, <1>8, <1>10, <1>11

LEMMA BeginsWalkedKept ==
  ASSUME TypeInv, Walked, BeginsWalked, [Next]_vars
  PROVE  BeginsWalked'
<1>1. ASSUME NEW k \in DOMAIN begins', ~begins'[k].strayed
      PROVE  Descends(begins'[k].trail, begins'[k].base)
  BY <1>1, BeginsGo DEF BeginsWalked, Walked
<1>2. BasesAt(begins', rev', Effective')
  <2>1. CASE Reopen
    BY <2>1 DEF Reopen, TypeInv, Shut, BasesAt
  <2>2. CASE Leave
    BY <2>2 DEF Leave, BasesAt
  <2>3. CASE ~Reopen /\ rev' = rev + 1
    BY <2>3, NothingAhead
  <2>4. CASE rev' = rev /\ Effective' = Effective
    BY <2>4, BeginsGo DEF BeginsWalked, BasesAt
  <2>5. QED
    BY <2>1, <2>2, <2>3, <2>4, StepKinds
<1>3. QED
  BY <1>1, <1>2 DEF BeginsWalked

\* The current revision's base is what its rows tell, before and after.
LEMMA HereKept ==
  ASSUME TypeInv, up, ~strayed, Walked, BeginsWalked, [Next]_vars, ~Reopen
  PROVE  BasesAt(rows', rev, Effective)
<1>1. rev = 0 => Effective = 0
  BY EffectiveType DEF TypeInv
<1>2. QED
  BY <1>1, BasesKept DEF Walked, BeginsWalked

LEMMA SavedWalkedKept ==
  ASSUME TypeInv, Walked, BeginsWalked, SavedWalked, [Next]_vars
  PROVE  SavedWalked'
<1>1. rev \in Nat /\ Effective \in Revs /\ Effective \in Nat /\ Effective <= rev
  BY EffectiveType DEF TypeInv
<1>2. CASE Save
  <2>1. /\ saved'.rev = rev /\ saved'.trail = trail /\ saved'.strayed = strayed
        /\ up /\ rev' = rev /\ Effective' = Effective /\ begins' = begins
    BY <1>2 DEF Save, Effective
  <2>2. CASE ~strayed
    <3>1. Descends(trail, Effective) /\ BasesAt(begins, rev, Effective)
      BY <2>1, <2>2 DEF Walked, BeginsWalked
    <3>2. ~Reopen
      BY <2>1 DEF Reopen
    <3>3. BasesAt(rows', rev, Effective)
      BY <2>1, <2>2, <3>2, HereKept
    <3>4. QED
      BY <1>1, <2>1, <3>1, <3>3 DEF SavedWalked
  <2>3. QED
    BY <2>1, <2>2 DEF SavedWalked
<1>3. CASE Reopen
  <2>1. saved'.strayed = strayed' /\ begins' = <<>>
    <3>1. saved \in SavedType(rev)
      BY <1>3, ReopenMoves DEF TypeInv, Past, SavedType
    <3>2. PICK stray : saved' = [saved EXCEPT !.rev = rev', !.strayed = stray] /\ strayed' = stray
      BY <1>3 DEF Reopen
    <3>3. QED
      BY <1>3, <3>1, <3>2 DEF SavedType, Reopen, TypeInv, Shut
  <2>2. CASE ~strayed'
    <3>1. BasesAt(begins', rev', Effective')
      BY <2>1 DEF BasesAt
    <3>2. /\ Effective' \in Revs /\ Effective' <= saved'.rev /\ saved'.rev = rev' /\ saved'.trail = saved.trail
          /\ Descends(saved.trail, Effective') /\ BasesAt(rows', rev', Effective')
      BY <1>3, <2>2, ReopenWalked
    <3>3. QED
      BY <3>1, <3>2 DEF SavedWalked
  <2>3. QED
    BY <2>1, <2>2 DEF SavedWalked
<1>4. CASE ~(Save \/ Reopen)
  <2>1. saved' = saved
    BY <1>4 DEF Next, Edit, UndoInMemory, UndoInStore, UndoDoesNotLoad, RedoInMemory, RedoInStore, Restore,
           Label, Begin, Commit, Rollback, BudgetEvicts, Budget, Leave, vars
  <2> SUFFICES ASSUME saved # None, ~saved.strayed
               PROVE  \E e \in Revs : /\ e <= saved.rev /\ Descends(saved.trail, e)
                                      /\ BasesAt(rows', saved.rev, e) /\ BasesAt(begins', saved.rev, e)
                                      /\ up' /\ saved.rev = rev' => Effective' = e
    BY <2>1 DEF SavedWalked
  <2>2. PICK e \in Revs : /\ e <= saved.rev /\ Descends(saved.trail, e)
                          /\ BasesAt(rows, saved.rev, e) /\ BasesAt(begins, saved.rev, e)
                          /\ up /\ saved.rev = rev => Effective = e
    BY DEF SavedWalked
  <2>3. saved.rev \in Nat /\ saved.rev <= rev /\ e \in Nat
    BY Numbers DEF TypeInv, Past
  <2>4. saved.rev = 0 => e = 0
    BY <2>2, <2>3
  <2>5. CASE ~up
    <3>1. ~up' /\ begins' = begins /\ BasesAt(rows', saved.rev, e)
      BY <1>4, <2>2, <2>5, WhileShut
    <3>2. QED
      BY <2>2, <3>1
  <2>6. CASE up
    <3>1. BasesAt(rows', saved.rev, e)
      BY <1>4, <2>2, <2>4, <2>6, BasesKept
    <3>2. BasesAt(begins', saved.rev, e)
      BY <2>2, <2>6, BeginsGo DEF BasesAt
    <3>3. up' /\ saved.rev = rev' => Effective' = e
      <4>1. CASE Leave
        BY <4>1 DEF Leave
      <4>2. CASE rev' = rev + 1
        BY <1>1, <2>3, <4>2
      <4>3. CASE rev' = rev /\ Effective' = Effective
        BY <2>2, <2>6, <4>3
      <4>4. QED
        BY <1>4, <4>1, <4>2, <4>3, StepKinds
    <3>4. QED
      BY <2>2, <3>1, <3>2, <3>3
  <2>7. QED
    BY <2>5, <2>6
<1>5. QED
  BY <1>2, <1>3, <1>4

LEMMA TrailTypes ==
  ASSUME TypeInv
  PROVE  /\ trail \in Seq(State) /\ Len(trail) \in Nat /\ DOMAIN trail = 1..Len(trail)
         /\ \A i \in DOMAIN trail : /\ trail[i] \in State /\ trail[i].rev \in Nat /\ trail[i].as \in Nat
                                    /\ trail[i].rev \in Revs /\ trail[i].rev < rev
<1>1. trail \in Seq(State)
  BY TypeInvIsTypeOK DEF TypeOK, State
<1>2. /\ Len(trail) \in Nat /\ DOMAIN trail = 1..Len(trail)
      /\ \A i \in DOMAIN trail : trail[i] \in State
  BY <1>1, Members
<1>3. \A i \in DOMAIN trail : trail[i].rev \in Nat /\ trail[i].as \in Nat /\ trail[i].rev \in Revs
  BY <1>2, Numbers DEF State
<1>4. ASSUME NEW i \in DOMAIN trail PROVE trail[i].rev < rev
  <2> DEFINE A == [rev : 0..(rev - 1), as : Revs]
  <2>1. trail \in Seq(A)
    BY DEF TypeInv, Past, Trails
  <2>2. trail[i] \in A
    <3> HIDE DEF A
    <3>1. QED
      BY <2>1, Members
  <2>3. rev \in Nat
    BY Numbers DEF TypeInv, Scalars
  <2>4. QED
    BY <2>2, <2>3
<1>5. QED
  BY <1>1, <1>2, <1>3, <1>4

LEMMA HereIs ==
  ASSUME TypeInv
  PROVE  Here \in State /\ Here.as = Effective /\ Here.rev = rev
BY EffectiveType DEF TypeInv, Scalars, Here, State

\* What an undo in the store goes back to is below what it steps back from.
LEMMA TargetBelow ==
  ASSUME TypeInv, Candidates # {}
  PROVE  /\ Shown[Target].rev \in Nat /\ Shown[Target].base \in Nat
         /\ Shown[Target].base <= Shown[Target].rev /\ Shown[Target].rev < Effective
         /\ Target \in DOMAIN Shown /\ ~Shown[Target].evicted
<1>1. Target \in DOMAIN Shown /\ Target \in Candidates
  BY ChosenIsShown
<1>2. /\ Shown[Target].rev \in Revs /\ Shown[Target].base \in Revs
      /\ Shown[Target].base <= Shown[Target].rev
  BY <1>1, ShownTypes
<1>3. Shown[Target].rev < Effective /\ ~Shown[Target].evicted
  BY <1>1 DEF Candidates, Live
<1>4. QED
  BY <1>1, <1>2, <1>3, Numbers

\* The last row to redo tells the base of the last state on the trail.
LEMMA RedoTop ==
  ASSUME TypeInv, RedoWalked, ~strayed, storeRedo # <<>>
  PROVE  /\ trail # <<>> /\ Len(storeRedo) \in Nat \ {0} /\ Len(storeRedo) <= Len(trail)
         /\ Len(trail) \in DOMAIN trail
         /\ rows[Last(storeRedo)].base = trail[Len(trail)].as
<1>1. /\ Len(storeRedo) \in Nat \ {0} /\ Len(storeRedo) \in DOMAIN storeRedo
      /\ Last(storeRedo) = storeRedo[Len(storeRedo)]
  BY FrontLast DEF TypeInv, Named
<1>2. Len(trail) \in Nat /\ DOMAIN trail = 1..Len(trail) /\ trail \in Seq(State)
  BY TrailTypes
<1>3. Len(storeRedo) <= Len(trail)
  BY DEF RedoWalked
<1>4. rows[storeRedo[Len(storeRedo)]].base = trail[Len(trail) - Len(storeRedo) + Len(storeRedo)].as
  BY <1>1 DEF RedoWalked
<1>5. Len(trail) - Len(storeRedo) + Len(storeRedo) = Len(trail) /\ Len(trail) # 0 /\ Len(trail) \in 1..Len(trail)
  BY <1>1, <1>2, <1>3
<1>6. trail # <<>>
  BY <1>2, <1>5, EmptySeq
<1>7. QED
  BY <1>1, <1>2, <1>3, <1>4, <1>5, <1>6

LEMMA WalkedKept ==
  ASSUME TypeInv, depth = 0, Walked, BeginsWalked, SavedWalked, RedoWalked, [Next]_vars
  PROVE  Walked'
<1> SUFFICES ASSUME up', ~strayed'
             PROVE  Descends(trail', Effective') /\ BasesAt(rows', rev', Effective')
  BY DEF Walked
<1>1. undoStack = <<>> /\ redoStack = <<>> /\ Len(undoStack) = 0
  BY EmptySeq DEF TypeInv, Stacks
<1>2. CASE Reopen
  <2>1. trail' = saved.trail
    BY <1>2 DEF Reopen
  <2>2. QED
    BY <1>2, <2>1, ReopenWalked DEF TypeInv
<1>3. CASE Leave
  BY <1>3 DEF Leave
<1>4. CASE Edit \/ Restore
  <2>1. trail' = <<>> /\ rev' = rev + 1 /\ ~Reopen
    BY <1>4 DEF Edit, Restore, Replace, Becomes, Reopen
  <2>2. Descends(trail', Effective')
    BY <2>1 DEF Descends
  <2>3. QED
    BY <2>1, <2>2, NothingAhead
<1>5. CASE UndoInStore
  <2>1. /\ trail' = Append(trail, Here) /\ rev' = rev + 1 /\ ~Reopen /\ base' = Shown[Target].base
        /\ Candidates # {} /\ up /\ ~strayed
    BY <1>5 DEF UndoInStore, Replace, Becomes, Reopen
  <2>2. /\ Effective \in Nat /\ Effective <= rev /\ rev \in Nat
    BY EffectiveType DEF TypeInv
  <2>3. /\ Shown[Target].rev \in Nat /\ Shown[Target].base \in Nat
        /\ Shown[Target].base <= Shown[Target].rev /\ Shown[Target].rev < Effective
    BY <2>1, TargetBelow
  <2>4. Effective' = Shown[Target].base
    BY <2>1, <2>3, Numbers DEF Effective
  <2>5. Shown[Target].base < Effective
    BY <2>2, <2>3
  <2>6. /\ Here \in State /\ Here.as = Effective /\ Here.rev = rev /\ trail \in Seq(State)
        /\ Descends(trail, Effective)
    BY <2>1, HereIs, TrailTypes DEF Walked
  <2>7. Descends(Append(trail, Here), Shown[Target].base)
    BY <2>2, <2>3, <2>5, <2>6, DescendsFurther
  <2>8. QED
    BY <2>1, <2>4, <2>7, NothingAhead
<1>6. CASE RedoInStore
  <2>1. /\ trail' = Front(trail) /\ rev' = rev + 1 /\ ~Reopen /\ base' = rows[Last(storeRedo)].base
        /\ storeRedo # <<>> /\ up /\ ~strayed
    BY <1>6 DEF RedoInStore, Replace, Becomes, Reopen
  <2>2. /\ trail # <<>> /\ Len(trail) \in DOMAIN trail
        /\ base' = trail[Len(trail)].as
    BY <2>1, RedoTop
  <2>3. Effective' = trail[Len(trail)].as
    <3>1. trail[Len(trail)].as \in Nat
      BY <2>2, TrailTypes
    <3>2. QED
      BY <2>2, <3>1, Numbers DEF Effective
  <2>4. Descends(Front(trail), trail[Len(trail)].as)
    BY <2>1, <2>2, TrailTypes, DescendsLess DEF Walked
  <2>5. QED
    BY <2>1, <2>3, <2>4, NothingAhead
<1>7. CASE Rollback
  <2>1. /\ begins # <<>> /\ trail' = Last(begins).trail /\ strayed' = Last(begins).strayed /\ base' = Last(begins).base
        /\ rev' = rev + 1 /\ ~Reopen
    BY <1>7 DEF Rollback, Becomes, Reopen
  <2>2. /\ Last(begins) = begins[Len(begins)] /\ Len(begins) \in DOMAIN begins /\ Last(begins).base \in Nat
    BY <2>1, BeginTypes, Numbers DEF PointsTo
  <2>3. Effective' = Last(begins).base
    BY <2>1, <2>2, Numbers DEF Effective
  <2>4. Descends(Last(begins).trail, Last(begins).base)
    BY <2>1, <2>2 DEF BeginsWalked
  <2>5. QED
    BY <2>1, <2>3, <2>4, NothingAhead
<1>8. CASE UndoInMemory \/ RedoInMemory
  <2>1. ~(Len(undoStack) >= 2) /\ ~(redoStack # <<>>)
    BY <1>1
  <2>2. QED
    BY <1>8, <2>1 DEF UndoInMemory, RedoInMemory
<1>9. CASE UndoDoesNotLoad \/ Label \/ Save \/ Begin \/ Commit \/ BudgetEvicts \/ UNCHANGED vars
  <2>1. UNCHANGED <<up, rev, base, trail, strayed>> /\ ~Reopen
    BY <1>9 DEF UndoDoesNotLoad, Label, Save, Begin, Commit, BudgetEvicts, Budget, vars, memVars, ghosts, Reopen
  <2>2. Effective' = Effective
    BY <2>1 DEF Effective
  <2>3. BasesAt(rows', rev, Effective)
    BY <2>1, HereKept
  <2>4. QED
    BY <2>1, <2>2, <2>3 DEF Walked
<1>10. QED
  BY <1>2, <1>3, <1>4, <1>5, <1>6, <1>7, <1>8, <1>9 DEF Next

LEMMA StoreRedoTypes ==
  ASSUME TypeInv
  PROVE  /\ storeRedo \in Seq(DOMAIN rows) /\ Len(storeRedo) \in Nat /\ DOMAIN storeRedo = 1..Len(storeRedo)
         /\ \A k \in DOMAIN storeRedo : storeRedo[k] \in DOMAIN rows
BY Members DEF TypeInv, Named

\* A row stays what it was.
LEMMA RowsStay ==
  ASSUME TypeInv, [Next]_vars, NEW i \in DOMAIN rows
  PROVE  Later(rows[i], rows'[i])
BY TypeStep, RowsMove DEF Grown

LEMMA RedoWalkedKept ==
  ASSUME TypeInv, depth = 0, Walked, RedoWalked, [Next]_vars
  PROVE  RedoWalked'
<1>1. /\ Len(storeRedo) \in Nat /\ DOMAIN storeRedo = 1..Len(storeRedo) /\ storeRedo \in Seq(DOMAIN rows)
      /\ \A k \in DOMAIN storeRedo : storeRedo[k] \in DOMAIN rows
      /\ Len(trail) \in Nat /\ DOMAIN trail = 1..Len(trail) /\ trail \in Seq(State)
  BY StoreRedoTypes, TrailTypes
<1>2. CASE storeRedo' = <<>>
  <2>1. TypeInv'
    BY TypeStep
  <2>2. Len(trail') \in Nat
    BY <2>1, Members DEF TypeInv, Past, Trails
  <2>3. Len(storeRedo') = 0 /\ DOMAIN storeRedo' = {}
    BY <1>2, EmptySeq
  <2>4. QED
    BY <2>2, <2>3 DEF RedoWalked
<1>3. CASE UndoInStore
  <2>1. /\ trail' = Append(trail, Here) /\ storeRedo' = Append(storeRedo, Before) /\ up /\ strayed' = strayed
    BY <1>3 DEF UndoInStore
  <2> SUFFICES ASSUME ~strayed
               PROVE  /\ Len(storeRedo') <= Len(trail')
                      /\ \A k \in DOMAIN storeRedo' :
                           rows'[storeRedo'[k]].base = trail'[Len(trail') - Len(storeRedo') + k].as
    BY <2>1 DEF RedoWalked
  <2> DEFINE n == Len(storeRedo)
             m == Len(trail)
  <2>2. /\ Len(trail') = m + 1 /\ \A i \in 1..m : trail'[i] = trail[i]
        /\ trail'[m + 1] = Here
    BY <1>1, <2>1, HereIs, Appended
  <2>3. rows'[Before].base = Effective
    <3>1. CASE Before \in Holding /\ rows' = rows
      <4>1. Before \in DOMAIN rows /\ rows[Before].rev = rev
        BY <3>1 DEF Holding, Live
      <4>2. QED
        BY <2>1, <3>1, <4>1 DEF Walked, BasesAt
    <3>2. CASE \E f \in Forms, kind \in {"pre_undo", "pre_restore"} : rows'[Before] = NewRow(kind, rev, Effective, f)
      BY <3>2 DEF NewRow
    <3>3. QED
      BY <1>3, <3>1, <3>2, BeforeIsRow
  <2>4. /\ Len(storeRedo') = n + 1 /\ DOMAIN storeRedo' = 1..(n + 1)
        /\ \A k \in 1..n : storeRedo'[k] = storeRedo[k]
        /\ storeRedo'[n + 1] = Before
    <3>1. storeRedo \in Seq(DOMAIN rows \cup {Before}) /\ Before \in DOMAIN rows \cup {Before}
      <4>1. DOMAIN rows \subseteq DOMAIN rows \cup {Before}
        OBVIOUS
      <4>2. QED
        BY <1>1, <4>1, SeqMonotonic
    <3>2. QED
      BY <2>1, <3>1, Appended
  <2>5. n <= m /\ n \in Nat /\ m \in Nat
    BY <1>1 DEF RedoWalked
  <2> HIDE DEF n, m
  <2>6. Len(storeRedo') <= Len(trail') /\ Len(trail') - Len(storeRedo') = m - n
    BY <2>2, <2>4, <2>5
  <2>7. ASSUME NEW k \in 1..n PROVE rows'[storeRedo'[k]].base = trail'[m - n + k].as
    <3>1. k \in DOMAIN storeRedo /\ storeRedo[k] \in DOMAIN rows /\ m - n + k \in 1..m
      BY <1>1, <2>5 DEF n
    <3>2. rows[storeRedo[k]].base = trail[m - n + k].as
      BY <3>1 DEF RedoWalked, n, m
    <3>3. Later(rows[storeRedo[k]], rows'[storeRedo[k]])
      BY <3>1, RowsStay
    <3>4. QED
      BY <2>2, <2>4, <3>1, <3>2, <3>3 DEF Later
  <2>8. rows'[storeRedo'[n + 1]].base = trail'[m - n + (n + 1)].as
    <3>1. m - n + (n + 1) = m + 1
      BY <2>5
    <3>2. QED
      BY <2>2, <2>3, <2>4, <3>1, HereIs
  <2>9. ASSUME NEW k \in DOMAIN storeRedo' PROVE rows'[storeRedo'[k]].base = trail'[m - n + k].as
    <3>1. k \in 1..n \/ k = n + 1
      BY <2>4, <2>5
    <3>2. QED
      BY <2>7, <2>8, <3>1
  <2>10. QED
    BY <2>6, <2>9
<1>4. CASE RedoInStore
  <2>1. /\ trail' = Front(trail) /\ storeRedo' = Front(storeRedo) /\ storeRedo # <<>> /\ strayed' = strayed
    BY <1>4 DEF RedoInStore
  <2> SUFFICES ASSUME ~strayed
               PROVE  /\ Len(storeRedo') <= Len(trail')
                      /\ \A k \in DOMAIN storeRedo' :
                           rows'[storeRedo'[k]].base = trail'[Len(trail') - Len(storeRedo') + k].as
    BY <2>1 DEF RedoWalked
  <2> DEFINE n == Len(storeRedo)
             m == Len(trail)
  <2>2. trail # <<>> /\ n # 0 /\ n <= m /\ n \in Nat /\ m \in Nat
    BY <1>1, <2>1, RedoTop
  <2>3. /\ Len(trail') = m - 1 /\ \A i \in 1..(m - 1) : trail'[i] = trail[i]
    BY <1>1, <2>1, <2>2, FrontLast
  <2>4. /\ Len(storeRedo') = n - 1 /\ DOMAIN storeRedo' = 1..(n - 1)
        /\ \A k \in 1..(n - 1) : storeRedo'[k] = storeRedo[k]
    BY <1>1, <2>1, FrontLast
  <2> HIDE DEF n, m
  <2>5. Len(storeRedo') <= Len(trail') /\ Len(trail') - Len(storeRedo') = m - n
    BY <2>2, <2>3, <2>4
  <2>6. ASSUME NEW k \in 1..(n - 1) PROVE rows'[storeRedo'[k]].base = trail'[m - n + k].as
    <3>1. k \in DOMAIN storeRedo /\ storeRedo[k] \in DOMAIN rows /\ m - n + k \in 1..(m - 1)
      <4>1. k \in 1..n /\ m - n + k \in 1..(m - 1)
        BY <2>2
      <4>2. QED
        BY <1>1, <4>1 DEF n
    <3>2. rows[storeRedo[k]].base = trail[m - n + k].as
      BY <3>1 DEF RedoWalked, n, m
    <3>3. Later(rows[storeRedo[k]], rows'[storeRedo[k]])
      BY <3>1, RowsStay
    <3>4. QED
      BY <2>3, <2>4, <3>1, <3>2, <3>3 DEF Later
  <2>7. QED
    BY <2>4, <2>5, <2>6
<1>5. CASE Reopen
  <2>1. storeRedo' = <<>>
    BY <1>5 DEF Reopen, TypeInv, Shut
  <2>2. QED
    BY <1>2, <2>1
<1>6. CASE UNCHANGED <<trail, strayed, storeRedo>>
  BY <1>1, <1>6, RowsStay DEF RedoWalked, Later
<1>7. storeRedo' = <<>> \/ UNCHANGED <<trail, strayed, storeRedo>> \/ UndoInStore \/ RedoInStore \/ Reopen
  BY DEF Next, Edit, UndoInMemory, UndoDoesNotLoad, RedoInMemory, Restore, DropRedo,
         Label, Save, Begin, Commit, Rollback, BudgetEvicts, Budget, Leave, vars, memVars, ghosts
<1>8. QED
  BY <1>2, <1>3, <1>4, <1>5, <1>6, <1>7

LEMMA WalkStep ==
  ASSUME TypeInv, WalkInv, [Next]_vars
  PROVE  WalkInv'
<1>1. depth' = depth
  BY DEF Next, Edit, UndoInMemory, UndoInStore, UndoDoesNotLoad, RedoInMemory, RedoInStore, Restore,
         Label, Save, Begin, Commit, Rollback, BudgetEvicts, Budget, Leave, Reopen, vars
<1>2. QED
  BY <1>1, WalkedKept, BeginsWalkedKept, SavedWalkedKept, RedoWalkedKept DEF WalkInv

LEMMA WalkInit == Init => WalkInv
<1> SUFFICES ASSUME Init PROVE Walked /\ BeginsWalked /\ SavedWalked /\ RedoWalked
  BY DEF WalkInv
<1>1. rows = <<>> /\ begins = <<>> /\ trail = <<>> /\ storeRedo = <<>> /\ saved = None
  BY DEF Init
<1>2. Len(storeRedo) <= Len(trail)
  BY <1>1, EmptySeq
<1>3. QED
  BY <1>1, <1>2 DEF Walked, BeginsWalked, SavedWalked, RedoWalked, Descends, BasesAt

LEMMA NotForward ==
  ASSUME TypeInv, WalkInv
  PROVE  UndoWalksBack
<1> SUFFICES ASSUME depth = 0, ~strayed, NEW i \in DOMAIN trail, NEW r \in StepsBackTo,
                    r \in {trail[i].rev, trail[i].as}
             PROVE  FALSE
  BY DEF UndoWalksBack, StepsForward
<1>1. Len(undoStack) = 0
  BY EmptySeq DEF TypeInv, Stacks
<1>2. up /\ Candidates # {} /\ r = Shown[Target].rev
  BY <1>1 DEF StepsBackTo
<1>3. Shown[Target].rev \in Nat /\ Shown[Target].rev < Effective
  BY <1>2, TargetBelow
<1>4. Effective < trail[i].as /\ trail[i].as <= trail[i].rev
  BY <1>2 DEF WalkInv, Walked, Descends
<1>5. Effective \in Nat /\ trail[i].as \in Nat /\ trail[i].rev \in Nat
  BY EffectiveType, TrailTypes DEF TypeInv
<1>6. QED
  BY <1>2, <1>3, <1>4, <1>5

\* With the default depth undo never steps forward onto a state that an earlier undo
\* left - across edits, redos, transactions, restores, evictions, lost revisions and
\* reopenings where a row tells the base.
THEOREM UndoWalksBackHolds == Spec => []UndoWalksBack
<1>1. Init => TypeInv /\ WalkInv
  BY TypeInit, WalkInit
<1>2. TypeInv /\ WalkInv /\ [Next]_vars => (TypeInv /\ WalkInv)'
  BY TypeStep, WalkStep
<1>3. TypeInv /\ WalkInv => UndoWalksBack
  BY NotForward
<1>4. QED
  BY <1>1, <1>2, <1>3, PTL DEF Spec

-------------------------------------------------------------------------------
(* Redo retraces undo *)

NoMemoryRollback == "memory" \notin Mishaps

\* The memory branch that a redo of the row i brings back.
ParkedFor(pk, i) == IF i \in DOMAIN pk THEN pk[i] ELSE <<>>

\* The snapshots of s are the states of the trail t from the place n on.
Holds(s, n, t, h) == \A j \in DOMAIN s : n + j \in DOMAIN t /\ h[s[j]] = h[t[n + j].rev]

\* The row i is the state at the place a of the trail, and its branch those before it.
Span(a, i, rs, pk, t, h) ==
  /\ rs[i].rev = t[a].rev
  /\ Len(ParkedFor(pk, i)) < a
  /\ Holds(ParkedFor(pk, i), a - 1 - Len(ParkedFor(pk, i)), t, h)

\* at places the rows to redo on the trail: each with its branch goes on from the one before.
Layout(at, sr, rs, pk, t, h) ==
  /\ \A k \in DOMAIN sr : Span(at[k], sr[k], rs, pk, t, h)
  /\ \A j, k \in DOMAIN sr : j < k => at[j] < at[k]
  /\ \A k \in DOMAIN sr \ {1} : at[k - 1] + Len(ParkedFor(pk, sr[k])) + 1 = at[k]

\* The rows to redo, their branches and what memory has to redo are the trail's last states.
StoreLaid ==
  \E at \in [DOMAIN storeRedo -> DOMAIN trail] :
    /\ Layout(at, storeRedo, rows, parkedRedo, trail, hist)
    /\ storeRedo # <<>> => at[Len(storeRedo)] + Len(redoStack) = Len(trail)

\* They are of different revisions, all behind the current one.
StoreOrdered ==
  /\ DOMAIN parkedRedo \subseteq {storeRedo[k] : k \in DOMAIN storeRedo}
  /\ \A k \in DOMAIN storeRedo : rows[storeRedo[k]].rev < rev
  /\ \A j, k \in DOMAIN storeRedo : j < k => rows[storeRedo[j]].rev < rows[storeRedo[k]].rev

\* Memory's last snapshot is the current content; what it has to redo is on the trail.
MemoryLaid ==
  /\ undoStack # <<>> => hist[Last(undoStack)] = hist[rev]
  /\ Len(redoStack) <= Len(trail)
  /\ Holds(redoStack, Len(trail) - Len(redoStack), trail, hist)

RedoInv == StoreLaid /\ StoreOrdered /\ MemoryLaid

LEMMA HoldsKept ==
  ASSUME TypeInv, HistInv, [Next]_vars, NEW s \in Seq(0..rev), NEW n, Holds(s, n, trail, hist),
         \A j \in DOMAIN s : n + j \in DOMAIN trail' /\ trail'[n + j] = trail[n + j]
  PROVE  Holds(s, n, trail', hist')
<1> SUFFICES ASSUME NEW j \in DOMAIN s
             PROVE  n + j \in DOMAIN trail' /\ hist'[s[j]] = hist'[trail'[n + j].rev]
  BY DEF Holds
<1>1. /\ n + j \in DOMAIN trail /\ hist[s[j]] = hist[trail[n + j].rev]
      /\ n + j \in DOMAIN trail' /\ trail'[n + j] = trail[n + j]
  BY DEF Holds
<1>2. s[j] \in 0..rev
  BY Members
<1>3. trail[n + j].rev \in 0..rev
  <2>1. trail[n + j].rev \in Nat /\ trail[n + j].rev < rev /\ rev \in Nat
    BY <1>1, TrailTypes, HistSame
  <2>2. QED
    BY <2>1
<1>4. hist'[s[j]] = hist[s[j]] /\ hist'[trail[n + j].rev] = hist[trail[n + j].rev]
  BY <1>2, <1>3, HistSame
<1>5. QED
  BY <1>1, <1>4

LEMMA ParkedTypes ==
  ASSUME TypeInv, NEW i
  PROVE  ParkedFor(parkedRedo, i) \in Seq(0..rev) /\ Len(ParkedFor(parkedRedo, i)) \in Nat
<1>1. ParkedFor(parkedRedo, i) \in Seq(0..rev)
  BY EmptySeq DEF ParkedFor, TypeInv, Stacks
<1>2. QED
  BY <1>1, Members

LEMMA SpanIs ==
  ASSUME NEW a, NEW i, NEW rs, NEW pk, NEW t, NEW h, NEW s, ParkedFor(pk, i) = s,
         rs[i].rev = t[a].rev, Len(s) < a, Holds(s, a - 1 - Len(s), t, h)
  PROVE  Span(a, i, rs, pk, t, h)
BY DEF Span

LEMMA SpanKept ==
  ASSUME TypeInv, HistInv, [Next]_vars, NEW i \in DOMAIN rows, NEW a \in DOMAIN trail,
         Span(a, i, rows, parkedRedo, trail, hist),
         ParkedFor(parkedRedo', i) = ParkedFor(parkedRedo, i),
         \A j \in 1..a : j \in DOMAIN trail' /\ trail'[j] = trail[j]
  PROVE  Span(a, i, rows', parkedRedo', trail', hist')
<1> DEFINE s == ParkedFor(parkedRedo, i)
           n == a - 1 - Len(s)
<1>1. s \in Seq(0..rev) /\ Len(s) \in Nat /\ DOMAIN s = 1..Len(s) /\ a \in Nat /\ a # 0
  BY ParkedTypes, Members, TrailTypes
<1>2. Len(s) < a /\ rows[i].rev = trail[a].rev /\ Holds(s, n, trail, hist)
  BY DEF Span
<1>3. \A j \in DOMAIN s : n + j \in 1..a
  BY <1>1, <1>2
<1> HIDE DEF s, n
<1>4. Holds(s, n, trail', hist')
  BY <1>1, <1>2, <1>3, HoldsKept
<1>5. rows'[i].rev = trail'[a].rev
  <2>1. rows'[i].rev = rows[i].rev
    BY RowsStay DEF Later
  <2>2. a \in 1..a
    BY <1>1
  <2>3. QED
    BY <1>2, <2>1, <2>2
<1>6. QED
  BY <1>2, <1>4, <1>5 DEF Span, s, n

\* With nothing to redo in the store, nothing is to be placed.
LEMMA NothingLaid ==
  ASSUME storeRedo' = <<>>
  PROVE  StoreLaid'
<1>1. DOMAIN storeRedo' = {}
  BY EmptySeq
<1> DEFINE at == [k \in {} |-> 0]
<1>2. at \in [DOMAIN storeRedo' -> DOMAIN trail']
  BY <1>1
<1>3. Layout(at, storeRedo', rows', parkedRedo', trail', hist')
  BY <1>1 DEF Layout
<1>4. QED
  BY <1>2, <1>3 DEF StoreLaid

\* Nor is anything in order or out of it.
LEMMA NothingOrdered ==
  ASSUME storeRedo' = <<>>, parkedRedo' = Empty
  PROVE  StoreOrdered'
BY EmptyIs DEF StoreOrdered

\* The rows to redo are all different.
LEMMA StoreRedoDiffers ==
  ASSUME TypeInv, StoreOrdered, NEW j \in DOMAIN storeRedo, NEW k \in DOMAIN storeRedo, j # k
  PROVE  storeRedo[j] # storeRedo[k]
<1>1. j \in Nat /\ k \in Nat /\ storeRedo[j] \in DOMAIN rows /\ storeRedo[k] \in DOMAIN rows
  BY StoreRedoTypes
<1>2. rows[storeRedo[j]].rev \in Nat /\ rows[storeRedo[k]].rev \in Nat
  <2>1. rows[storeRedo[j]] \in Row /\ rows[storeRedo[k]] \in Row
    BY <1>1, Members DEF TypeInv, RowsTyped
  <2>2. QED
    BY <2>1, Numbers DEF Row
<1>3. CASE j < k
  BY <1>2, <1>3 DEF StoreOrdered
<1>4. CASE k < j
  BY <1>2, <1>4 DEF StoreOrdered
<1>5. QED
  BY <1>1, <1>3, <1>4

\* The redo of the store takes the last of its rows.
LEMMA LastStoreRedo ==
  ASSUME TypeInv, storeRedo # <<>>
  PROVE  /\ Len(storeRedo) \in Nat \ {0} /\ Len(storeRedo) \in DOMAIN storeRedo
         /\ Last(storeRedo) = storeRedo[Len(storeRedo)] /\ Last(storeRedo) \in DOMAIN rows
         /\ Len(Front(storeRedo)) = Len(storeRedo) - 1
         /\ DOMAIN Front(storeRedo) = 1..(Len(storeRedo) - 1)
         /\ \A k \in 1..(Len(storeRedo) - 1) : Front(storeRedo)[k] = storeRedo[k] /\ k \in DOMAIN storeRedo
         /\ (Front(storeRedo) = <<>> <=> Len(storeRedo) = 1)
<1>1. /\ Len(storeRedo) \in Nat \ {0} /\ Len(storeRedo) \in DOMAIN storeRedo
      /\ Last(storeRedo) = storeRedo[Len(storeRedo)] /\ Last(storeRedo) \in DOMAIN rows
      /\ Front(storeRedo) \in Seq(DOMAIN rows) /\ Len(Front(storeRedo)) = Len(storeRedo) - 1
      /\ DOMAIN Front(storeRedo) = 1..(Len(storeRedo) - 1)
      /\ \A k \in 1..(Len(storeRedo) - 1) : Front(storeRedo)[k] = storeRedo[k]
  BY FrontLast DEF TypeInv, Named
<1>2. \A k \in 1..(Len(storeRedo) - 1) : k \in DOMAIN storeRedo
  BY <1>1, StoreRedoTypes
<1>3. Front(storeRedo) = <<>> <=> Len(storeRedo) = 1
  BY <1>1, Members
<1>4. QED
  BY <1>1, <1>2, <1>3

\* What the store has to redo changes by one row at the end, or is dropped, or stays.
LEMMA RedoKinds ==
  ASSUME TypeInv, [Next]_vars
  PROVE  \/ UndoInStore \/ RedoInStore
         \/ storeRedo' = <<>> /\ parkedRedo' = Empty
         \/ /\ storeRedo' = storeRedo /\ parkedRedo' = parkedRedo /\ rev' = rev
            /\ UNCHANGED <<undoStack, redoStack, trail>>
<1>1. CASE BudgetEvicts
  <2>1. PICK n \in DOMAIN rows : Budget(n)
    BY <1>1 DEF BudgetEvicts
  <2>2. QED
    BY <2>1 DEF Budget, memVars, ghosts
<1>2. CASE Reopen
  <2>1. storeRedo' = <<>> /\ parkedRedo' = Empty
    BY <1>2 DEF Reopen, TypeInv, Shut
  <2>2. QED
    BY <2>1
<1>3. CASE Edit \/ UndoInMemory \/ RedoInMemory \/ Restore \/ Rollback \/ Leave
  <2>1. DropRedo
    BY <1>3 DEF Edit, UndoInMemory, RedoInMemory, Restore, Rollback, Leave
  <2>2. QED
    BY <2>1 DEF DropRedo
<1>4. CASE UndoDoesNotLoad \/ Label \/ Save \/ Begin \/ Commit \/ UNCHANGED vars
  BY <1>4 DEF UndoDoesNotLoad, Label, Save, Begin, Commit, vars, memVars, ghosts
<1>5. QED
  BY <1>1, <1>2, <1>3, <1>4 DEF Next

\* The row of what an undo in the store replaces is not one of those to redo.
LEMMA UndoInStoreIs ==
  ASSUME TypeInv, StoreOrdered, UndoInStore
  PROVE  /\ rev' = rev + 1 /\ trail' = Append(trail, Here) /\ redoStack' = <<>> /\ undoStack' = Baseline(rev')
         /\ Len(storeRedo') = Len(storeRedo) + 1 /\ DOMAIN storeRedo' = 1..(Len(storeRedo) + 1)
         /\ \A k \in 1..Len(storeRedo) : /\ storeRedo'[k] = storeRedo[k] /\ k \in DOMAIN storeRedo
                                         /\ storeRedo[k] # Before
         /\ storeRedo'[Len(storeRedo) + 1] = Before
         /\ rows'[Before].rev = rev
         /\ \A i : i # Before => ParkedFor(parkedRedo', i) = ParkedFor(parkedRedo, i)
         /\ ParkedFor(parkedRedo', Before) = redoStack
         /\ DOMAIN parkedRedo' \subseteq DOMAIN parkedRedo \cup {Before}
         /\ storeRedo' # <<>>
<1>1. /\ trail' = Append(trail, Here) /\ storeRedo' = Append(storeRedo, Before) /\ Parked(Before)
      /\ rev' = rev + 1 /\ undoStack' = Baseline(rev')
  BY DEF UndoInStore, Replace, Becomes
<1>2. rows'[Before].rev = rev
  BY BeforeIsRow
<1>3. /\ Len(storeRedo) \in Nat /\ DOMAIN storeRedo = 1..Len(storeRedo)
      /\ storeRedo \in Seq(DOMAIN rows) /\ \A k \in DOMAIN storeRedo : storeRedo[k] \in DOMAIN rows
  BY StoreRedoTypes
<1>4. /\ Len(storeRedo') = Len(storeRedo) + 1 /\ DOMAIN storeRedo' = 1..(Len(storeRedo) + 1)
      /\ \A k \in 1..Len(storeRedo) : storeRedo'[k] = storeRedo[k]
      /\ storeRedo'[Len(storeRedo) + 1] = Before
      /\ storeRedo' # <<>>
  <2>1. storeRedo \in Seq(DOMAIN rows \cup {Before}) /\ Before \in DOMAIN rows \cup {Before}
    <3>1. DOMAIN rows \subseteq DOMAIN rows \cup {Before}
      OBVIOUS
    <3>2. QED
      BY <1>3, <3>1, SeqMonotonic
  <2>2. QED
    BY <1>1, <2>1, Appended
<1>5. \A k \in DOMAIN storeRedo : storeRedo[k] # Before
  <2>1. SUFFICES ASSUME NEW k \in DOMAIN storeRedo PROVE rows'[storeRedo[k]].rev # rev
    BY <1>2
  <2>2. UndoInStore => [Next]_vars
    BY DEF Next
  <2>3. rows'[storeRedo[k]].rev = rows[storeRedo[k]].rev /\ rows[storeRedo[k]].rev < rev
    BY <1>3, <2>1, <2>2, RowsStay DEF StoreOrdered, Later
  <2>4. rev \in Nat
    BY Numbers DEF TypeInv, Scalars
  <2>5. ~(rev < rev)
    BY <2>4
  <2>6. QED
    BY <2>3, <2>5
<1>6. Before \notin DOMAIN parkedRedo
  BY <1>5 DEF StoreOrdered
<1>7. /\ redoStack' = <<>>
      /\ parkedRedo' = IF redoStack = <<>> THEN parkedRedo
                       ELSE [j \in DOMAIN parkedRedo \cup {Before} |-> IF j = Before THEN redoStack ELSE parkedRedo[j]]
  BY <1>1 DEF Parked
<1>8. /\ \A i : i # Before => ParkedFor(parkedRedo', i) = ParkedFor(parkedRedo, i)
      /\ ParkedFor(parkedRedo', Before) = redoStack
      /\ DOMAIN parkedRedo' \subseteq DOMAIN parkedRedo \cup {Before}
  <2>1. CASE redoStack = <<>>
    BY <1>6, <1>7, <2>1 DEF ParkedFor
  <2>2. CASE redoStack # <<>>
    BY <1>6, <1>7, <2>2 DEF ParkedFor
  <2>3. QED
    BY <2>1, <2>2
<1>9. QED
  BY <1>1, <1>2, <1>3, <1>4, <1>5, <1>7, <1>8

\* A redo in the store takes the last row and its branch.
LEMMA RedoInStoreIs ==
  ASSUME TypeInv, StoreOrdered, RedoInStore
  PROVE  /\ rev' = rev + 1 /\ trail' = Front(trail) /\ undoStack' = Baseline(rev')
         /\ storeRedo # <<>> /\ storeRedo' = Front(storeRedo) /\ Len(redoStack) = 0
         /\ redoStack' = ParkedFor(parkedRedo, Last(storeRedo))
         /\ \A k \in 1..(Len(storeRedo) - 1) :
              ParkedFor(parkedRedo', storeRedo[k]) = ParkedFor(parkedRedo, storeRedo[k])
         /\ DOMAIN parkedRedo' = DOMAIN parkedRedo \ {Last(storeRedo)}
         /\ hist'[rev'] = rows[Last(storeRedo)].content
<1>1. /\ rev' = rev + 1 /\ trail' = Front(trail) /\ undoStack' = Baseline(rev')
      /\ storeRedo # <<>> /\ storeRedo' = Front(storeRedo) /\ redoStack = <<>>
      /\ redoStack' = ParkedFor(parkedRedo, Last(storeRedo))
      /\ parkedRedo' = [j \in DOMAIN parkedRedo \ {Last(storeRedo)} |-> parkedRedo[j]]
      /\ Becomes(Shown[Last(storeRedo)].content)
  BY DEF RedoInStore, Replace, Becomes, ParkedFor
<1>2. \A k \in 1..(Len(storeRedo) - 1) : storeRedo[k] # Last(storeRedo)
  <2>1. SUFFICES ASSUME NEW k \in 1..(Len(storeRedo) - 1) PROVE storeRedo[k] # Last(storeRedo)
    OBVIOUS
  <2>2. /\ k \in DOMAIN storeRedo /\ Len(storeRedo) \in DOMAIN storeRedo /\ Len(storeRedo) \in Nat
        /\ Last(storeRedo) = storeRedo[Len(storeRedo)]
    BY <1>1, <2>1, LastStoreRedo
  <2>3. k # Len(storeRedo)
    BY <2>1, <2>2
  <2>4. QED
    BY <2>2, <2>3, StoreRedoDiffers
<1>3. \A i : i # Last(storeRedo) => ParkedFor(parkedRedo', i) = ParkedFor(parkedRedo, i)
  BY <1>1 DEF ParkedFor
<1>4. DOMAIN parkedRedo' = DOMAIN parkedRedo \ {Last(storeRedo)} /\ Len(redoStack) = 0
  BY <1>1, EmptySeq
<1>5. hist'[rev'] = rows[Last(storeRedo)].content
  <2>1. Last(storeRedo) \in DOMAIN Shown /\ Shown = rows
    BY <1>1, ChosenIsShown
  <2>2. Shown[Last(storeRedo)].content \in Revs
    BY <2>1, ShownTypes
  <2>3. QED
    BY <1>1, <2>1, <2>2, BecomesMoves DEF TypeInv
<1>6. QED
  BY <1>1, <1>2, <1>3, <1>4, <1>5

LEMMA StoreOrderedKept ==
  ASSUME TypeInv, StoreOrdered, [Next]_vars
  PROVE  StoreOrdered'
<1>1. /\ rev \in Nat /\ Len(storeRedo) \in Nat /\ DOMAIN storeRedo = 1..Len(storeRedo)
      /\ \A k \in DOMAIN storeRedo :
           /\ rows'[storeRedo[k]].rev = rows[storeRedo[k]].rev
           /\ rows[storeRedo[k]].rev \in Nat /\ rows[storeRedo[k]].rev < rev
  <2>1. ASSUME NEW k \in DOMAIN storeRedo
        PROVE  rows'[storeRedo[k]].rev = rows[storeRedo[k]].rev /\ rows[storeRedo[k]].rev \in Nat
    <3>1. storeRedo[k] \in DOMAIN rows
      BY StoreRedoTypes
    <3>2. rows[storeRedo[k]] \in Row
      BY <3>1, Members DEF TypeInv, RowsTyped
    <3>3. QED
      BY <3>1, <3>2, RowsStay, Numbers DEF Later, Row
  <2>2. QED
    BY <2>1, StoreRedoTypes, Numbers DEF StoreOrdered, TypeInv, Scalars
<1>2. CASE UndoInStore
  <2> DEFINE n == Len(storeRedo)
  <2>1. /\ rev' = rev + 1
        /\ DOMAIN storeRedo' = 1..(n + 1)
        /\ \A k \in 1..n : storeRedo'[k] = storeRedo[k] /\ k \in DOMAIN storeRedo
        /\ storeRedo'[n + 1] = Before
        /\ rows'[Before].rev = rev
        /\ DOMAIN parkedRedo' \subseteq DOMAIN parkedRedo \cup {Before}
    BY <1>2, UndoInStoreIs
  <2>2. n \in Nat /\ DOMAIN storeRedo = 1..n /\ n + 1 \in DOMAIN storeRedo' /\ DOMAIN storeRedo \subseteq DOMAIN storeRedo'
    BY <1>1, <2>1
  <2> HIDE DEF n
  <2>3. DOMAIN parkedRedo' \subseteq {storeRedo'[k] : k \in DOMAIN storeRedo'}
    <3>1. ASSUME NEW i \in DOMAIN parkedRedo' PROVE \E k \in DOMAIN storeRedo' : storeRedo'[k] = i
      <4>1. CASE i = Before
        BY <2>1, <2>2, <4>1
      <4>2. CASE i \in DOMAIN parkedRedo
        <5>1. PICK k \in DOMAIN storeRedo : storeRedo[k] = i
          BY <4>2 DEF StoreOrdered
        <5>2. QED
          BY <2>1, <2>2, <5>1
      <4>3. QED
        BY <2>1, <4>1, <4>2
    <3>2. QED
      BY <3>1
  <2>4. ASSUME NEW k \in DOMAIN storeRedo' PROVE rows'[storeRedo'[k]].rev < rev'
    <3>1. CASE k \in 1..n
      BY <1>1, <2>1, <2>2, <3>1
    <3>2. CASE k = n + 1
      BY <1>1, <2>1, <3>2
    <3>3. QED
      BY <2>1, <2>2, <3>1, <3>2
  <2>5. ASSUME NEW j \in DOMAIN storeRedo', NEW k \in DOMAIN storeRedo', j < k
        PROVE  rows'[storeRedo'[j]].rev < rows'[storeRedo'[k]].rev
    <3>1. j \in 1..n /\ rows'[storeRedo'[j]].rev = rows[storeRedo[j]].rev
      <4>1. j \in 1..n
        BY <2>1, <2>2, <2>5
      <4>2. QED
        BY <1>1, <2>1, <4>1
    <3>2. CASE k \in 1..n
      BY <1>1, <2>1, <2>2, <2>5, <3>1, <3>2 DEF StoreOrdered
    <3>3. CASE k = n + 1
      BY <1>1, <2>1, <2>2, <3>1, <3>3
    <3>4. QED
      BY <2>1, <2>2, <3>2, <3>3
  <2>6. QED
    BY <2>3, <2>4, <2>5 DEF StoreOrdered
<1>3. CASE RedoInStore
  <2> DEFINE n == Len(storeRedo)
  <2>1. /\ rev' = rev + 1 /\ storeRedo # <<>> /\ storeRedo' = Front(storeRedo)
        /\ DOMAIN parkedRedo' = DOMAIN parkedRedo \ {Last(storeRedo)}
    BY <1>3, RedoInStoreIs
  <2>2. /\ n \in Nat /\ n # 0 /\ Last(storeRedo) = storeRedo[n]
        /\ DOMAIN storeRedo' = 1..(n - 1) /\ DOMAIN storeRedo = 1..n
        /\ \A k \in 1..(n - 1) : storeRedo'[k] = storeRedo[k] /\ k \in DOMAIN storeRedo
    BY <1>1, <2>1, LastStoreRedo
  <2> HIDE DEF n
  <2>3. DOMAIN parkedRedo' \subseteq {storeRedo'[k] : k \in DOMAIN storeRedo'}
    <3>1. ASSUME NEW i \in DOMAIN parkedRedo' PROVE \E k \in DOMAIN storeRedo' : storeRedo'[k] = i
      <4>1. PICK k \in DOMAIN storeRedo : storeRedo[k] = i
        BY <2>1 DEF StoreOrdered
      <4>2. k # n
        BY <2>1, <2>2, <4>1
      <4>3. k \in 1..(n - 1)
        BY <2>2, <4>2
      <4>4. QED
        BY <2>2, <4>1, <4>3
    <3>2. QED
      BY <3>1
  <2>4. ASSUME NEW k \in DOMAIN storeRedo' PROVE rows'[storeRedo'[k]].rev < rev'
    BY <1>1, <2>1, <2>2
  <2>5. ASSUME NEW j \in DOMAIN storeRedo', NEW k \in DOMAIN storeRedo', j < k
        PROVE  rows'[storeRedo'[j]].rev < rows'[storeRedo'[k]].rev
    BY <1>1, <2>2, <2>5 DEF StoreOrdered
  <2>6. QED
    BY <2>3, <2>4, <2>5 DEF StoreOrdered
<1>4. CASE storeRedo' = <<>> /\ parkedRedo' = Empty
  BY <1>4, NothingOrdered
<1>5. CASE storeRedo' = storeRedo /\ parkedRedo' = parkedRedo /\ rev' = rev
  BY <1>1, <1>5 DEF StoreOrdered
<1>6. QED
  BY <1>2, <1>3, <1>4, <1>5, RedoKinds

\* The place of the last row to redo.
LEMMA LastLaid ==
  ASSUME TypeInv, StoreLaid, storeRedo # <<>>, Len(redoStack) = 0
  PROVE  /\ trail # <<>> /\ Len(trail) \in Nat \ {0} /\ Len(trail) \in DOMAIN trail
         /\ Span(Len(trail), Last(storeRedo), rows, parkedRedo, trail, hist)
<1>1. PICK at \in [DOMAIN storeRedo -> DOMAIN trail] :
        /\ Layout(at, storeRedo, rows, parkedRedo, trail, hist)
        /\ at[Len(storeRedo)] + Len(redoStack) = Len(trail)
  BY DEF StoreLaid
<1>2. Len(storeRedo) \in DOMAIN storeRedo /\ Last(storeRedo) = storeRedo[Len(storeRedo)]
  BY LastStoreRedo
<1>3. at[Len(storeRedo)] \in DOMAIN trail /\ DOMAIN trail = 1..Len(trail) /\ Len(trail) \in Nat /\ trail \in Seq(State)
  BY <1>1, <1>2, TrailTypes
<1>4. at[Len(storeRedo)] = Len(trail)
  BY <1>1, <1>3
<1>5. trail # <<>> /\ Len(trail) # 0
  BY <1>3, <1>4, EmptySeq
<1>6. QED
  BY <1>1, <1>2, <1>3, <1>4, <1>5 DEF Layout

LEMMA MemoryIs ==
  ASSUME TypeInv
  PROVE  /\ undoStack \in Seq(0..rev) /\ redoStack \in Seq(0..rev)
         /\ Len(undoStack) \in Nat /\ Len(redoStack) \in Nat
         /\ DOMAIN undoStack = 1..Len(undoStack) /\ DOMAIN redoStack = 1..Len(redoStack)
         /\ depth \in Nat
         /\ depth = 0 => undoStack = <<>> /\ redoStack = <<>>
BY Members, Numbers DEF TypeInv, Stacks, Scalars

\* A branch that is empty is on every trail.
LEMMA NothingHeld ==
  ASSUME TypeInv', redoStack' = <<>>
  PROVE  Len(redoStack') <= Len(trail') /\ Holds(redoStack', Len(trail') - Len(redoStack'), trail', hist')
<1>1. Len(redoStack') = 0 /\ DOMAIN redoStack' = {}
  BY EmptySeq
<1>2. Len(trail') \in Nat
  BY Members DEF TypeInv, Past, Trails
<1>3. QED
  BY <1>1, <1>2 DEF Holds

\* Memory that starts again has the current revision.
LEMMA BaselineHeld ==
  ASSUME TypeInv', undoStack' = Baseline(rev')
  PROVE  undoStack' # <<>> => hist'[Last(undoStack')] = hist'[rev']
<1>1. undoStack' = <<rev'>> \/ undoStack' = <<>>
  BY DEF Baseline
<1>2. Last(<<rev'>>) = rev'
  BY DEF Last
<1>3. QED
  BY <1>1, <1>2

LEMMA MemoryEdited ==
  ASSUME TypeInv, MemoryLaid, Edit, TypeInv'
  PROVE  MemoryLaid'
<1>1. /\ undoStack \in Seq(0..rev) /\ Len(undoStack) \in Nat /\ depth \in Nat /\ rev \in Nat
      /\ depth = 0 => undoStack = <<>> /\ redoStack = <<>>
  BY MemoryIs, Numbers DEF TypeInv, Scalars
<1>2. rev' = rev + 1
  BY DEF Edit, Becomes
<1> DEFINE pushed == Append(undoStack, rev + 1)
           m == Len(undoStack)
<1>3. /\ pushed \in Seq(0..(rev + 1)) /\ pushed # <<>> /\ Len(pushed) = m + 1
      /\ pushed[m + 1] = rev + 1 /\ Last(pushed) = rev + 1
  <2>1. undoStack \in Seq(0..(rev + 1)) /\ rev + 1 \in 0..(rev + 1)
    <3>1. rev + 1 \in Nat /\ rev <= rev + 1
      BY <1>1
    <3>2. QED
      BY <1>1, <3>1, Monotone
  <2>2. QED
    BY <2>1, Appended
<1>4. m \in Nat
  BY <1>1
<1> HIDE DEF pushed, m
<1>5. m # 0 => Tail(pushed) \in Seq(0..(rev + 1)) /\ Tail(pushed) # <<>> /\ Last(Tail(pushed)) = rev + 1
  <2> SUFFICES ASSUME m # 0 PROVE Tail(pushed) \in Seq(0..(rev + 1)) /\ Tail(pushed) # <<>> /\ Last(Tail(pushed)) = rev + 1
    OBVIOUS
  <2>1. /\ Tail(pushed) \in Seq(0..(rev + 1)) /\ Len(Tail(pushed)) = Len(pushed) - 1
        /\ \A i \in 1..(Len(pushed) - 1) : Tail(pushed)[i] = pushed[i + 1]
    BY <1>3, HeadTailProperties
  <2>2. Len(Tail(pushed)) = m /\ m \in 1..(Len(pushed) - 1)
    BY <1>3, <1>4, <2>1
  <2>3. Tail(pushed)[m] = rev + 1
    BY <1>3, <2>1, <2>2
  <2>4. Tail(pushed) # <<>>
    BY <1>4, <2>2, EmptySeq
  <2>5. QED
    BY <2>1, <2>2, <2>3, <2>4 DEF Last
<1>6. redoStack' = <<>>
  BY <1>1 DEF Edit
<1>7. undoStack' # <<>> => hist'[Last(undoStack')] = hist'[rev']
  <2>1. undoStack' = IF depth = 0 THEN undoStack
                     ELSE IF Len(pushed) > depth + 1 THEN Tail(pushed) ELSE pushed
    BY DEF Edit, pushed
  <2>2. CASE depth = 0
    BY <1>1, <2>1, <2>2
  <2>3. CASE depth # 0 /\ Len(pushed) > depth + 1
    <3>1. m # 0
      BY <1>1, <1>3, <1>4, <2>3
    <3>2. QED
      BY <1>2, <1>5, <2>1, <2>3, <3>1
  <2>4. CASE depth # 0 /\ ~(Len(pushed) > depth + 1)
    BY <1>2, <1>3, <2>1, <2>4
  <2>5. QED
    BY <2>2, <2>3, <2>4
<1>8. QED
  BY <1>6, <1>7, NothingHeld DEF MemoryLaid

LEMMA MemoryUndone ==
  ASSUME TypeInv, HistInv, MemoryLaid, UndoInMemory, TypeInv'
  PROVE  MemoryLaid'
<1> DEFINE m == Len(undoStack)
           n == Len(redoStack)
           t == Len(trail)
<1>0. [Next]_vars
  BY DEF Next
<1>1. /\ undoStack \in Seq(0..rev) /\ redoStack \in Seq(0..rev) /\ m \in Nat /\ n \in Nat
      /\ DOMAIN undoStack = 1..m /\ DOMAIN redoStack = 1..n /\ rev \in Nat
      /\ trail \in Seq(State) /\ t \in Nat /\ DOMAIN trail = 1..t
  BY MemoryIs, TrailTypes, Numbers DEF TypeInv, Scalars
<1>2. /\ m >= 2 /\ undoStack # <<>>
      /\ undoStack' = Front(undoStack) /\ redoStack' = Append(redoStack, Last(undoStack))
      /\ trail' = Append(trail, Here) /\ Becomes(hist[undoStack[m - 1]])
  BY <1>1, EmptySeq DEF UndoInMemory
<1>3. /\ Last(undoStack) \in 0..rev
      /\ Front(undoStack) \in Seq(0..rev) /\ Len(Front(undoStack)) = m - 1
      /\ \A i \in 1..(m - 1) : Front(undoStack)[i] = undoStack[i]
  BY <1>1, <1>2, FrontLast
<1>4. /\ Len(redoStack') = n + 1 /\ DOMAIN redoStack' = 1..(n + 1)
      /\ \A i \in 1..n : redoStack'[i] = redoStack[i]
      /\ redoStack'[n + 1] = Last(undoStack)
  BY <1>1, <1>2, <1>3, Appended
<1>5. /\ Len(trail') = t + 1 /\ DOMAIN trail' = 1..(t + 1) /\ \A i \in 1..t : trail'[i] = trail[i]
      /\ trail'[t + 1] = Here
  BY <1>1, <1>2, HereIs, Appended
<1>6. n <= t /\ Holds(redoStack, t - n, trail, hist)
  BY DEF MemoryLaid
<1> HIDE DEF m, n, t
<1>7. undoStack' # <<>> => hist'[Last(undoStack')] = hist'[rev']
  <2>1. m - 1 \in 1..(m - 1) /\ m - 1 \in 1..m
    BY <1>1, <1>2
  <2>2. Last(undoStack') = undoStack[m - 1]
    BY <1>2, <1>3, <2>1 DEF Last
  <2>3. undoStack[m - 1] \in 0..rev
    BY <1>1, <2>1, Members
  <2>4. hist'[rev'] = hist[undoStack[m - 1]]
    <3>1. undoStack[m - 1] \in Revs
      BY <2>3, HistSame, <1>0, Numbers DEF Revs
    <3>2. hist[undoStack[m - 1]] \in Revs
      BY <3>1 DEF TypeInv, Scalars
    <3>3. QED
      BY <1>2, <3>2, BecomesMoves DEF TypeInv
  <2>5. hist'[undoStack[m - 1]] = hist[undoStack[m - 1]]
    BY <1>0, <2>3, HistSame
  <2>6. QED
    BY <2>2, <2>4, <2>5
<1>8. Len(redoStack') <= Len(trail') /\ Len(trail') - Len(redoStack') = t - n
  BY <1>1, <1>4, <1>5, <1>6
<1>9. Holds(redoStack, t - n, trail', hist')
  <2>1. \A j \in DOMAIN redoStack : t - n + j \in 1..t
    BY <1>1, <1>6
  <2>2. \A j \in DOMAIN redoStack : t - n + j \in DOMAIN trail' /\ trail'[t - n + j] = trail[t - n + j]
    BY <1>1, <1>5, <2>1
  <2>3. QED
    BY <1>0, <1>1, <1>6, <2>2, HoldsKept
<1>10. hist'[Last(undoStack)] = hist'[Here.rev]
  <2>1. hist[Last(undoStack)] = hist[rev]
    BY <1>2 DEF MemoryLaid
  <2>2. rev \in 0..rev
    BY <1>1
  <2>3. QED
    BY <1>0, <1>3, <2>1, <2>2, HistSame, HereIs
<1>11. ASSUME NEW j \in DOMAIN redoStack'
       PROVE  t - n + j \in DOMAIN trail' /\ hist'[redoStack'[j]] = hist'[trail'[t - n + j].rev]
  <2>1. CASE j \in 1..n
    BY <1>1, <1>4, <1>9, <2>1 DEF Holds
  <2>2. CASE j = n + 1
    <3>1. t - n + j = t + 1 /\ t + 1 \in 1..(t + 1)
      BY <1>1, <2>2
    <3>2. QED
      BY <1>4, <1>5, <1>10, <2>2, <3>1
  <2>3. QED
    BY <1>1, <1>4, <2>1, <2>2
<1>12. Holds(redoStack', Len(trail') - Len(redoStack'), trail', hist')
  BY <1>8, <1>11 DEF Holds
<1>13. QED
  BY <1>7, <1>8, <1>12 DEF MemoryLaid

LEMMA MemoryRedone ==
  ASSUME TypeInv, HistInv, MemoryLaid, RedoInMemory, TypeInv'
  PROVE  /\ MemoryLaid'
         /\ trail # <<>> /\ hist'[rev'] = hist[Last(trail).rev]
<1> DEFINE m == Len(undoStack)
           n == Len(redoStack)
           t == Len(trail)
<1>0. [Next]_vars
  BY DEF Next
<1>1. /\ undoStack \in Seq(0..rev) /\ redoStack \in Seq(0..rev) /\ m \in Nat /\ n \in Nat
      /\ DOMAIN undoStack = 1..m /\ DOMAIN redoStack = 1..n /\ rev \in Nat
      /\ trail \in Seq(State) /\ t \in Nat /\ DOMAIN trail = 1..t
  BY MemoryIs, TrailTypes, Numbers DEF TypeInv, Scalars
<1>2. /\ redoStack # <<>> /\ Becomes(hist[Last(redoStack)])
      /\ undoStack' = Append(undoStack, Last(redoStack)) /\ redoStack' = Front(redoStack)
      /\ trail' = Front(trail)
  BY DEF RedoInMemory
<1>3. /\ Last(redoStack) \in 0..rev /\ Last(redoStack) = redoStack[n] /\ n # 0
      /\ Len(redoStack') = n - 1 /\ DOMAIN redoStack' = 1..(n - 1)
      /\ \A i \in 1..(n - 1) : redoStack'[i] = redoStack[i]
      /\ redoStack' \in Seq(0..rev)
  BY <1>1, <1>2, FrontLast
<1>4. n <= t /\ Holds(redoStack, t - n, trail, hist)
  BY DEF MemoryLaid
<1>5. trail # <<>>
  BY <1>1, <1>3, <1>4, EmptySeq
<1>6. /\ Len(trail') = t - 1 /\ DOMAIN trail' = 1..(t - 1) /\ \A i \in 1..(t - 1) : trail'[i] = trail[i]
      /\ Last(trail) = trail[t]
  BY <1>1, <1>2, <1>5, FrontLast
<1>7. Last(undoStack') = Last(redoStack)
  BY <1>1, <1>2, <1>3, Appended
<1> HIDE DEF m, n, t
<1>8. hist'[rev'] = hist[Last(redoStack)] /\ hist'[Last(redoStack)] = hist[Last(redoStack)]
  <2>1. Last(redoStack) \in Revs
    BY <1>0, <1>3, HistSame, Numbers DEF Revs
  <2>2. hist[Last(redoStack)] \in Revs
    BY <2>1 DEF TypeInv, Scalars
  <2>3. QED
    BY <1>0, <1>2, <1>3, <2>2, BecomesMoves, HistSame DEF TypeInv
<1>9. Len(redoStack') <= Len(trail') /\ Len(trail') - Len(redoStack') = t - n
  BY <1>1, <1>3, <1>4, <1>6
<1>10. Holds(redoStack', t - n, trail, hist)
  <2>1. \A j \in 1..(n - 1) : j \in 1..n
    BY <1>1
  <2>2. QED
    BY <1>1, <1>3, <1>4, <2>1 DEF Holds
<1>11. Holds(redoStack', t - n, trail', hist')
  <2>1. \A j \in DOMAIN redoStack' : t - n + j \in 1..(t - 1)
    BY <1>1, <1>3, <1>4
  <2>2. \A j \in DOMAIN redoStack' : t - n + j \in DOMAIN trail' /\ trail'[t - n + j] = trail[t - n + j]
    BY <1>6, <2>1
  <2>3. QED
    BY <1>0, <1>3, <1>10, <2>2, HoldsKept
<1>12. hist[Last(redoStack)] = hist[Last(trail).rev]
  <2>1. n \in DOMAIN redoStack /\ t - n + n = t
    BY <1>1, <1>3
  <2>2. hist[redoStack[n]] = hist[trail[t - n + n].rev]
    BY <1>4, <2>1 DEF Holds
  <2>3. QED
    BY <1>3, <1>6, <2>1, <2>2
<1>13. QED
  BY <1>5, <1>7, <1>8, <1>9, <1>11, <1>12 DEF MemoryLaid

LEMMA MemoryFromStore ==
  ASSUME TypeInv, HistInv, RedoInv, RedoInStore, TypeInv'
  PROVE  /\ MemoryLaid'
         /\ trail # <<>> /\ hist'[rev'] = hist[Last(trail).rev]
<1>0. [Next]_vars
  BY DEF Next
<1>1. /\ trail' = Front(trail) /\ undoStack' = Baseline(rev')
      /\ storeRedo # <<>> /\ Len(redoStack) = 0
      /\ redoStack' = ParkedFor(parkedRedo, Last(storeRedo))
      /\ hist'[rev'] = rows[Last(storeRedo)].content
  BY RedoInStoreIs DEF RedoInv
<1>2. /\ trail # <<>> /\ Len(trail) \in Nat \ {0} /\ Len(trail) \in DOMAIN trail
      /\ Span(Len(trail), Last(storeRedo), rows, parkedRedo, trail, hist)
  BY <1>1, LastLaid DEF RedoInv
<1> DEFINE s == ParkedFor(parkedRedo, Last(storeRedo))
           t == Len(trail)
<1>3. /\ s \in Seq(0..rev) /\ Len(s) \in Nat /\ DOMAIN s = 1..Len(s) /\ t \in Nat /\ t # 0
      /\ DOMAIN trail = 1..t
  BY <1>2, ParkedTypes, Members, TrailTypes
<1>4. rows[Last(storeRedo)].rev = trail[t].rev /\ Len(s) < t /\ Holds(s, t - 1 - Len(s), trail, hist)
  BY <1>2 DEF Span
<1>5. /\ Len(trail') = t - 1 /\ DOMAIN trail' = 1..(t - 1) /\ \A i \in 1..(t - 1) : trail'[i] = trail[i]
      /\ Last(trail) = trail[t]
  BY <1>1, <1>2, TrailTypes, FrontLast
<1>6. redoStack' = s
  BY <1>1
<1> HIDE DEF s, t
<1>7. Holds(s, t - 1 - Len(s), trail', hist')
  <2>1. \A j \in DOMAIN s : t - 1 - Len(s) + j \in 1..(t - 1)
    BY <1>3, <1>4
  <2>2. \A j \in DOMAIN s : t - 1 - Len(s) + j \in DOMAIN trail' /\ trail'[t - 1 - Len(s) + j] = trail[t - 1 - Len(s) + j]
    BY <1>5, <2>1
  <2>3. QED
    BY <1>0, <1>3, <1>4, <2>2, HoldsKept
<1>8. Len(s) <= t - 1
  BY <1>3, <1>4
<1>9. undoStack' # <<>> => hist'[Last(undoStack')] = hist'[rev']
  BY <1>1, BaselineHeld
<1>10. MemoryLaid'
  BY <1>5, <1>6, <1>7, <1>8, <1>9 DEF MemoryLaid
<1>11. hist'[rev'] = hist[Last(trail).rev]
  <2>1. Last(storeRedo) \in DOMAIN rows
    BY <1>1, LastStoreRedo
  <2>2. rows[Last(storeRedo)].content = hist[rows[Last(storeRedo)].rev]
    BY <2>1 DEF HistInv, RowsNameHist
  <2>3. QED
    BY <1>1, <1>4, <1>5, <2>2
<1>12. QED
  BY <1>2, <1>10, <1>11

LEMMA MemoryKept ==
  ASSUME TypeInv, HistInv, RedoInv, NoMemoryRollback, [Next]_vars
  PROVE  MemoryLaid'
<1>1. TypeInv' /\ MemoryLaid
  BY TypeStep DEF RedoInv
<1>2. CASE Edit
  BY <1>1, <1>2, MemoryEdited
<1>3. CASE UndoInMemory
  BY <1>1, <1>3, MemoryUndone
<1>4. CASE RedoInMemory
  BY <1>1, <1>4, MemoryRedone
<1>5. CASE RedoInStore
  BY <1>1, <1>5, MemoryFromStore
<1>6. CASE UndoInStore \/ Restore \/ Reopen
  <2>1. redoStack' = <<>> /\ undoStack' = Baseline(rev')
    <3>1. CASE UndoInStore
      BY <3>1, UndoInStoreIs DEF RedoInv
    <3>2. CASE Restore
      BY <3>2 DEF Restore, Replace, Becomes
    <3>3. CASE Reopen
      BY <3>3 DEF Reopen, TypeInv, Shut
    <3>4. QED
      BY <1>6, <3>1, <3>2, <3>3
  <2>2. QED
    BY <1>1, <2>1, NothingHeld, BaselineHeld DEF MemoryLaid
<1>7. CASE Rollback \/ Leave
  <2>1. undoStack' = <<>> /\ redoStack' = <<>>
    <3>1. CASE Rollback
      <4>1. depth = 0 /\ UNCHANGED <<undoStack, redoStack>>
        BY <3>1 DEF Rollback, NoMemoryRollback
      <4>2. QED
        BY <4>1, MemoryIs
    <3>2. CASE Leave
      BY <3>2 DEF Leave
    <3>3. QED
      BY <1>7, <3>1, <3>2
  <2>2. QED
    BY <1>1, <2>1, NothingHeld DEF MemoryLaid
<1>8. CASE UndoDoesNotLoad \/ Label \/ Save \/ Begin \/ Commit \/ BudgetEvicts \/ UNCHANGED vars
  <2>1. UNCHANGED <<rev, hist, undoStack, redoStack, trail>>
    <3>1. CASE BudgetEvicts
      <4>1. PICK n \in DOMAIN rows : Budget(n)
        BY <3>1 DEF BudgetEvicts
      <4>2. QED
        BY <4>1 DEF Budget, memVars, ghosts
    <3>2. QED
      BY <1>8, <3>1 DEF UndoDoesNotLoad, Label, Save, Begin, Commit, vars, memVars, ghosts
  <2>2. QED
    BY <1>1, <2>1 DEF MemoryLaid
<1>9. QED
  BY <1>2, <1>3, <1>4, <1>5, <1>6, <1>7, <1>8 DEF Next

\* An undo in the store puts its row, and with it what memory had to redo, at the end.
LEMMA LaidByUndo ==
  ASSUME TypeInv, HistInv, RedoInv, UndoInStore
  PROVE  StoreLaid'
<1>0. [Next]_vars
  BY DEF Next
<1> DEFINE n == Len(storeRedo)
           t == Len(trail)
           r == Len(redoStack)
<1>1. PICK at \in [DOMAIN storeRedo -> DOMAIN trail] :
        /\ Layout(at, storeRedo, rows, parkedRedo, trail, hist)
        /\ storeRedo # <<>> => at[n] + r = t
  BY DEF RedoInv, StoreLaid
<1>2. /\ n \in Nat /\ DOMAIN storeRedo = 1..n /\ (storeRedo = <<>> <=> n = 0)
      /\ t \in Nat /\ DOMAIN trail = 1..t
      /\ r \in Nat /\ DOMAIN redoStack = 1..r /\ redoStack \in Seq(0..rev)
      /\ \A k \in DOMAIN storeRedo : storeRedo[k] \in DOMAIN rows
  BY StoreRedoTypes, TrailTypes, MemoryIs, Members
<1>3. /\ trail' = Append(trail, Here) /\ redoStack' = <<>>
      /\ Len(storeRedo') = n + 1 /\ DOMAIN storeRedo' = 1..(n + 1)
      /\ \A k \in 1..n : storeRedo'[k] = storeRedo[k] /\ storeRedo[k] # Before
      /\ storeRedo'[n + 1] = Before
      /\ rows'[Before].rev = rev
      /\ \A i : i # Before => ParkedFor(parkedRedo', i) = ParkedFor(parkedRedo, i)
      /\ ParkedFor(parkedRedo', Before) = redoStack
      /\ storeRedo' # <<>>
  BY UndoInStoreIs DEF RedoInv
<1>4. /\ Len(trail') = t + 1 /\ DOMAIN trail' = 1..(t + 1) /\ \A i \in 1..t : trail'[i] = trail[i]
      /\ trail'[t + 1] = Here /\ Here.rev = rev
  BY <1>3, TrailTypes, HereIs, Appended
<1>5. r <= t /\ Holds(redoStack, t - r, trail, hist) /\ Len(redoStack') = 0
  BY <1>3, EmptySeq DEF RedoInv, MemoryLaid
<1>6. /\ \A k \in 1..n : Span(at[k], storeRedo[k], rows, parkedRedo, trail, hist)
      /\ \A j, k \in 1..n : j < k => at[j] < at[k]
      /\ \A k \in (1..n) \ {1} : at[k - 1] + Len(ParkedFor(parkedRedo, storeRedo[k])) + 1 = at[k]
      /\ \A k \in 1..n : at[k] \in 1..t
  BY <1>1, <1>2 DEF Layout
<1>15. Len(redoStack) = r
  OBVIOUS
<1> HIDE DEF n, t, r
<1> DEFINE new == [k \in 1..(n + 1) |-> IF k <= n THEN at[k] ELSE t + 1]
<1>7. /\ \A k \in 1..n : new[k] = at[k]
      /\ new[n + 1] = t + 1
      /\ new \in [DOMAIN storeRedo' -> DOMAIN trail']
  BY <1>2, <1>3, <1>4, <1>6
<1> HIDE DEF new
<1>8. ASSUME NEW k \in 1..n PROVE Span(new[k], storeRedo'[k], rows', parkedRedo', trail', hist')
  <2>1. at[k] \in DOMAIN trail /\ storeRedo[k] \in DOMAIN rows
    BY <1>2, <1>6
  <2>2. \A j \in 1..at[k] : j \in DOMAIN trail' /\ trail'[j] = trail[j]
    BY <1>2, <1>4, <1>6
  <2>3. ParkedFor(parkedRedo', storeRedo[k]) = ParkedFor(parkedRedo, storeRedo[k])
    BY <1>3
  <2>4. Span(at[k], storeRedo[k], rows', parkedRedo', trail', hist')
    BY <1>0, <1>6, <2>1, <2>2, <2>3, SpanKept
  <2>5. QED
    BY <1>3, <1>7, <2>4
<1>9. Span(new[n + 1], storeRedo'[n + 1], rows', parkedRedo', trail', hist')
  <2>1. Holds(redoStack, t - r, trail', hist')
    <3>1. \A j \in DOMAIN redoStack : t - r + j \in 1..t
      BY <1>2, <1>5
    <3>2. \A j \in DOMAIN redoStack : t - r + j \in DOMAIN trail' /\ trail'[t - r + j] = trail[t - r + j]
      BY <1>2, <1>4, <3>1
    <3>3. QED
      BY <1>0, <1>2, <1>5, <3>2, HoldsKept
  <2>2. t + 1 - 1 - r = t - r /\ r < t + 1
    BY <1>2, <1>5
  <2>3. Span(t + 1, Before, rows', parkedRedo', trail', hist')
    <3>1. ParkedFor(parkedRedo', Before) = redoStack
      BY <1>3
    <3>2. rows'[Before].rev = trail'[t + 1].rev
      BY <1>3, <1>4
    <3>3. PICK a, b : a = t + 1 /\ b = Before
      OBVIOUS
    <3>4. ParkedFor(parkedRedo', b) = redoStack /\ rows'[b].rev = trail'[a].rev
      BY <3>1, <3>2, <3>3
    <3>5. Len(redoStack) < a /\ a - 1 - Len(redoStack) = t - r
      BY <1>2, <1>5, <1>15, <3>3
    <3>6. Holds(redoStack, a - 1 - Len(redoStack), trail', hist')
      BY <2>1, <3>5
    <3>7. Span(a, b, rows', parkedRedo', trail', hist')
      BY <3>4, <3>5, <3>6, SpanIs
    <3>8. QED
      BY <3>3, <3>7
  <2>4. QED
    BY <1>3, <1>7, <2>3
<1>10. ASSUME NEW k \in DOMAIN storeRedo' PROVE Span(new[k], storeRedo'[k], rows', parkedRedo', trail', hist')
  <2>1. k \in 1..n \/ k = n + 1
    BY <1>2, <1>3
  <2>2. QED
    BY <1>8, <1>9, <2>1
<1>11. ASSUME NEW j \in DOMAIN storeRedo', NEW k \in DOMAIN storeRedo', j < k PROVE new[j] < new[k]
  <2>1. j \in 1..n /\ (k \in 1..n \/ k = n + 1)
    BY <1>2, <1>3, <1>11
  <2>2. CASE k \in 1..n
    BY <1>6, <1>7, <1>11, <2>1, <2>2
  <2>3. CASE k = n + 1
    BY <1>2, <1>6, <1>7, <2>1, <2>3
  <2>4. QED
    BY <2>1, <2>2, <2>3
<1>12. ASSUME NEW k \in DOMAIN storeRedo' \ {1}
       PROVE  new[k - 1] + Len(ParkedFor(parkedRedo', storeRedo'[k])) + 1 = new[k]
  <2>1. CASE k \in 1..n
    <3>1. k - 1 \in 1..n /\ k \in (1..n) \ {1}
      BY <1>2, <2>1
    <3>2. ParkedFor(parkedRedo', storeRedo'[k]) = ParkedFor(parkedRedo, storeRedo[k])
      BY <1>3, <2>1
    <3>3. QED
      BY <1>6, <1>7, <3>1, <3>2
  <2>2. CASE k = n + 1
    <3>1. k - 1 = n /\ n # 0 /\ n \in 1..n
      BY <1>2, <2>2
    <3>2. at[n] + r = t /\ at[n] \in Nat
      BY <1>1, <1>2, <1>6, <3>1
    <3>3. at[n] + r + 1 = t + 1
      BY <1>2, <3>2
    <3>4. Len(ParkedFor(parkedRedo', storeRedo'[k])) = r /\ new[k - 1] = at[n] /\ new[k] = t + 1
      BY <1>3, <1>7, <1>15, <2>2, <3>1
    <3>5. QED
      BY <3>3, <3>4
  <2>3. QED
    BY <1>2, <1>3, <2>1, <2>2
<1>13. Layout(new, storeRedo', rows', parkedRedo', trail', hist')
  BY <1>10, <1>11, <1>12 DEF Layout
<1>14. new[Len(storeRedo')] + Len(redoStack') = Len(trail')
  <2>1. Len(storeRedo') = n + 1 /\ Len(redoStack') = 0 /\ Len(trail') = t + 1 /\ t \in Nat
    BY <1>2, <1>3, <1>4, <1>5
  <2>2. QED
    BY <1>7, <2>1
<1>16. QED
  BY <1>7, <1>13, <1>14 DEF StoreLaid

\* A redo in the store leaves the places of the rows before the one it takes.
LEMMA LaidByRedo ==
  ASSUME TypeInv, HistInv, RedoInv, RedoInStore
  PROVE  StoreLaid'
<1>0. [Next]_vars
  BY DEF Next
<1> DEFINE n == Len(storeRedo)
           t == Len(trail)
<1>1. /\ trail' = Front(trail) /\ storeRedo # <<>> /\ storeRedo' = Front(storeRedo) /\ Len(redoStack) = 0
      /\ redoStack' = ParkedFor(parkedRedo, Last(storeRedo))
      /\ \A k \in 1..(n - 1) : ParkedFor(parkedRedo', storeRedo[k]) = ParkedFor(parkedRedo, storeRedo[k])
  BY RedoInStoreIs DEF RedoInv
<1>2. PICK at \in [DOMAIN storeRedo -> DOMAIN trail] :
        /\ Layout(at, storeRedo, rows, parkedRedo, trail, hist)
        /\ at[n] + Len(redoStack) = t
  BY <1>1 DEF RedoInv, StoreLaid
<1>3. /\ n \in Nat \ {0} /\ DOMAIN storeRedo = 1..n /\ Last(storeRedo) = storeRedo[n]
      /\ t \in Nat /\ DOMAIN trail = 1..t
      /\ \A k \in DOMAIN storeRedo : storeRedo[k] \in DOMAIN rows
      /\ DOMAIN storeRedo' = 1..(n - 1) /\ Len(storeRedo') = n - 1
      /\ \A k \in 1..(n - 1) : storeRedo'[k] = storeRedo[k]
      /\ (storeRedo' = <<>> <=> n = 1)
  BY <1>1, StoreRedoTypes, TrailTypes, LastStoreRedo
<1>4. trail # <<>>
  BY <1>1, LastLaid DEF RedoInv
<1>5. /\ Len(trail') = t - 1 /\ DOMAIN trail' = 1..(t - 1) /\ \A i \in 1..(t - 1) : trail'[i] = trail[i]
  <2>1. trail \in Seq(State)
    BY TrailTypes
  <2>2. /\ Len(Front(trail)) = t - 1 /\ DOMAIN Front(trail) = 1..(t - 1)
        /\ \A i \in 1..(t - 1) : Front(trail)[i] = trail[i]
    BY <1>4, <2>1, FrontLast
  <2>3. trail' = Front(trail)
    BY <1>1
  <2>4. QED
    BY <2>2, <2>3
<1>6. /\ \A k \in 1..n : Span(at[k], storeRedo[k], rows, parkedRedo, trail, hist)
      /\ \A j, k \in 1..n : j < k => at[j] < at[k]
      /\ \A k \in (1..n) \ {1} : at[k - 1] + Len(ParkedFor(parkedRedo, storeRedo[k])) + 1 = at[k]
      /\ \A k \in 1..n : at[k] \in 1..t
  BY <1>2, <1>3 DEF Layout
<1>7. at[n] = t
  <2>1. at[n] \in Nat
    BY <1>3, <1>6
  <2>2. QED
    BY <1>1, <1>2, <2>1
<1> HIDE DEF n, t
<1>8. ASSUME NEW k \in 1..(n - 1) PROVE k \in 1..n /\ at[k] \in 1..(t - 1) /\ at[k] \in 1..t
  <2>1. k \in 1..n /\ n \in 1..n /\ k < n
    BY <1>3
  <2>2. at[k] < t /\ at[k] \in 1..t
    BY <1>6, <1>7, <2>1
  <2>3. QED
    BY <1>3, <2>1, <2>2
<1> DEFINE new == [k \in 1..(n - 1) |-> at[k]]
<1>9. /\ \A k \in 1..(n - 1) : new[k] = at[k]
      /\ new \in [DOMAIN storeRedo' -> DOMAIN trail']
  BY <1>3, <1>5, <1>8
<1> HIDE DEF new
<1>10. ASSUME NEW k \in DOMAIN storeRedo' PROVE Span(new[k], storeRedo'[k], rows', parkedRedo', trail', hist')
  <2>1. k \in 1..(n - 1)
    BY <1>3
  <2>2. at[k] \in DOMAIN trail /\ storeRedo[k] \in DOMAIN rows /\ k \in 1..n
    BY <1>3, <1>8, <2>1
  <2>3. \A j \in 1..at[k] : j \in DOMAIN trail' /\ trail'[j] = trail[j]
    BY <1>3, <1>5, <1>8, <2>1
  <2>4. ParkedFor(parkedRedo', storeRedo[k]) = ParkedFor(parkedRedo, storeRedo[k])
    BY <1>1, <2>1 DEF n
  <2>5. Span(at[k], storeRedo[k], rows, parkedRedo, trail, hist)
    BY <1>6, <2>2
  <2>6. Span(at[k], storeRedo[k], rows', parkedRedo', trail', hist')
    BY <1>0, <2>2, <2>3, <2>4, <2>5, SpanKept
  <2>7. QED
    BY <1>3, <1>9, <2>1, <2>6
<1>11. ASSUME NEW j \in DOMAIN storeRedo', NEW k \in DOMAIN storeRedo', j < k PROVE new[j] < new[k]
  BY <1>3, <1>6, <1>8, <1>9, <1>11
<1>12. ASSUME NEW k \in DOMAIN storeRedo' \ {1}
       PROVE  new[k - 1] + Len(ParkedFor(parkedRedo', storeRedo'[k])) + 1 = new[k]
  <2>1. k \in 1..(n - 1) /\ k - 1 \in 1..(n - 1) /\ k \in (1..n) \ {1}
    BY <1>3
  <2>2. ParkedFor(parkedRedo', storeRedo'[k]) = ParkedFor(parkedRedo, storeRedo[k])
    BY <1>1, <1>3, <2>1 DEF n
  <2>3. QED
    BY <1>6, <1>9, <2>1, <2>2
<1>13. Layout(new, storeRedo', rows', parkedRedo', trail', hist')
  BY <1>10, <1>11, <1>12 DEF Layout
<1>14. ASSUME storeRedo' # <<>> PROVE new[Len(storeRedo')] + Len(redoStack') = Len(trail')
  <2>1. n - 1 \in 1..(n - 1) /\ n \in (1..n) \ {1}
    BY <1>3, <1>14
  <2>2. at[n - 1] + Len(ParkedFor(parkedRedo, storeRedo[n])) + 1 = t
    BY <1>6, <1>7, <2>1
  <2>3. at[n - 1] \in Nat /\ Len(ParkedFor(parkedRedo, storeRedo[n])) \in Nat /\ t \in Nat
    BY <1>3, <1>8, <2>1, ParkedTypes
  <2>4. at[n - 1] + Len(ParkedFor(parkedRedo, storeRedo[n])) = t - 1
    BY <2>2, <2>3
  <2>5. QED
    BY <1>1, <1>3, <1>5, <1>9, <2>1, <2>4
<1>15. QED
  BY <1>9, <1>13, <1>14 DEF StoreLaid

LEMMA StoreLaidKept ==
  ASSUME TypeInv, HistInv, RedoInv, [Next]_vars
  PROVE  StoreLaid'
<1>1. CASE UndoInStore
  BY <1>1, LaidByUndo
<1>2. CASE RedoInStore
  BY <1>2, LaidByRedo
<1>3. CASE storeRedo' = <<>>
  BY <1>3, NothingLaid
<1>4. CASE storeRedo' = storeRedo /\ parkedRedo' = parkedRedo /\ UNCHANGED <<redoStack, trail>>
  <2>1. PICK at \in [DOMAIN storeRedo -> DOMAIN trail] :
          /\ Layout(at, storeRedo, rows, parkedRedo, trail, hist)
          /\ storeRedo # <<>> => at[Len(storeRedo)] + Len(redoStack) = Len(trail)
    BY DEF RedoInv, StoreLaid
  <2>2. ASSUME NEW k \in DOMAIN storeRedo
        PROVE  Span(at[k], storeRedo[k], rows', parkedRedo, trail, hist')
    <3>1. storeRedo[k] \in DOMAIN rows /\ at[k] \in DOMAIN trail /\ DOMAIN trail = 1..Len(trail) /\ Len(trail) \in Nat
      BY <2>1, StoreRedoTypes, TrailTypes
    <3>2. \A j \in 1..at[k] : j \in DOMAIN trail' /\ trail'[j] = trail[j]
      BY <1>4, <3>1
    <3>3. Span(at[k], storeRedo[k], rows, parkedRedo, trail, hist)
      BY <2>1 DEF Layout
    <3>4. Span(at[k], storeRedo[k], rows', parkedRedo', trail', hist')
      BY <1>4, <3>1, <3>2, <3>3, SpanKept
    <3>5. QED
      BY <1>4, <3>4
  <2>3. Layout(at, storeRedo, rows', parkedRedo, trail, hist')
    BY <2>1, <2>2 DEF Layout
  <2>4. QED
    BY <1>4, <2>1, <2>3 DEF StoreLaid
<1>5. QED
  BY <1>1, <1>2, <1>3, <1>4, RedoKinds

LEMMA RedoStep ==
  ASSUME TypeInv, HistInv, RedoInv, NoMemoryRollback, [Next]_vars
  PROVE  RedoInv'
BY StoreLaidKept, StoreOrderedKept, MemoryKept DEF RedoInv

LEMMA RedoInit == Init => RedoInv
<1> SUFFICES ASSUME Init PROVE RedoInv
  OBVIOUS
<1>1. /\ storeRedo = <<>> /\ parkedRedo = Empty /\ redoStack = <<>> /\ trail = <<>> /\ rev = 0
      /\ undoStack = <<0>> \/ undoStack = <<>>
  BY DEF Init
<1>2. DOMAIN storeRedo = {} /\ Len(redoStack) = 0 /\ Len(trail) = 0 /\ DOMAIN redoStack = {} /\ Last(<<0>>) = 0
  BY <1>1, EmptySeq DEF Last
<1>3. StoreLaid
  <2> DEFINE at == [k \in {} |-> 0]
  <2>1. at \in [DOMAIN storeRedo -> DOMAIN trail]
    BY <1>2
  <2>2. Layout(at, storeRedo, rows, parkedRedo, trail, hist)
    BY <1>2 DEF Layout
  <2>3. QED
    BY <1>1, <2>1, <2>2 DEF StoreLaid
<1>4. StoreOrdered
  BY <1>1, <1>2, EmptyIs DEF StoreOrdered
<1>5. MemoryLaid
  BY <1>1, <1>2 DEF MemoryLaid, Holds
<1>6. QED
  BY <1>3, <1>4, <1>5 DEF RedoInv

LEMMA Retraces ==
  ASSUME TypeInv, HistInv, RedoInv, Redo
  PROVE  trail # <<>> /\ hist'[rev'] = hist[Last(trail).rev]
<1>1. TypeInv'
  BY TypeStep DEF Redo, Next
<1>2. QED
  BY <1>1, MemoryRedone, MemoryFromStore DEF Redo, RedoInv

\* Every redo brings back what the newest undo not yet redone replaced: along any
\* mixture of undos and redos in memory and in the store, and whatever evictions,
\* labels, saves and begins come between.  A rollback must find no in-memory steps:
\* it leaves them as they are.
THEOREM RedoRetracesHolds ==
  ASSUME NoMemoryRollback
  PROVE  Spec => RedoRetraces
<1>1. Init => TypeInv /\ HistInv /\ RedoInv
  BY TypeInit, HistInit, RedoInit
<1>2. TypeInv /\ HistInv /\ RedoInv /\ [Next]_vars => (TypeInv /\ HistInv /\ RedoInv)'
  BY TypeStep, HistStep, RedoStep
<1>3. TypeInv /\ HistInv /\ RedoInv /\ [Next]_vars
        => [Redo => trail # <<>> /\ hist'[rev'] = hist[Last(trail).rev]]_vars
  BY Retraces
<1>4. QED
  BY <1>1, <1>2, <1>3, PTL DEF Spec, RedoRetraces

===============================================================================
