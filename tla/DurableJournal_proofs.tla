------------------------- MODULE DurableJournal_proofs -------------------------
(***************************************************************************)
(* Proofs about DurableJournal, for every set of servers, ids and requests *)
(* and every bound: the type invariant, and - with one server at a time on *)
(* the state folder - that an operation id takes effect at most once, no   *)
(* row is left running by a dead server, none says "committed" of a write  *)
(* that did not land, a client gets the answer of one run, and the journal *)
(* implements AtMostOnceCall.                                              *)
(***************************************************************************)
EXTENDS DurableJournal, SequenceTheorems, TLAPS

-------------------------------------------------------------------------------
(* The bounded memory *)

\* Taking a key out of the memory's order leaves a sequence that is not longer.
LEMMA WithoutType ==
  ASSUME NEW S, NEW q \in Seq(S), NEW k
  PROVE  /\ Without(q, k) \in Seq(S)
         /\ Len(Without(q, k)) <= Len(q)
<1> DEFINE at == {n \in 1..Len(q) : q[n] = k}
<1>1. CASE at = {} \/ k = Other
  BY <1>1 DEF Without
<1>2. CASE ~(at = {} \/ k = Other)
  <2> DEFINE p == CHOOSE n \in at : TRUE
  <2>1. p \in 1..Len(q)
    BY <1>2
  <2> DEFINE left == SubSeq(q, 1, p - 1)
             right == SubSeq(q, p + 1, Len(q))
  <2>2. Without(q, k) = left \o right
    BY <1>2 DEF Without
  <2> HIDE DEF p
  <2>3. Len(q) \in Nat
    BY LenProperties
  <2>4. left \in Seq(S) /\ Len(left) = p - 1
    <3>1. \A n \in 1..(p - 1) : q[n] \in S
      BY <2>1, <2>3, ElementOfSeq
    <3>2. QED
      BY <3>1, <2>3, <2>1, SubSeqProperties
  <2>5. right \in Seq(S) /\ Len(right) = Len(q) - p
    <3>1. \A n \in (p + 1)..Len(q) : q[n] \in S
      BY <2>1, <2>3, ElementOfSeq
    <3>2. QED
      BY <3>1, <2>3, <2>1, SubSeqProperties
  <2> HIDE DEF left, right
  <2>6. left \o right \in Seq(S) /\ Len(left \o right) = Len(left) + Len(right)
    BY <2>4, <2>5, ConcatProperties
  <2>7. QED
    BY <2>1, <2>2, <2>3, <2>4, <2>5, <2>6
<1>3. QED
  BY <1>1, <1>2

\* _store keeps the memory's order a sequence of keys, of at most maxlen of them.
LEMMA RememberType ==
  ASSUME TypeOK, NEW s \in Servers, NEW k \in Ids \cup {Other}, NEW rec \in Record \cup {None},
         Remember(s, k, rec)
  PROVE  /\ age' \in [Servers -> Seq(Ids \cup {Other})]
         /\ \A t \in Servers : Len(age'[t]) <= MaxLen
         /\ mem' \in [Servers -> [Ids -> Record \cup {None}]]
<1> DEFINE short == Without(age[s], k)
           longer == Append(short, k)
           new == IF Overfull(longer) THEN Tail(longer) ELSE longer
<1>1. age[s] \in Seq(Ids \cup {Other}) /\ Len(age[s]) <= MaxLen
  BY DEF TypeOK
<1>2. MaxLen \in Nat /\ MaxLen >= 1
  BY JournalAssumption
<1>3. short \in Seq(Ids \cup {Other}) /\ Len(short) <= Len(age[s])
  BY <1>1, WithoutType
<1> HIDE DEF short
<1>4. Len(age[s]) \in Nat /\ Len(short) \in Nat
  BY <1>1, <1>3, LenProperties
<1>5. /\ longer \in Seq(Ids \cup {Other})
      /\ Len(longer) = Len(short) + 1
      /\ longer # <<>>
  BY <1>3, AppendProperties
<1>6. new \in Seq(Ids \cup {Other}) /\ Len(new) <= MaxLen
  <2>1. CASE Overfull(longer)
    <3>1. Tail(longer) \in Seq(Ids \cup {Other}) /\ Len(Tail(longer)) = Len(longer) - 1
      BY <1>5, HeadTailProperties
    <3>2. QED
      BY <2>1, <3>1, <1>1, <1>2, <1>3, <1>4, <1>5
  <2>2. CASE ~Overfull(longer)
    BY <2>2, <1>2, <1>4, <1>5 DEF Overfull
  <2>3. QED
    BY <2>1, <2>2
<1>7. age' = [age EXCEPT ![s] = new]
  BY DEF Remember, short
<1> HIDE DEF new
<1>8. age' \in [Servers -> Seq(Ids \cup {Other})] /\ \A t \in Servers : Len(age'[t]) <= MaxLen
  BY <1>6, <1>7 DEF TypeOK
<1>9. mem' \in [Servers -> [Ids -> Record \cup {None}]]
  BY DEF Remember, TypeOK
<1>10. QED
  BY <1>8, <1>9

\* What _store does to the records: the new one is the only one it adds.
LEMMA RememberKeeps ==
  ASSUME TypeOK, NEW s \in Servers, NEW k \in Ids \cup {Other}, NEW rec, Remember(s, k, rec)
  PROVE  \A t \in Servers, id \in Ids :
           \/ mem'[t][id] = mem[t][id]
           \/ mem'[t][id] = None
           \/ t = s /\ id = k /\ mem'[t][id] = rec
BY DEF Remember, TypeOK

-------------------------------------------------------------------------------
(* Types *)

\* A dead owner's running row becomes cancelled or unknown_commit, in its state alone.
LEMMA ReconciledFacts ==
  ASSUME NEW r \in Record
  PROVE  /\ Reconciled(r) \in Record
         /\ Reconciled(r).att = r.att /\ Reconciled(r).req = r.req
         /\ Reconciled(r).owner = r.owner /\ Reconciled(r).has = r.has
         /\ Reconciled(r).state = IF r.req \in ReadOnly THEN "cancelled" ELSE "unknown_commit"
BY DEF Reconciled, Record, States

\* A record _lookup answers with is one the file or the memory holds.
LEMMA KnownType ==
  ASSUME TypeOK, NEW s \in Servers, NEW id \in Ids
  PROVE  /\ Seen(s, id) \in Record \cup {None}
         /\ Known(s, id) \in Record \cup {None}
         /\ RowsAfterLookup(s, id) \in [Ids -> Record \cup {None}]
<1>1. rows[id] \in Record \cup {None} /\ mem[s][id] \in Record \cup {None}
  BY DEF TypeOK
<1>2. Seen(s, id) \in Record \cup {None}
  BY <1>1 DEF Seen, Reconciled, Record, States
<1>3. Known(s, id) \in Record \cup {None}
  BY <1>1, <1>2 DEF Known
<1>4. RowsAfterLookup(s, id) \in [Ids -> Record \cup {None}]
  BY <1>2 DEF RowsAfterLookup, TypeOK
<1>5. QED
  BY <1>2, <1>3, <1>4

\* finish changes a record's state, answer and run, and nothing else of it.
LEMMA EndedType ==
  ASSUME NEW r \in Record, NEW c \in Call, NEW state \in States, NEW has \in BOOLEAN
  PROVE  /\ Ended(r, c, state, has) \in Record
         /\ Ended(r, c, state, has).state = state
         /\ Ended(r, c, state, has).has = has
         /\ Ended(r, c, state, has).att = c.att
         /\ Ended(r, c, state, has).req = r.req
         /\ Ended(r, c, state, has).owner = r.owner
BY DEF Ended, Record, Call

\* A call whose caller has left differs from the call in that alone.
LEMMA LeftType ==
  ASSUME NEW c \in Call
  PROVE  /\ [c EXCEPT !.open = FALSE] \in Call
         /\ [c EXCEPT !.open = FALSE].at = c.at
         /\ [c EXCEPT !.open = FALSE].id = c.id
         /\ [c EXCEPT !.open = FALSE].att = c.att
         /\ [c EXCEPT !.open = FALSE].req = c.req
         /\ [c EXCEPT !.open = FALSE].stage = c.stage
         /\ [c EXCEPT !.open = FALSE].open = FALSE
BY DEF Call

\* A call that moves in the engine differs from what it was in its stage alone.
LEMMA StageMoves ==
  ASSUME TypeOK, NEW c \in calls, Work(c) \/ Return(c)
  PROVE  /\ c.open
         /\ UNCHANGED <<up, conn, sweep, rows, mem, age, attempts, applied, answered, lapsed>>
         /\ \E d \in Call : /\ calls' = (calls \ {c}) \cup {d}
                           /\ d.at = c.at /\ d.id = c.id /\ d.att = c.att /\ d.req = c.req
                           /\ d.open = c.open /\ d.stage \in {"works", "made"}
<1>1. c \in Call
  BY DEF TypeOK
<1>2. ASSUME NEW stage \in Stages
      PROVE  /\ [c EXCEPT !.stage = stage] \in Call
             /\ [c EXCEPT !.stage = stage].at = c.at /\ [c EXCEPT !.stage = stage].id = c.id
             /\ [c EXCEPT !.stage = stage].att = c.att /\ [c EXCEPT !.stage = stage].req = c.req
             /\ [c EXCEPT !.stage = stage].open = c.open
             /\ [c EXCEPT !.stage = stage].stage = stage
  BY <1>1 DEF Call
<1>3. \E stage \in {"works", "made"} :
        calls' = (calls \ {c}) \cup {[c EXCEPT !.stage = stage]}
  BY DEF Work, Return, MoveTo
<1>4. QED
  BY <1>2, <1>3 DEF Work, Return, MoveTo, Stages

LEMMA InitType == Init => TypeOK
<1> SUFFICES ASSUME Init PROVE TypeOK
  OBVIOUS
<1>1. <<>> \in Seq(Ids \cup {Other}) /\ Len(<<>>) = 0
  BY EmptySeq
<1>2. MaxLen \in Nat /\ MaxAttempts \in Nat
  BY JournalAssumption
<1>3. QED
  BY <1>1, <1>2 DEF Init, TypeOK, NoSweep, Call, Attempts

LEMMA NextType == TypeOK /\ [Next]_vars => TypeOK'
<1> SUFFICES ASSUME TypeOK, [Next]_vars PROVE TypeOK'
  OBVIOUS
<1> USE JournalAssumption
<1>1. ASSUME NEW s \in Servers, Open(s) PROVE TypeOK'
  <2> DEFINE owners == {t \in Servers : \E id \in Ids :
                          rows[id] # None /\ rows[id].state = "running" /\ rows[id].owner = t}
  <2>1. sweep[s] \in [owners : SUBSET Servers, picked : SUBSET Ids] /\ owners \in SUBSET Servers
    BY DEF TypeOK
  <2> HIDE DEF owners
  <2>2. [sweep[s] EXCEPT !.owners = owners] \in [owners : SUBSET Servers, picked : SUBSET Ids]
    BY <2>1
  <2>3. sweep' = sweep \/ sweep' = [sweep EXCEPT ![s] = [sweep[s] EXCEPT !.owners = owners]]
    BY <1>1 DEF Open, owners
  <2>4. sweep' \in [Servers -> [owners : SUBSET Servers, picked : SUBSET Ids]]
    BY <2>2, <2>3 DEF TypeOK
  <2>5. QED
    BY <1>1, <2>4 DEF Open, TypeOK
<1>2. ASSUME NEW s \in Servers, SweepPick(s) PROVE TypeOK'
  BY <1>2 DEF SweepPick, TypeOK
<1>3. ASSUME NEW s \in Servers, SweepMark(s) PROVE TypeOK'
  <2>1. \A id \in Ids : rows[id] \in Record => Reconciled(rows[id]) \in Record
    BY ReconciledFacts
  <2>2. rows' \in [Ids -> Record \cup {None}]
    BY <1>3, <2>1 DEF SweepMark, TypeOK
  <2>3. sweep[s] \in [owners : SUBSET Servers, picked : SUBSET Ids]
    BY DEF TypeOK
  <2>4. [sweep[s] EXCEPT !.picked = {}] \in [owners : SUBSET Servers, picked : SUBSET Ids]
    BY <2>3
  <2>5. sweep' = [sweep EXCEPT ![s] = [sweep[s] EXCEPT !.picked = {}]]
    BY <1>3 DEF SweepMark
  <2>6. sweep' \in [Servers -> [owners : SUBSET Servers, picked : SUBSET Ids]]
    BY <2>4, <2>5 DEF TypeOK
  <2>7. QED
    BY <1>3, <2>2, <2>6 DEF SweepMark, TypeOK
<1>4. ASSUME NEW s \in Servers, OpenDone(s) PROVE TypeOK'
  BY <1>4 DEF OpenDone, TypeOK
<1>5. ASSUME NEW s \in Servers, NEW id \in Ids, NEW req \in Reqs, BeginRefused(s, id, req)
      PROVE  TypeOK'
  BY <1>5, KnownType DEF BeginRefused, TypeOK
<1>6. ASSUME NEW s \in Servers, NEW id \in Ids, NEW req \in Reqs, BeginReplayed(s, id, req)
      PROVE  TypeOK'
  <2>1. Known(s, id) \in Record
    BY <1>6, KnownType DEF BeginReplayed, Replays
  <2>2. Known(s, id).att \in Attempts
    BY <2>1 DEF Record
  <2>3. QED
    BY <1>6, <2>2 DEF BeginReplayed, TypeOK
<1>7. ASSUME NEW s \in Servers, NEW id \in Ids, NEW req \in Reqs, BeginRuns(s, id, req)
      PROVE  TypeOK'
  <2> DEFINE att == attempts[id] + 1
             rec == [state |-> "running", req |-> req, att |-> att, owner |-> s, has |-> FALSE]
             call == [at |-> s, id |-> id, att |-> att, req |-> req,
                      stage |-> "waits", open |-> TRUE]
  <2>1. att \in Attempts
    BY <1>7 DEF BeginRuns, TypeOK, Attempts
  <2>2. rec \in Record
    BY <2>1 DEF Record, States
  <2>3. Remember(s, id, rec)
    BY <1>7 DEF BeginRuns
  <2>4. /\ age' \in [Servers -> Seq(Ids \cup {Other})]
        /\ \A t \in Servers : Len(age'[t]) <= MaxLen
        /\ mem' \in [Servers -> [Ids -> Record \cup {None}]]
    BY <2>2, <2>3, RememberType
  <2>5. call \in Call
    BY <2>1 DEF Call, Stages
  <2>6. calls' = calls \cup {call}
    BY <1>7 DEF BeginRuns
  <2>7. attempts' \in [Ids -> 0..MaxAttempts]
    BY <1>7, <2>1 DEF BeginRuns, TypeOK, Attempts
  <2>8. rows' \in [Ids -> Record \cup {None}]
    BY <1>7, <2>2 DEF BeginRuns, TypeOK
  <2> HIDE DEF call
  <2>9. QED
    BY <1>7, <2>4, <2>5, <2>6, <2>7, <2>8 DEF BeginRuns, TypeOK
<1>8. ASSUME NEW s \in Servers, BeginOther(s) PROVE TypeOK'
  <2>1. Remember(s, Other, None)
    BY <1>8 DEF BeginOther
  <2>2. QED
    BY <1>8, <2>1, RememberType DEF BeginOther, TypeOK
<1>9. ASSUME NEW s \in Servers, Degrade(s) PROVE TypeOK'
  BY <1>9 DEF Degrade, TypeOK, NoSweep
<1>10. ASSUME NEW s \in Servers, Die(s) PROVE TypeOK'
  <2>1. <<>> \in Seq(Ids \cup {Other}) /\ Len(<<>>) = 0
    BY EmptySeq
  <2>2. QED
    BY <1>10, <2>1 DEF Die, TypeOK, NoSweep
<1>11. ASSUME NEW c \in calls, Apply(c) PROVE TypeOK'
  BY <1>11 DEF Apply, TypeOK, Call
<1>15. ASSUME NEW c \in calls, Work(c) \/ Return(c) PROVE TypeOK'
  BY <1>15, StageMoves DEF TypeOK
<1>12. ASSUME NEW c \in calls, NEW state \in States, NEW has \in BOOLEAN, Finish(c, state, has)
       PROVE  TypeOK'
  <2>1. c \in Call /\ c.at \in Servers /\ c.id \in Ids /\ c.att \in Attempts
    BY DEF TypeOK, Call
  <2>2. mem' \in [Servers -> [Ids -> Record \cup {None}]]
    <3>1. mem[c.at][c.id] # None => Ended(mem[c.at][c.id], c, state, has) \in Record
      BY <2>1, EndedType DEF TypeOK
    <3>2. QED
      BY <1>12, <2>1, <3>1 DEF Finish, TypeOK
  <2>3. rows' \in [Ids -> Record \cup {None}]
    <3>1. rows[c.id] # None => Ended(rows[c.id], c, state, has) \in Record
      BY <2>1, EndedType DEF TypeOK
    <3>2. QED
      BY <1>12, <2>1, <3>1 DEF Finish, TypeOK
  <2>4. [c EXCEPT !.open = FALSE] \in Call
    BY <2>1, LeftType
  <2>5. calls' \subseteq Call
    BY <1>12, <2>4 DEF Finish, TypeOK
  <2>6. answered' \in [Ids -> SUBSET Attempts]
    BY <1>12, <2>1 DEF Finish, TypeOK
  <2>7. QED
    BY <1>12, <2>2, <2>3, <2>5, <2>6 DEF Finish, TypeOK
<1>13. CASE UNCHANGED vars
  BY <1>13 DEF vars, TypeOK
<1>14. QED
  BY <1>1, <1>2, <1>3, <1>4, <1>5, <1>6, <1>7, <1>8, <1>9, <1>10, <1>11, <1>12, <1>13, <1>15
     DEF Next, Begin, End

\* Every variable keeps its type, and no memory ever holds more than maxlen
\* records: OperationJournal._store evicts in the same step that adds.
THEOREM TypeCorrect == Spec => []TypeOK
<1>1. QED
  BY InitType, NextType, PTL DEF Spec

-------------------------------------------------------------------------------
(* One server at a time: the file's row decides *)

\* What a connected server knows of an id is its row, settled first if the
\* row's owner died while it ran.
LEMMA KnownIsRow ==
  ASSUME TypeOK, AtMostOnceInv, NEW s \in Servers, up[s] = "up", conn[s],
         NEW id \in Ids, id \notin lapsed
  PROVE  \/ Known(s, id) = rows[id]
         \/ /\ rows[id] \in Record
            /\ rows[id].state = "running" /\ rows[id].owner # s
            /\ Known(s, id) = Reconciled(rows[id])
<1>1. CASE mem[s][id] # None
  BY <1>1 DEF Known, AtMostOnceInv, MemoryAgrees
<1>2. CASE mem[s][id] = None
  BY <1>2 DEF Known, Seen, TypeOK
<1>3. QED
  BY <1>1, <1>2

\* begin lets a call run only if no run of its id took effect, none is under
\* way and no settled row is in the file.
LEMMA BeginIsFree ==
  ASSUME TypeOK, AtMostOnceInv, NEW s \in Servers, NEW id \in Ids, NEW req \in Reqs,
         up[s] = "up", conn[s], id \notin lapsed,
         ~Refuses(Known(s, id), req), ~Replays(Known(s, id), req)
  PROVE  /\ applied[id] = {} \/ (MayRepeat(id) /\ req = rows[id].req)
         /\ \A c \in calls : c.id # id
         /\ ~Settled(rows[id])
<1>1. rows[id] \in Record \cup {None}
  BY DEF TypeOK
<1>2. None \notin Record
  BY NoneAssumption
<1>3. ~Settled(rows[id])
  BY <1>1, <1>2, KnownIsRow DEF Settled, Refuses, Replays, Replayable
<1>4. \A c \in calls : c.id # id
  <2> SUFFICES ASSUME NEW c \in calls, c.id = id PROVE FALSE
    OBVIOUS
  <2>1. rows[id] # None /\ rows[id].owner = c.at /\ rows[id].state \in {"running", "unknown_commit"}
    BY DEF AtMostOnceInv, CallHasRow
  <2>2. c.at = s
    BY DEF AtMostOnceInv, CallsAreUp, OneAlive, Alive, TypeOK, Call
  <2>3. Known(s, id) = rows[id]
    BY <2>1, <2>2, KnownIsRow
  <2>4. QED
    BY <2>1, <2>3 DEF Refuses
<1>5. applied[id] = {} \/ (MayRepeat(id) /\ req = rows[id].req)
  <2> SUFFICES ASSUME NEW a \in applied[id], ~(MayRepeat(id) /\ req = rows[id].req) PROVE FALSE
    BY DEF TypeOK
  <2>0. ~MayRepeat(id)
    <3>1. rows[id] \in Record
      BY <1>1 DEF AtMostOnceInv, AppliedBlocks
    <3>2. Known(s, id) # None /\ Known(s, id).req = rows[id].req
      BY <1>2, <3>1, KnownIsRow, ReconciledFacts
    <3>3. req = rows[id].req
      BY <3>2 DEF Refuses
    <3>4. QED
      BY <3>3
  <2>1. rows[id] # None /\ rows[id].req \notin ReadOnly /\ rows[id].state = "running"
    BY <1>3, <2>0 DEF AtMostOnceInv, AppliedBlocks, WaitsUntouched, MayRepeat
  <2>2. Reconciled(rows[id]).state = "unknown_commit"
    BY <1>1, <2>1, ReconciledFacts
  <2>3. Reconciled(rows[id]) \in Record
    BY <1>1, <2>1, ReconciledFacts
  <2>4. QED
    BY <1>2, <2>1, <2>2, <2>3, KnownIsRow DEF Refuses
<1>6. QED
  BY <1>3, <1>4, <1>5

LEMMA InitInv == Init => AtMostOnceInv
BY DEF Init, AtMostOnceInv, OneAlive, FreshMemory, CallsAreUp, MemoryAgrees, CallHasRow,
       OneCall, AppliedBlocks, WaitsUntouched, MayRepeat, Alive

\* At most one process uses the file.
LEMMA OneConnected ==
  ASSUME AtMostOnceInv, NEW s \in Servers, NEW t \in Servers, conn[s], conn[t]
  PROVE  s = t
<1>1. FreshMemory /\ OneAlive
  BY DEF AtMostOnceInv
<1>2. Alive(s)
  BY <1>1 DEF FreshMemory, Alive
<1>3. Alive(t)
  BY <1>1 DEF FreshMemory, Alive
<1>4. QED
  BY <1>1, <1>2, <1>3 DEF OneAlive, Alive

\* A lookup settles at most the row asked for, and only a dead owner's.
LEMMA LookupKeepsInv ==
  ASSUME TypeOK, AtMostOnceInv, NEW s \in Servers, NEW id \in Ids,
         up[s] = "up", rows' = RowsAfterLookup(s, id),
         UNCHANGED <<up, conn, mem, calls, applied, lapsed>>
  PROVE  AtMostOnceInv'
<1> DEFINE settled == rows[id] \in Record /\ rows[id].state = "running" /\ ~Alive(rows[id].owner)
                      /\ conn[s] /\ mem[s][id] = None
<1>1. rows[id] \in Record \cup {None} /\ None \notin Record
  BY NoneAssumption DEF TypeOK
<1>2. rows' = IF settled THEN [rows EXCEPT ![id] = Reconciled(rows[id])] ELSE rows
  <2>1. Alive(s)
    BY DEF Alive
  <2>2. CASE mem[s][id] = None /\ conn[s] /\ rows[id] # None
             /\ rows[id].state = "running" /\ ~Alive(rows[id].owner)
    <3>1. rows[id] \in Record /\ rows[id].owner # s
      BY <1>1, <2>1, <2>2
    <3>2. Seen(s, id) = Reconciled(rows[id])
      BY <2>2, <3>1 DEF Seen
    <3>3. QED
      BY <2>2, <3>1, <3>2 DEF RowsAfterLookup
  <2>3. CASE ~(mem[s][id] = None /\ conn[s] /\ rows[id] # None
               /\ rows[id].state = "running" /\ ~Alive(rows[id].owner))
    <3>1. CASE mem[s][id] = None /\ conn[s]
      <4>1. Seen(s, id) = rows[id]
        BY <2>3, <3>1 DEF Seen
      <4>2. RowsAfterLookup(s, id) = rows
        BY <3>1, <4>1 DEF RowsAfterLookup, TypeOK
      <4>3. QED
        BY <1>1, <2>3, <3>1, <4>2
    <3>2. CASE ~(mem[s][id] = None /\ conn[s])
      BY <2>3, <3>2 DEF RowsAfterLookup
    <3>3. QED
      BY <3>1, <3>2
  <2>4. QED
    BY <2>2, <2>3
<1>3. CASE ~settled
  BY <1>2, <1>3 DEF AtMostOnceInv, OneAlive, FreshMemory, CallsAreUp, MemoryAgrees, CallHasRow,
     OneCall, AppliedBlocks, WaitsUntouched, MayRepeat, Alive, Settled
<1>4. CASE settled
  <2>1. /\ \A i \in Ids : i # id => rows'[i] = rows[i]
        /\ rows'[id] = Reconciled(rows[id])
    BY <1>2, <1>4 DEF TypeOK
  <2>2. /\ Reconciled(rows[id]) \in Record
        /\ Reconciled(rows[id]).att = rows[id].att /\ Reconciled(rows[id]).req = rows[id].req
        /\ rows[id].req \notin ReadOnly => Reconciled(rows[id]).state = "unknown_commit"
    BY <1>4, ReconciledFacts
  <2>3. (OneAlive /\ FreshMemory /\ CallsAreUp /\ OneCall)'
    BY DEF AtMostOnceInv, OneAlive, FreshMemory, CallsAreUp, OneCall, Alive
  <2>4. \A c \in calls : c.id # id \/ c.id \in lapsed
    BY <1>4 DEF AtMostOnceInv, CallsAreUp, CallHasRow, Alive
  <2>5. CallHasRow'
    BY <2>1, <2>4 DEF AtMostOnceInv, CallHasRow, TypeOK, Call
  <2>6. MemoryAgrees'
    <3> SUFFICES ASSUME NEW t \in Servers, NEW i \in Ids \ lapsed, conn[t], mem[t][i] # None
                 PROVE  mem[t][i] = rows'[i]
      BY DEF MemoryAgrees
    <3>1. t = s
      BY <1>4, OneConnected
    <3>2. i # id
      BY <1>4, <3>1
    <3>3. QED
      BY <2>1, <3>2 DEF AtMostOnceInv, MemoryAgrees
  <2>7. \A i \in Ids : MayRepeat(i)' <=> MayRepeat(i)
    BY <1>1, <1>4, <2>1, <2>2 DEF MayRepeat
  <2>8. AppliedBlocks'
    BY <1>1, <1>4, <2>1, <2>2, <2>7 DEF AtMostOnceInv, AppliedBlocks, Settled
  <2>9. WaitsUntouched'
    BY <2>7 DEF AtMostOnceInv, WaitsUntouched, TypeOK, Call
  <2>10. QED
    BY <2>3, <2>5, <2>6, <2>8, <2>9 DEF AtMostOnceInv
<1>5. QED
  BY <1>3, <1>4

\* A run that begins: its row is written where no other run, call or effect is.
LEMMA RunKeepsInv ==
  ASSUME TypeOK, TypeOK', AtMostOnceInv, NEW s \in Servers, NEW id \in Ids, NEW req \in Reqs,
         BeginRuns(s, id, req)
  PROVE  AtMostOnceInv'
<1> DEFINE att == attempts[id] + 1
           rec == [state |-> "running", req |-> req, att |-> att, owner |-> s, has |-> FALSE]
           call == [at |-> s, id |-> id, att |-> att, req |-> req,
                      stage |-> "waits", open |-> TRUE]
<1>1. /\ up[s] = "up" /\ Remember(s, id, rec)
      /\ calls' = calls \cup {call}
      /\ UNCHANGED <<up, conn, sweep, applied>>
  BY DEF BeginRuns
<1>2. (OneAlive /\ FreshMemory /\ CallsAreUp)'
  <2>1. \A t \in Servers, i \in Ids : mem'[t][i] = mem[t][i] \/ mem'[t][i] = None \/ t = s
    BY <1>1, RememberKeeps
  <2>2. QED
    BY <1>1, <2>1 DEF AtMostOnceInv, OneAlive, FreshMemory, CallsAreUp, Alive
<1>3. CASE ~conn[s]
  <2>1. rows' = rows /\ lapsed' = lapsed \cup {id}
    BY <1>3 DEF BeginRuns
  <2>2. MemoryAgrees'
    BY <1>1, <1>3, <2>1, RememberKeeps DEF AtMostOnceInv, MemoryAgrees
  <2>3. /\ call.id = id
        /\ \A i : MayRepeat(i)' <=> MayRepeat(i)
    BY <2>1 DEF MayRepeat
  <2> HIDE DEF call
  <2>5. CallHasRow' /\ OneCall' /\ WaitsUntouched'
    BY <1>1, <2>1, <2>3 DEF AtMostOnceInv, CallHasRow, OneCall, WaitsUntouched
  <2>6. AppliedBlocks'
    BY <1>1, <2>1, <2>3 DEF AtMostOnceInv, AppliedBlocks, Settled
  <2>4. QED
    BY <1>2, <2>2, <2>5, <2>6 DEF AtMostOnceInv
<1>4. CASE conn[s]
  <2>1. rows' = [rows EXCEPT ![id] = rec] /\ lapsed' = lapsed
    BY <1>4 DEF BeginRuns
  <2>2. rec \in Record /\ rec # None
    <3>1. att \in Attempts
      BY JournalAssumption DEF BeginRuns, TypeOK, Attempts
    <3>2. rec \in Record
      BY <3>1 DEF Record, States
    <3>3. QED
      BY <3>2, NoneAssumption
  <2>3. /\ rows'[id] = rec
        /\ \A i \in Ids : i # id => rows'[i] = rows[i]
    BY <2>1 DEF TypeOK
  <2>4. id \notin lapsed => \A c \in calls : c.id # id
    BY <1>4, BeginIsFree DEF BeginRuns
  <2>a. id \notin lapsed => applied[id] = {} \/ (MayRepeat(id) /\ req = rows[id].req)
    BY <1>4, BeginIsFree DEF BeginRuns
  <2>b. \A i \in Ids : i # id => (MayRepeat(i)' <=> MayRepeat(i))
    BY <2>3 DEF MayRepeat
  <2>c. (id \notin lapsed /\ ~MayRepeat(id)') => applied[id] = {}
    BY <2>2, <2>3, <2>a DEF MayRepeat
  <2>5. MemoryAgrees'
    <3> SUFFICES ASSUME NEW t \in Servers, NEW i \in Ids \ lapsed, conn[t], mem'[t][i] # None
                 PROVE  mem'[t][i] = rows'[i]
      BY <1>1, <2>1 DEF MemoryAgrees
    <3>1. t = s
      BY <1>4, OneConnected
    <3>2. mem'[t][i] = mem[t][i] \/ (i = id /\ mem'[t][i] = rec)
      BY <1>1, RememberKeeps
    <3>3. CASE i = id /\ mem'[t][i] = rec
      BY <2>3, <3>3
    <3>4. CASE i # id /\ mem'[t][i] = mem[t][i]
      BY <2>3, <3>4 DEF AtMostOnceInv, MemoryAgrees
    <3>5. CASE i = id /\ mem'[t][i] = mem[t][i]
      <4>1. mem'[s][id] \in {None, rec}
        BY <1>1, <2>2, JournalAssumption DEF Remember, TypeOK
      <4>2. QED
        BY <2>3, <3>1, <3>5, <4>1
    <3>6. QED
      BY <3>2, <3>3, <3>4, <3>5
  <2>6. CallHasRow'
    <3> HIDE DEF att
    <3>1. call.id = id /\ call.at = s /\ call.att = att /\ call.req = req
      OBVIOUS
    <3>2. rec.att = att /\ rec.req = req /\ rec.owner = s /\ rec.state = "running"
      OBVIOUS
    <3> HIDE DEF call, rec
    <3> SUFFICES ASSUME NEW c \in calls', c.id \notin lapsed
                 PROVE  /\ rows'[c.id] # None
                        /\ rows'[c.id].att = c.att /\ rows'[c.id].req = c.req
                        /\ rows'[c.id].owner = c.at
                        /\ rows'[c.id].state \in {"running", "unknown_commit"}
                        /\ c.open => rows'[c.id].state = "running"
      BY <2>1 DEF CallHasRow
    <3>3. CASE c = call
      BY <2>2, <2>3, <3>1, <3>2, <3>3
    <3>4. CASE c \in calls /\ c # call
      <4>1. c.id \in Ids
        BY <3>4 DEF TypeOK, Call
      <4>2. c.id # id
        BY <2>4, <3>4
      <4>3. rows'[c.id] = rows[c.id]
        BY <2>3, <4>1, <4>2
      <4>4. QED
        BY <3>4, <4>3 DEF AtMostOnceInv, CallHasRow
    <3>5. QED
      BY <1>1, <3>3, <3>4
  <2>7. OneCall'
    <3>1. call.id = id
      OBVIOUS
    <3> HIDE DEF call
    <3>2. QED
      BY <1>1, <2>1, <2>4, <3>1 DEF AtMostOnceInv, OneCall
  <2>8. AppliedBlocks'
    <3> SUFFICES ASSUME NEW i \in Ids \ lapsed, NEW a \in applied[i]
                 PROVE  /\ rows'[i] # None /\ rows'[i].req \notin ReadOnly
                        /\ ~MayRepeat(i)' => /\ rows'[i].att = a
                                             /\ rows'[i].state = "running" \/ Settled(rows'[i])
      BY <1>1, <2>1 DEF AppliedBlocks, Settled
    <3>1. CASE i # id
      BY <2>b, <2>3, <3>1 DEF AtMostOnceInv, AppliedBlocks
    <3>2. CASE i = id
      <4>1. rows[id].req \notin ReadOnly
        BY <3>2 DEF AtMostOnceInv, AppliedBlocks
      <4>2. MayRepeat(id)' /\ req = rows[id].req
        BY <2>a, <2>c, <3>2
      <4>3. rows'[id] # None /\ rows'[id].req = req
        BY <2>2, <2>3
      <4>4. QED
        BY <3>2, <4>1, <4>2, <4>3
    <3>3. QED
      BY <3>1, <3>2
  <2>9. WaitsUntouched'
    <3>1. call.id = id
      OBVIOUS
    <3> HIDE DEF call, rec
    <3> SUFFICES ASSUME NEW c \in calls', c.stage = "waits", c.id \notin lapsed, ~MayRepeat(c.id)'
                 PROVE  applied[c.id] = {}
      BY <1>1, <2>1 DEF WaitsUntouched
    <3>2. CASE c = call
      BY <2>c, <3>1, <3>2
    <3>3. CASE c \in calls
      <4>1. c.id \in Ids
        BY <3>3 DEF TypeOK, Call
      <4>2. QED
        BY <2>4, <2>b, <3>3, <4>1 DEF AtMostOnceInv, WaitsUntouched
    <3>4. QED
      BY <1>1, <3>2, <3>3
  <2>10. QED
    BY <1>2, <2>5, <2>6, <2>7, <2>8, <2>9 DEF AtMostOnceInv
<1>5. QED
  BY <1>3, <1>4

\* A call that ends: its row and its record get the same final state, and one
\* that says "may run again" only where nothing took effect.
LEMMA FinishKeepsInv ==
  ASSUME TypeOK, AtMostOnceInv, NEW c \in calls, NEW state \in States, NEW has \in BOOLEAN,
         Finish(c, state, has)
  PROVE  AtMostOnceInv'
<1> DEFINE left == [c EXCEPT !.open = FALSE]
           new == Ended(rows[c.id], c, state, has)
<1>1. c \in Call /\ c.at \in Servers /\ c.id \in Ids /\ c.att \in Attempts
  BY DEF TypeOK, Call
<1>2. left.at = c.at /\ left.id = c.id /\ left.att = c.att /\ left.req = c.req
      /\ left.stage = c.stage /\ left.open = FALSE
  BY <1>1, LeftType
<1>3. calls' = (calls \ {c}) \cup (IF state = "unknown_commit" THEN {left} ELSE {})
  BY DEF Finish
<1> HIDE DEF left
<1>4. /\ c.open /\ up[c.at] = "up"
      /\ UNCHANGED <<up, conn, applied, lapsed>>
  BY DEF Finish, AtMostOnceInv, CallsAreUp
<1>5. \A t \in Servers, i \in Ids : mem'[t][i] = mem[t][i] \/ (t = c.at /\ i = c.id)
  BY <1>1 DEF Finish, TypeOK
<1>6. (OneAlive /\ FreshMemory /\ CallsAreUp)'
  <2>1. FreshMemory'
    BY <1>4, <1>5 DEF AtMostOnceInv, FreshMemory, Alive
  <2>2. CallsAreUp'
    BY <1>2, <1>3, <1>4 DEF AtMostOnceInv, CallsAreUp
  <2>3. QED
    BY <1>4, <2>1, <2>2 DEF AtMostOnceInv, OneAlive, Alive
<1>7. OneCall'
  <2>1. \A d \in calls \ {c} : c.id \notin lapsed => d.id # c.id
    BY DEF AtMostOnceInv, OneCall
  <2>2. QED
    BY <1>2, <1>3, <1>4, <2>1 DEF AtMostOnceInv, OneCall
<1>8. c.id \notin lapsed =>
        /\ rows[c.id] \in Record
        /\ rows[c.id].att = c.att /\ rows[c.id].req = c.req /\ rows[c.id].owner = c.at
        /\ rows[c.id].state = "running"
        /\ conn[c.at] /\ mem[c.at][c.id] # None => mem[c.at][c.id] = rows[c.id]
  BY <1>1, <1>4 DEF AtMostOnceInv, CallHasRow, MemoryAgrees, TypeOK
<1>9. rows[c.id] \in Record =>
        /\ new \in Record /\ new.state = state /\ new.has = has
        /\ new.att = c.att /\ new.req = rows[c.id].req /\ new.owner = rows[c.id].owner
  BY <1>1, EndedType
<1> HIDE DEF new
<1>10. /\ \A i \in Ids : i # c.id => rows'[i] = rows[i]
       /\ c.id \notin lapsed => rows'[c.id] = IF conn[c.at] THEN new ELSE rows[c.id]
  <2>1. \A i \in Ids : i # c.id => rows'[i] = rows[i]
    BY <1>1 DEF Finish, TypeOK
  <2>2. ASSUME c.id \notin lapsed PROVE rows'[c.id] = IF conn[c.at] THEN new ELSE rows[c.id]
    <3>1. rows[c.id] # None /\ rows[c.id].owner = c.at
      BY <1>8, <2>2, NoneAssumption
    <3>2. QED
      BY <1>1, <3>1 DEF Finish, TypeOK, new
  <2>3. QED
    BY <2>1, <2>2
<1>15. \A i \in Ids : i \notin lapsed => (MayRepeat(i)' <=> MayRepeat(i))
  BY <1>8, <1>9, <1>10, NoneAssumption DEF MayRepeat
<1>11. MemoryAgrees'
  <2> SUFFICES ASSUME NEW t \in Servers, NEW i \in Ids \ lapsed, conn[t], mem'[t][i] # None
               PROVE  mem'[t][i] = rows'[i]
    BY <1>4 DEF MemoryAgrees
  <2>1. CASE i # c.id
    BY <1>5, <1>10, <2>1 DEF AtMostOnceInv, MemoryAgrees
  <2>2. CASE i = c.id
    <3>1. Alive(c.at)
      BY <1>4 DEF Alive
    <3>2. t = c.at
      BY <1>1, <3>1 DEF AtMostOnceInv, FreshMemory, OneAlive
    <3>3. mem[c.at][c.id] # None
      BY <1>1, <2>2, <3>2 DEF Finish
    <3>4. mem[c.at][c.id] = rows[c.id] /\ rows[c.id].att = c.att
      BY <1>8, <2>2, <3>2, <3>3
    <3>5. mem'[c.at][c.id] = new
      BY <1>1, <3>3, <3>4 DEF Finish, TypeOK, new
    <3>6. QED
      BY <1>10, <2>2, <3>2, <3>5
  <2>3. QED
    BY <2>1, <2>2
<1>12. CallHasRow'
  <2> SUFFICES ASSUME NEW d \in calls', d.id \notin lapsed
               PROVE  /\ rows'[d.id] # None
                      /\ rows'[d.id].att = d.att /\ rows'[d.id].req = d.req
                      /\ rows'[d.id].owner = d.at
                      /\ rows'[d.id].state \in {"running", "unknown_commit"}
                      /\ d.open => rows'[d.id].state = "running"
    BY <1>4 DEF CallHasRow
  <2>1. CASE d \in calls /\ d # c
    <3>1. d.id # c.id /\ d.id \in Ids
      BY <2>1 DEF AtMostOnceInv, OneCall, TypeOK, Call
    <3>2. rows'[d.id] = rows[d.id]
      BY <1>10, <3>1
    <3>3. QED
      BY <2>1, <3>2 DEF AtMostOnceInv, CallHasRow
  <2>2. CASE d = left /\ state = "unknown_commit"
    BY <1>2, <1>8, <1>9, <1>10, <2>2, NoneAssumption
  <2>3. QED
    BY <1>3, <2>1, <2>2
<1>13. AppliedBlocks'
  <2> SUFFICES ASSUME NEW i \in Ids \ lapsed, NEW a \in applied[i]
               PROVE  /\ rows'[i] # None /\ rows'[i].req \notin ReadOnly
                      /\ ~MayRepeat(i)' => /\ rows'[i].att = a
                                           /\ rows'[i].state = "running" \/ Settled(rows'[i])
    BY <1>4 DEF AppliedBlocks, Settled
  <2>1. /\ rows[i] # None /\ rows[i].req \notin ReadOnly
        /\ ~MayRepeat(i) => /\ rows[i].att = a
                            /\ rows[i].state = "running" \/ Settled(rows[i])
    BY DEF AtMostOnceInv, AppliedBlocks
  <2>2. CASE rows'[i] = rows[i]
    BY <1>15, <2>1, <2>2
  <2>3. CASE i = c.id /\ rows'[i] = new
    <3>1. new # None /\ new.req = rows[i].req
      BY <1>8, <1>9, <2>3, NoneAssumption
    <3>2. CASE MayRepeat(i)'
      BY <2>1, <2>3, <3>1, <3>2
    <3>3. CASE ~MayRepeat(i)'
      <4>1. ~MayRepeat(i) /\ c.req \notin ReadOnly /\ (Retryable => c.req \notin Compound)
        BY <1>8, <1>15, <2>1, <2>3, <3>3 DEF MayRepeat
      <4>2. c.stage # "waits"
        BY <1>1, <2>3, <4>1 DEF AtMostOnceInv, WaitsUntouched
      <4>3. state = "unknown_commit" \/ (state \in Replayable /\ has)
        BY <1>1, <4>1, <4>2 DEF Finish, Outcome, Interrupted, Awaits, KeepsAnswer, Replayable,
           Call, Stages
      <4>4. Settled(new) /\ new.att = rows[i].att
        BY <1>8, <1>9, <2>3, <4>3, NoneAssumption DEF Settled
      <4>5. QED
        BY <2>1, <2>3, <3>1, <4>1, <4>4
    <3>4. QED
      BY <3>2, <3>3
  <2>4. QED
    BY <1>10, <2>2, <2>3
<1>16. WaitsUntouched'
  <2> SUFFICES ASSUME NEW d \in calls', d.stage = "waits", d.id \notin lapsed, ~MayRepeat(d.id)'
               PROVE  applied[d.id] = {}
    BY <1>4 DEF WaitsUntouched
  <2>1. d.id \in Ids /\ ~MayRepeat(d.id)
    BY <1>1, <1>2, <1>3, <1>15 DEF TypeOK, Call
  <2>2. \E e \in calls : e.id = d.id /\ e.stage = "waits"
    BY <1>2, <1>3
  <2>3. QED
    BY <2>1, <2>2 DEF AtMostOnceInv, WaitsUntouched
<1>14. QED
  BY <1>6, <1>7, <1>11, <1>12, <1>13, <1>16 DEF AtMostOnceInv

\* Between the processes of the folder: with nobody else alive, a server that
\* opens the file finds no call under way and no memory of any id.
LEMMA OpeningIsAlone ==
  ASSUME TypeOK, AtMostOnceInv, NEW s \in Servers, up[s] = "opening"
  PROVE  /\ calls = {}
         /\ \A t \in Servers, id \in Ids : ~(conn[t] /\ mem[t][id] # None)
         /\ \A t \in Servers : up[t] # "up"
<1>1. \A t \in Servers : Alive(t) => t = s
  BY DEF AtMostOnceInv, OneAlive, Alive
<1>2. \A t \in Servers : up[t] # "up"
  BY <1>1 DEF Alive
<1>3. calls = {}
  BY <1>2 DEF AtMostOnceInv, CallsAreUp, TypeOK, Call
<1>4. \A t \in Servers, id \in Ids : mem[t][id] = None
  BY <1>2 DEF AtMostOnceInv, FreshMemory
<1>5. QED
  BY <1>2, <1>3, <1>4

LEMMA NextInv ==
  ASSUME ~Shared, TypeOK, TypeOK', AtMostOnceInv, [Next]_vars
  PROVE  AtMostOnceInv'
<1>1. ASSUME NEW s \in Servers, Open(s) PROVE AtMostOnceInv'
  <2>1. /\ \A t \in Servers : ~Alive(t)
        /\ UNCHANGED <<rows, mem, calls, applied, lapsed>>
        /\ up[s] = "down"
        /\ up' = [up EXCEPT ![s] = "opening"] \/ up' = [up EXCEPT ![s] = "up"]
        /\ conn' = conn \/ (conn' = [conn EXCEPT ![s] = TRUE])
    BY <1>1 DEF Open
  <2>2. \A t \in Servers : Alive(t)' => t = s
    BY <2>1 DEF Alive, TypeOK
  <2>3. Alive(s)'
    BY <2>1 DEF Alive, TypeOK
  <2>4. \A t \in Servers : ~conn[t] /\ \A id \in Ids : mem[t][id] = None
    BY <2>1 DEF AtMostOnceInv, FreshMemory, Alive
  <2>5. calls = {}
    BY <2>1 DEF AtMostOnceInv, CallsAreUp, Alive, TypeOK, Call
  <2>6. \A t \in Servers : conn'[t] => t = s
    BY <2>1, <2>4 DEF TypeOK
  <2>7. (OneAlive /\ FreshMemory)'
    BY <2>1, <2>2, <2>3, <2>4, <2>6 DEF OneAlive, FreshMemory
  <2>8. (CallsAreUp /\ MemoryAgrees /\ CallHasRow /\ OneCall /\ WaitsUntouched)'
    BY <2>1, <2>4, <2>5 DEF CallsAreUp, MemoryAgrees, CallHasRow, OneCall, WaitsUntouched
  <2>9. AppliedBlocks'
    BY <2>1 DEF AtMostOnceInv, AppliedBlocks, WaitsUntouched, MayRepeat, Settled
  <2>10. QED
    BY <2>7, <2>8, <2>9 DEF AtMostOnceInv
<1>2. ASSUME NEW s \in Servers, SweepPick(s) PROVE AtMostOnceInv'
  BY <1>2 DEF SweepPick, AtMostOnceInv, OneAlive, FreshMemory, CallsAreUp, MemoryAgrees,
     CallHasRow, OneCall, AppliedBlocks, WaitsUntouched, MayRepeat, Alive, Settled
<1>3. ASSUME NEW s \in Servers, SweepMark(s) PROVE AtMostOnceInv'
  <2>1. UNCHANGED <<up, conn, mem, calls, applied, lapsed>> /\ up[s] = "opening"
    BY <1>3 DEF SweepMark
  <2>2. /\ calls = {}
        /\ \A t \in Servers, id \in Ids : ~(conn[t] /\ mem[t][id] # None)
    BY <2>1, OpeningIsAlone
  <2>3. \A id \in Ids : rows'[id] = rows[id]
                        \/ /\ rows[id] \in Record /\ rows[id].state = "running"
                           /\ rows'[id] = Reconciled(rows[id])
    BY <1>3 DEF SweepMark, TypeOK
  <2>4. AppliedBlocks'
    <3> SUFFICES ASSUME NEW id \in Ids \ lapsed, NEW a \in applied[id]
                 PROVE  /\ rows'[id] # None /\ rows'[id].req \notin ReadOnly
                        /\ ~MayRepeat(id)' => /\ rows'[id].att = a
                                              /\ rows'[id].state = "running" \/ Settled(rows'[id])
      BY <2>1 DEF AppliedBlocks, Settled
    <3>1. /\ rows[id] # None /\ rows[id].req \notin ReadOnly
          /\ ~MayRepeat(id) => /\ rows[id].att = a
                               /\ rows[id].state = "running" \/ Settled(rows[id])
      BY DEF AtMostOnceInv, AppliedBlocks
    <3>2. /\ rows'[id] # None /\ rows'[id].req = rows[id].req /\ rows'[id].att = rows[id].att
          /\ rows'[id] # rows[id] => Settled(rows'[id])
      BY <2>3, <3>1, ReconciledFacts, NoneAssumption DEF Settled
    <3>3. MayRepeat(id)' <=> MayRepeat(id)
      BY <3>1, <3>2 DEF MayRepeat
    <3>4. QED
      BY <3>1, <3>2, <3>3
  <2>5. (OneAlive /\ FreshMemory)'
    BY <2>1 DEF AtMostOnceInv, OneAlive, FreshMemory, Alive
  <2>6. (CallsAreUp /\ MemoryAgrees /\ CallHasRow /\ OneCall /\ WaitsUntouched)'
    BY <2>1, <2>2 DEF CallsAreUp, MemoryAgrees, CallHasRow, OneCall, WaitsUntouched
  <2>7. QED
    BY <2>4, <2>5, <2>6 DEF AtMostOnceInv
<1>4. ASSUME NEW s \in Servers, OpenDone(s) PROVE AtMostOnceInv'
  <2>1. /\ up[s] = "opening" /\ up' = [up EXCEPT ![s] = "up"]
        /\ UNCHANGED <<conn, mem, calls, applied>>
    BY <1>4 DEF OpenDone
  <2>2. /\ calls = {}
        /\ \A t \in Servers, id \in Ids : ~(conn[t] /\ mem[t][id] # None)
    BY <2>1, OpeningIsAlone
  <2>3. \A id \in Ids \ lapsed' : id \notin lapsed /\ rows'[id] = rows[id]
    BY <1>4 DEF OpenDone
  <2>4. AppliedBlocks'
    BY <2>1, <2>3 DEF AtMostOnceInv, AppliedBlocks, WaitsUntouched, MayRepeat, Settled
  <2>5. (OneAlive /\ FreshMemory)'
    BY <2>1 DEF AtMostOnceInv, OneAlive, FreshMemory, Alive, TypeOK
  <2>6. (CallsAreUp /\ MemoryAgrees /\ CallHasRow /\ OneCall /\ WaitsUntouched)'
    BY <2>1, <2>2 DEF CallsAreUp, MemoryAgrees, CallHasRow, OneCall, WaitsUntouched
  <2>7. QED
    BY <2>4, <2>5, <2>6 DEF AtMostOnceInv
<1>5. ASSUME NEW s \in Servers, NEW id \in Ids, NEW req \in Reqs, BeginRefused(s, id, req)
      PROVE  AtMostOnceInv'
  BY <1>5, LookupKeepsInv DEF BeginRefused
<1>6. ASSUME NEW s \in Servers, NEW id \in Ids, NEW req \in Reqs, BeginReplayed(s, id, req)
      PROVE  AtMostOnceInv'
  BY <1>6 DEF BeginReplayed, AtMostOnceInv, OneAlive, FreshMemory, CallsAreUp, MemoryAgrees,
     CallHasRow, OneCall, AppliedBlocks, WaitsUntouched, MayRepeat, Alive, Settled
<1>7. ASSUME NEW s \in Servers, NEW id \in Ids, NEW req \in Reqs, BeginRuns(s, id, req)
      PROVE  AtMostOnceInv'
  BY <1>7, RunKeepsInv
<1>8. ASSUME NEW s \in Servers, BeginOther(s) PROVE AtMostOnceInv'
  <2>1. Remember(s, Other, None) /\ UNCHANGED <<up, conn, rows, calls, applied, lapsed>>
    BY <1>8 DEF BeginOther
  <2>2. \A t \in Servers, id \in Ids : mem'[t][id] = mem[t][id] \/ mem'[t][id] = None
    BY <2>1, RememberKeeps, JournalAssumption
  <2>3. QED
    BY <2>1, <2>2 DEF AtMostOnceInv, OneAlive, FreshMemory, CallsAreUp, MemoryAgrees, CallHasRow,
       OneCall, AppliedBlocks, WaitsUntouched, MayRepeat, Alive, Settled
<1>9. ASSUME NEW s \in Servers, Degrade(s) PROVE AtMostOnceInv'
  <2>1. /\ Alive(s) /\ up' = [up EXCEPT ![s] = "up"] /\ conn' = [conn EXCEPT ![s] = FALSE]
        /\ UNCHANGED <<rows, mem, calls, applied, lapsed>>
    BY <1>9 DEF Degrade
  <2>2. \A t \in Servers : Alive(t)' <=> Alive(t)
    BY <2>1 DEF Alive, TypeOK
  <2>3. \A t \in Servers : conn'[t] => conn[t] /\ (up'[t] # "up" => up[t] # "up")
    BY <2>1 DEF TypeOK
  <2>4. \A t \in Servers : up'[t] # "up" => up[t] # "up"
    BY <2>1 DEF TypeOK
  <2>5. (OneAlive /\ FreshMemory)'
    BY <2>1, <2>2, <2>3, <2>4 DEF AtMostOnceInv, OneAlive, FreshMemory
  <2>6. CallsAreUp'
    BY <2>1 DEF AtMostOnceInv, CallsAreUp, TypeOK
  <2>7. (MemoryAgrees /\ CallHasRow /\ OneCall /\ AppliedBlocks /\ WaitsUntouched)'
    BY <2>1, <2>3 DEF AtMostOnceInv, MemoryAgrees, CallHasRow, OneCall, AppliedBlocks,
       WaitsUntouched, MayRepeat, Settled
  <2>8. QED
    BY <2>5, <2>6, <2>7 DEF AtMostOnceInv
<1>10. ASSUME NEW s \in Servers, Die(s) PROVE AtMostOnceInv'
  <2>1. /\ up' = [up EXCEPT ![s] = "dead"] /\ conn' = [conn EXCEPT ![s] = FALSE]
        /\ mem' = [mem EXCEPT ![s] = [id \in Ids |-> None]]
        /\ calls' = {c \in calls : c.at # s}
        /\ UNCHANGED <<rows, applied, lapsed>>
    BY <1>10 DEF Die
  <2>2. \A t \in Servers : /\ Alive(t)' <=> Alive(t) /\ t # s
                           /\ conn'[t] <=> conn[t] /\ t # s
    BY <2>1 DEF Alive, TypeOK
  <2>3. \A t \in Servers, id \in Ids : mem'[t][id] = IF t = s THEN None ELSE mem[t][id]
    BY <2>1 DEF TypeOK
  <2>4. \A t \in Servers : t # s => up'[t] = up[t]
    BY <2>1 DEF TypeOK
  <2>5. (OneAlive /\ FreshMemory)'
    BY <2>1, <2>2, <2>3, <2>4 DEF AtMostOnceInv, OneAlive, FreshMemory
  <2>6. CallsAreUp'
    BY <2>1, <2>4 DEF AtMostOnceInv, CallsAreUp, TypeOK, Call
  <2>7. MemoryAgrees'
    BY <2>1, <2>2, <2>3 DEF AtMostOnceInv, MemoryAgrees
  <2>8. (CallHasRow /\ OneCall /\ AppliedBlocks /\ WaitsUntouched)'
    BY <2>1 DEF AtMostOnceInv, CallHasRow, OneCall, AppliedBlocks, WaitsUntouched, MayRepeat, Settled
  <2>9. QED
    BY <2>5, <2>6, <2>7, <2>8 DEF AtMostOnceInv
<1>11. ASSUME NEW c \in calls, Apply(c) PROVE AtMostOnceInv'
  <2>1. /\ UNCHANGED <<up, conn, rows, mem, calls, lapsed>>
        /\ applied' = [applied EXCEPT ![c.id] = @ \cup {c.att}]
        /\ c.req \notin ReadOnly
    BY <1>11 DEF Apply
  <2>2. (OneAlive /\ FreshMemory /\ CallsAreUp /\ MemoryAgrees /\ CallHasRow /\ OneCall)'
    BY <2>1 DEF AtMostOnceInv, OneAlive, FreshMemory, CallsAreUp, MemoryAgrees, CallHasRow,
       OneCall, Alive
  <2>5. WaitsUntouched'
    <3> SUFFICES ASSUME NEW d \in calls, d.stage = "waits", d.id \notin lapsed, ~MayRepeat(d.id)
                 PROVE  applied'[d.id] = {}
      BY <2>1 DEF WaitsUntouched, MayRepeat
    <3>1. d.id # c.id
      BY <1>11 DEF Apply, AtMostOnceInv, OneCall
    <3>2. d.id \in Ids
      BY DEF TypeOK, Call
    <3>3. QED
      BY <2>1, <3>1, <3>2 DEF AtMostOnceInv, WaitsUntouched, TypeOK
  <2>3. AppliedBlocks'
    BY <2>1 DEF AtMostOnceInv, AppliedBlocks, WaitsUntouched, MayRepeat, CallHasRow, Settled, TypeOK
  <2>4. QED
    BY <2>2, <2>3, <2>5 DEF AtMostOnceInv
<1>15. ASSUME NEW c \in calls, Work(c) \/ Return(c) PROVE AtMostOnceInv'
  <2>1. UNCHANGED <<up, conn, rows, mem, applied, lapsed>>
    BY <1>15, StageMoves
  <2>2. PICK d \in Call : /\ calls' = (calls \ {c}) \cup {d}
                          /\ d.at = c.at /\ d.id = c.id /\ d.att = c.att /\ d.req = c.req
                          /\ d.open = c.open /\ d.stage \in {"works", "made"}
    BY <1>15, StageMoves
  <2>3. (OneAlive /\ FreshMemory /\ MemoryAgrees /\ AppliedBlocks)'
    BY <2>1 DEF AtMostOnceInv, OneAlive, FreshMemory, MemoryAgrees, AppliedBlocks, MayRepeat,
       Alive, Settled
  <2>4. CallsAreUp' /\ WaitsUntouched'
    BY <2>1, <2>2 DEF AtMostOnceInv, CallsAreUp, WaitsUntouched, MayRepeat
  <2>5. CallHasRow'
    BY <2>1, <2>2 DEF AtMostOnceInv, CallHasRow
  <2>6. OneCall'
    BY <2>1, <2>2 DEF AtMostOnceInv, OneCall
  <2>7. QED
    BY <2>3, <2>4, <2>5, <2>6 DEF AtMostOnceInv
<1>12. ASSUME NEW c \in calls, NEW state \in States, NEW has \in BOOLEAN, Finish(c, state, has)
       PROVE  AtMostOnceInv'
  BY <1>12, FinishKeepsInv
<1>13. CASE UNCHANGED vars
  BY <1>13 DEF vars, AtMostOnceInv, OneAlive, FreshMemory, CallsAreUp, MemoryAgrees,
     CallHasRow, OneCall, AppliedBlocks, WaitsUntouched, MayRepeat, Alive, Settled
<1>14. QED
  BY <1>1, <1>2, <1>3, <1>4, <1>5, <1>6, <1>7, <1>8, <1>9, <1>10, <1>11, <1>12, <1>13, <1>15
     DEF Next, Begin, End

\* With one server at a time on the state folder, the invariant holds in every
\* state of the journal, through every kill, restart and failing statement.
THEOREM AtMostOnceInvariant ==
  ASSUME ~Shared
  PROVE  Spec => [](TypeOK /\ AtMostOnceInv)
<1>1. Init => TypeOK /\ AtMostOnceInv
  BY InitType, InitInv
<1>2. (TypeOK /\ AtMostOnceInv) /\ [Next]_vars => (TypeOK /\ AtMostOnceInv)'
  BY NextType, NextInv
<1>3. QED
  BY <1>1, <1>2, PTL DEF Spec

\* With one server at a time on the state folder, a request named by an id
\* takes effect at most once: what begin lets run has no effect behind it.
THEOREM AtMostOnceHolds ==
  ASSUME ~Shared
  PROVE  Spec => []AtMostOnce
<1>1. TypeOK /\ AtMostOnceInv => AtMostOnce
  BY DEF AtMostOnceInv, AppliedBlocks, WaitsUntouched, MayRepeat, AtMostOnce
<1>2. QED
  BY <1>1, AtMostOnceInvariant, PTL

\* No step but the retention's replaces a row that holds a final answer or is
\* to be reconciled: begin does not run its id again, and finish and the sweep
\* write only over running rows.
LEMMA SettledStep ==
  ASSUME ~Shared, TypeOK, AtMostOnceInv, [Next]_vars, NEW id \in Ids,
         Settled(rows[id]), id \notin lapsed'
  PROVE  rows'[id] = rows[id]
<1> USE NoneAssumption
<1>0. rows[id] \in Record /\ rows[id].state # "running"
  BY DEF Settled, Replayable, TypeOK
<1>1. ASSUME NEW s \in Servers, Open(s) \/ SweepPick(s) \/ BeginOther(s) \/ Degrade(s) \/ Die(s)
      PROVE  rows'[id] = rows[id]
  BY <1>1 DEF Open, SweepPick, BeginOther, Degrade, Die
<1>2. ASSUME NEW s \in Servers, SweepMark(s) PROVE rows'[id] = rows[id]
  BY <1>0, <1>2 DEF SweepMark
<1>3. ASSUME NEW s \in Servers, OpenDone(s) PROVE rows'[id] = rows[id]
  BY <1>3 DEF OpenDone
<1>4. ASSUME NEW s \in Servers, NEW i \in Ids, NEW req \in Reqs, BeginRefused(s, i, req)
      PROVE  rows'[id] = rows[id]
  <2>1. rows' = RowsAfterLookup(s, i)
    BY <1>4 DEF BeginRefused
  <2>2. i = id => Seen(s, i) = rows[id]
    BY <1>0 DEF Seen
  <2>3. QED
    BY <2>1, <2>2 DEF RowsAfterLookup, TypeOK
<1>5. ASSUME NEW s \in Servers, NEW i \in Ids, NEW req \in Reqs, BeginReplayed(s, i, req)
      PROVE  rows'[id] = rows[id]
  BY <1>5 DEF BeginReplayed
<1>6. ASSUME NEW s \in Servers, NEW i \in Ids, NEW req \in Reqs, BeginRuns(s, i, req)
      PROVE  rows'[id] = rows[id]
  <2>1. CASE ~conn[s]
    BY <1>6, <2>1 DEF BeginRuns
  <2>2. CASE conn[s]
    <3>1. up[s] = "up" /\ ~Refuses(Known(s, i), req) /\ ~Replays(Known(s, i), req) /\ lapsed' = lapsed
      BY <1>6, <2>2 DEF BeginRuns
    <3>2. i # id
      BY <2>2, <3>1, BeginIsFree
    <3>3. QED
      BY <1>6, <2>2, <3>2 DEF BeginRuns, TypeOK
  <2>3. QED
    BY <2>1, <2>2
<1>7. ASSUME NEW c \in calls, Work(c) \/ Return(c) \/ Apply(c) PROVE rows'[id] = rows[id]
  BY <1>7, StageMoves DEF Apply
<1>8. ASSUME NEW c \in calls, NEW state \in States, NEW has \in BOOLEAN, Finish(c, state, has)
      PROVE  rows'[id] = rows[id]
  <2>1. c.open /\ lapsed' = lapsed
    BY <1>8 DEF Finish
  <2>2. c.id # id
    BY <1>0, <2>1 DEF AtMostOnceInv, CallHasRow
  <2>3. QED
    BY <1>8, <2>2 DEF Finish, TypeOK
<1>9. CASE UNCHANGED vars
  BY <1>9 DEF vars
<1>10. QED
  BY <1>1, <1>2, <1>3, <1>4, <1>5, <1>6, <1>7, <1>8, <1>9 DEF Next, Begin, End

\* With one server at a time on the state folder, a recorded answer and an
\* unknown_commit stand until the retention deletes them.
THEOREM SettledStaysHolds ==
  ASSUME ~Shared
  PROVE  Spec => SettledStays
<1>1. TypeOK /\ AtMostOnceInv /\ [Next]_vars =>
        [\A id \in Ids : (Settled(rows[id]) /\ id \notin lapsed') => rows'[id] = rows[id]]_vars
  BY SettledStep
<1>2. QED
  BY <1>1, AtMostOnceInvariant, PTL DEF Spec, SettledStays

-------------------------------------------------------------------------------
(* The file *)

\* A lookup has nothing to settle: the sweep has settled every dead owner's row.
LEMMA LookupIsRow ==
  ASSUME TypeOK, NoOrphanRow, NEW s \in Servers, NEW id \in Ids, up[s] = "up"
  PROVE  /\ RowsAfterLookup(s, id) = rows
         /\ conn[s] => Seen(s, id) = rows[id]
<1>1. conn[s] => Seen(s, id) = rows[id]
  BY DEF NoOrphanRow, Seen
<1>2. QED
  BY <1>1 DEF RowsAfterLookup, TypeOK

\* So a connected server knows of an id what the file says.
LEMMA KnownIsFile ==
  ASSUME TypeOK, FileInv, NEW s \in Servers, NEW id \in Ids, up[s] = "up", conn[s]
  PROVE  Known(s, id) = rows[id]
<1>1. Seen(s, id) = rows[id]
  BY LookupIsRow DEF FileInv
<1>2. QED
  BY <1>1 DEF Known, FileInv, MemoryIsFile

\* The call that begin lets run finds no call of its id under way on the file.
LEMMA BeginIsAlone ==
  ASSUME TypeOK, AtMostOnceInv, FileInv, NEW s \in Servers, NEW id \in Ids, NEW req \in Reqs,
         up[s] = "up", conn[s], ~Refuses(Known(s, id), req)
  PROVE  \A c \in calls : c.open /\ conn[c.at] => c.id # id
<1> SUFFICES ASSUME NEW c \in calls, c.open, conn[c.at], c.id = id PROVE FALSE
  OBVIOUS
<1>1. rows[id] # None /\ rows[id].state = "running"
  BY DEF FileInv, OpenCallOnFile
<1>2. Known(s, id) = rows[id]
  BY KnownIsFile
<1>3. QED
  BY <1>1, <1>2 DEF Refuses

\* The record a run leaves in memory, if it is not pushed out at once.
LEMMA RememberIs ==
  ASSUME TypeOK, NEW s \in Servers, NEW id \in Ids, NEW rec, Remember(s, id, rec)
  PROVE  /\ mem'[s][id] \in {None, rec}
         /\ \A t \in Servers, i \in Ids : (t # s \/ i # id) => mem'[t][i] \in {None, mem[t][i]}
BY DEF Remember, TypeOK

\* With one process alive, a running call's process is the connected one, if any is.
LEMMA CallIsConnected ==
  ASSUME TypeOK, AtMostOnceInv, NEW c \in calls, NEW t \in Servers, conn[t]
  PROVE  c.at = t
<1>1. c.at \in Servers /\ up[c.at] = "up"
  BY DEF TypeOK, Call, AtMostOnceInv, CallsAreUp
<1>2. Alive(c.at) /\ Alive(t)
  BY <1>1 DEF Alive, AtMostOnceInv, FreshMemory
<1>3. QED
  BY <1>1, <1>2 DEF AtMostOnceInv, OneAlive

LEMMA RunKeepsFile ==
  ASSUME TypeOK, TypeOK', AtMostOnceInv, FileInv, NEW s \in Servers, NEW id \in Ids, NEW req \in Reqs,
         BeginRuns(s, id, req)
  PROVE  FileInv'
<1> DEFINE att == attempts[id] + 1
           rec == [state |-> "running", req |-> req, att |-> att, owner |-> s, has |-> FALSE]
           call == [at |-> s, id |-> id, att |-> att, req |-> req,
                      stage |-> "waits", open |-> TRUE]
<1>1. /\ up[s] = "up" /\ Remember(s, id, rec)
      /\ ~Refuses(Known(s, id), req)
      /\ rows' = IF conn[s] THEN [rows EXCEPT ![id] = rec] ELSE rows
      /\ calls' = calls \cup {call}
      /\ UNCHANGED <<up, conn, sweep, applied>>
  BY DEF BeginRuns
<1>2. rec.state = "running" /\ rec.req = req /\ rec.att = att /\ rec.owner = s
  OBVIOUS
<1>3. call.at = s /\ call.id = id /\ call.att = att /\ call.req = req
  OBVIOUS
<1>4. rec # None
  <2>1. att \in Attempts
    BY JournalAssumption DEF BeginRuns, TypeOK, Attempts
  <2>2. rec \in Record
    BY <2>1 DEF Record, States
  <2>3. QED
    BY <2>2, NoneAssumption
<1> HIDE DEF rec, call, att
<1>5. CASE ~conn[s]
  <2>1. \A t \in Servers : ~conn[t]
    <3> SUFFICES ASSUME NEW t \in Servers, conn[t] PROVE FALSE
      OBVIOUS
    <3>1. Alive(s) /\ Alive(t)
      BY <1>1 DEF Alive, AtMostOnceInv, FreshMemory
    <3>2. QED
      BY <1>5, <3>1 DEF AtMostOnceInv, OneAlive
  <2>2. MemoryIsFile' /\ NoOrphanRow'
    BY <1>1, <2>1 DEF MemoryIsFile, NoOrphanRow
  <2>3. OpenCallOnFile' /\ OneOpenCall'
    <3>1. \A c \in calls' : c.at \in Servers
      BY DEF TypeOK, Call
    <3>2. QED
      BY <1>1, <2>1, <3>1 DEF OpenCallOnFile, OneOpenCall
  <2>4. OwnersStarted' /\ SweepCovers' /\ NoFalseCommit'
    BY <1>1, <1>5 DEF FileInv, OwnersStarted, SweepCovers, NoFalseCommit
  <2>5. QED
    BY <2>2, <2>3, <2>4 DEF FileInv
<1>6. CASE conn[s]
  <2>1. rows' = [rows EXCEPT ![id] = rec]
    BY <1>1, <1>6
  <2>2. rows'[id] = rec /\ \A i \in Ids : i # id => rows'[i] = rows[i]
    BY <2>1 DEF TypeOK
  <2>3. MemoryIsFile'
    <3> SUFFICES ASSUME NEW t \in Servers, NEW i \in Ids, conn[t], mem'[t][i] # None
                 PROVE  mem'[t][i] = rows'[i]
      BY <1>1 DEF MemoryIsFile
    <3>1. t = s
      BY <1>6, OneConnected
    <3>2. CASE i = id
      BY <1>1, <2>2, <3>1, <3>2, RememberIs
    <3>3. CASE i # id
      <4>1. mem'[t][i] = mem[t][i]
        BY <1>1, <3>3, RememberIs
      <4>2. QED
        BY <2>2, <3>3, <4>1 DEF FileInv, MemoryIsFile
    <3>4. QED
      BY <3>2, <3>3
  <2>4. OpenCallOnFile'
    <3> SUFFICES ASSUME NEW c \in calls', c.open, conn[c.at]
                 PROVE  /\ rows'[c.id] # None /\ rows'[c.id].state = "running"
                        /\ rows'[c.id].att = c.att /\ rows'[c.id].req = c.req
                        /\ rows'[c.id].owner = c.at
      BY <1>1 DEF OpenCallOnFile
    <3>1. CASE c = call
      BY <1>2, <1>3, <1>4, <2>2, <3>1
    <3>2. CASE c \in calls
      <4>1. c.id # id
        BY <1>1, <1>6, <3>2, BeginIsAlone
      <4>2. c.id \in Ids
        BY <3>2 DEF TypeOK, Call
      <4>3. rows'[c.id] = rows[c.id]
        BY <2>2, <4>1, <4>2
      <4>4. QED
        BY <3>2, <4>3 DEF FileInv, OpenCallOnFile
    <3>3. QED
      BY <1>1, <3>1, <3>2
  <2>5. OwnersStarted'
    BY <1>1, <1>2, <2>2 DEF FileInv, OwnersStarted
  <2>6. SweepCovers'
    <3>1. \A t \in Servers : up[t] # "opening"
      BY <1>1 DEF Alive, AtMostOnceInv, OneAlive
    <3>2. QED
      BY <1>1, <3>1 DEF SweepCovers
  <2>7. NoOrphanRow'
    <3> SUFFICES ASSUME NEW t \in Servers, NEW i \in Ids, up[t] = "up", conn[t],
                        rows'[i] # None, rows'[i].state = "running"
                 PROVE  rows'[i].owner = t
      BY <1>1 DEF NoOrphanRow
    <3>1. t = s
      BY <1>6, OneConnected
    <3>2. QED
      BY <1>2, <2>2, <3>1 DEF FileInv, NoOrphanRow
  <2>8. NoFalseCommit'
    BY <1>1, <1>2, <2>2 DEF FileInv, NoFalseCommit
  <2>9. OneOpenCall'
    <3>1. \A c \in calls : c.open /\ conn[c.at] => c.id # id
      BY <1>1, <1>6, BeginIsAlone
    <3>2. QED
      BY <1>1, <1>3, <3>1 DEF FileInv, OneOpenCall
  <2>10. QED
    BY <2>3, <2>4, <2>5, <2>6, <2>7, <2>8, <2>9 DEF FileInv
<1>7. QED
  BY <1>5, <1>6

LEMMA FinishKeepsFile ==
  ASSUME TypeOK, AtMostOnceInv, FileInv, NEW c \in calls, NEW state \in States, NEW has \in BOOLEAN,
         Finish(c, state, has)
  PROVE  FileInv'
<1> DEFINE new == Ended(rows[c.id], c, state, has)
<1>1. c \in Call /\ c.at \in Servers /\ c.id \in Ids /\ up[c.at] = "up"
  BY DEF TypeOK, Call, AtMostOnceInv, CallsAreUp
<1>2. /\ c.open /\ Outcome(c, state)
      /\ calls' = (calls \ {c}) \cup
                  (IF state = "unknown_commit" THEN {[c EXCEPT !.open = FALSE]} ELSE {})
      /\ UNCHANGED <<up, conn, sweep, applied>>
  BY DEF Finish
<1>3. /\ \A i \in Ids : i # c.id => rows'[i] = rows[i]
      /\ rows'[c.id] = IF conn[c.at] /\ rows[c.id] # None /\ rows[c.id].owner = c.at
                         THEN new ELSE rows[c.id]
  BY <1>1 DEF Finish, TypeOK
<1>4. conn[c.at] =>
        /\ rows[c.id] \in Record /\ rows[c.id].state = "running"
        /\ rows[c.id].att = c.att /\ rows[c.id].req = c.req /\ rows[c.id].owner = c.at
  BY <1>1, <1>2 DEF FileInv, OpenCallOnFile, TypeOK
<1>5. rows[c.id] \in Record =>
        /\ new \in Record /\ new # None /\ new.state = state
        /\ new.att = c.att /\ new.req = rows[c.id].req /\ new.owner = rows[c.id].owner
  BY <1>1, EndedType, NoneAssumption
<1> HIDE DEF new
<1>6. MemoryIsFile'
  <2> SUFFICES ASSUME NEW t \in Servers, NEW i \in Ids, conn[t], mem'[t][i] # None
               PROVE  mem'[t][i] = rows'[i]
    BY <1>2 DEF MemoryIsFile
  <2>1. t = c.at
    BY CallIsConnected
  <2>2. CASE i # c.id
    <3>1. mem'[t][i] = mem[t][i]
      BY <1>1, <2>2 DEF Finish, TypeOK
    <3>2. QED
      BY <1>3, <2>2, <3>1 DEF FileInv, MemoryIsFile
  <2>3. CASE i = c.id
    <3>1. mem[c.at][c.id] # None
      BY <1>1, <2>1, <2>3 DEF Finish
    <3>2. mem[c.at][c.id] = rows[c.id] /\ rows[c.id].att = c.att
      BY <1>1, <1>4, <2>1, <3>1 DEF FileInv, MemoryIsFile
    <3>3. mem'[c.at][c.id] = new
      BY <1>1, <3>1, <3>2 DEF Finish, TypeOK, new
    <3>4. QED
      BY <1>3, <1>4, <2>1, <2>3, <3>3, NoneAssumption
  <2>4. QED
    BY <2>2, <2>3
<1>7. OpenCallOnFile'
  <2> SUFFICES ASSUME NEW d \in calls', d.open, conn[d.at]
               PROVE  /\ rows'[d.id] # None /\ rows'[d.id].state = "running"
                      /\ rows'[d.id].att = d.att /\ rows'[d.id].req = d.req
                      /\ rows'[d.id].owner = d.at
    BY <1>2 DEF OpenCallOnFile
  <2>1. d \in calls /\ d # c
    BY <1>1, <1>2, LeftType
  <2>2. d \in Call
    BY <2>1 DEF TypeOK
  <2>3. c.at = d.at
    BY <2>1, <2>2, CallIsConnected DEF Call
  <2>4. /\ rows[d.id] # None /\ rows[d.id].state = "running"
        /\ rows[d.id].att = d.att /\ rows[d.id].req = d.req /\ rows[d.id].owner = d.at
    BY <2>1 DEF FileInv, OpenCallOnFile
  <2>5. d.id # c.id
    <3> SUFFICES ASSUME d.id = c.id PROVE FALSE
      OBVIOUS
    <3>1. QED
      BY <1>2, <2>1, <2>3 DEF FileInv, OneOpenCall
  <2>6. d.id \in Ids
    BY <2>2 DEF Call
  <2>7. QED
    BY <1>3, <2>4, <2>5, <2>6
<1>8. \A i \in Ids : rows'[i] # None /\ rows'[i].state = "running" =>
        \/ rows'[i] = rows[i]
        \/ rows[i] # None /\ rows[i].state = "running" /\ rows'[i].owner = rows[i].owner
  BY <1>3, <1>4, <1>5, NoneAssumption
<1>9. SweepCovers' /\ NoOrphanRow'
  BY <1>2, <1>8 DEF FileInv, SweepCovers, NoOrphanRow
<1>10. OwnersStarted'
  <2>1. \A i \in Ids : rows'[i] # None => rows[i] # None /\ rows'[i].owner = rows[i].owner
    BY <1>3, <1>4, <1>5, NoneAssumption
  <2>2. QED
    BY <1>2, <2>1 DEF FileInv, OwnersStarted
<1>11. NoFalseCommit'
  <2> SUFFICES ASSUME NEW i \in Ids, rows'[i] # None, rows'[i].state = "committed",
                      rows'[i].req \notin ReadOnly
               PROVE  rows'[i].att \in applied[i]
    BY <1>2 DEF NoFalseCommit
  <2>1. CASE rows'[i] = rows[i]
    BY <2>1 DEF FileInv, NoFalseCommit
  <2>2. CASE i = c.id /\ rows'[i] = new /\ conn[c.at]
    <3>1. c.req \in ReadOnly \/ Landed(c)
      BY <1>2, <1>4, <1>5, <2>2 DEF Outcome, Interrupted
    <3>2. QED
      BY <1>4, <1>5, <2>2, <3>1 DEF Landed
  <2>3. QED
    BY <1>3, <2>1, <2>2
<1>12. OneOpenCall'
  <2>1. [c EXCEPT !.open = FALSE].open = FALSE
    BY <1>1, LeftType
  <2>2. QED
    BY <1>2, <2>1 DEF FileInv, OneOpenCall
<1>13. QED
  BY <1>6, <1>7, <1>9, <1>10, <1>11, <1>12 DEF FileInv

LEMMA InitFile == Init => FileInv
BY DEF Init, FileInv, MemoryIsFile, OpenCallOnFile, OneOpenCall, OwnersStarted, SweepCovers, NoOrphanRow,
   NoFalseCommit

\* Every step of the journal keeps the invariant of the file.
LEMMA NextFile ==
  ASSUME ~Shared, TypeOK, TypeOK', AtMostOnceInv, FileInv, [Next]_vars
  PROVE  FileInv'
<1>1. ASSUME NEW s \in Servers, Open(s) PROVE FileInv'
  <2>1. /\ \A t \in Servers : ~Alive(t)
        /\ UNCHANGED <<rows, mem, calls, applied>>
        /\ up[s] = "down"
        /\ up' = [up EXCEPT ![s] = "opening"] \/ up' = [up EXCEPT ![s] = "up"]
        /\ up' = [up EXCEPT ![s] = "up"] => conn' = conn
    BY <1>1 DEF Open, TypeOK
  <2>2. calls = {} /\ \A t \in Servers : ~conn[t] /\ \A id \in Ids : mem[t][id] = None
    BY <2>1 DEF AtMostOnceInv, FreshMemory, CallsAreUp, Alive, TypeOK, Call
  <2>3. MemoryIsFile' /\ OpenCallOnFile' /\ OneOpenCall'
    BY <2>1, <2>2 DEF MemoryIsFile, OpenCallOnFile, OneOpenCall
  <2>4. \A id \in Ids : rows[id] # None => rows[id].owner # s /\ rows[id].owner \in Servers
    BY <2>1 DEF FileInv, OwnersStarted, TypeOK, Record
  <2>5. OwnersStarted'
    BY <2>1, <2>4 DEF FileInv, OwnersStarted, TypeOK
  <2>6. \A t \in Servers : t # s => up'[t] = up[t] /\ up[t] \notin {"opening", "up"}
    BY <2>1 DEF TypeOK, Alive
  <2>7. SweepCovers'
    <3> SUFFICES ASSUME NEW t \in Servers, NEW id \in Ids, up'[t] = "opening",
                        rows[id] # None, rows[id].state = "running"
                 PROVE  rows[id].owner \in sweep'[t].owners
      BY <2>1 DEF SweepCovers
    <3>1. t = s
      BY <2>6
    <3>2. up' # [up EXCEPT ![s] = "up"]
      BY <3>1 DEF TypeOK
    <3>3. sweep' = [sweep EXCEPT ![s].owners =
                       {u \in Servers : \E i \in Ids :
                          rows[i] # None /\ rows[i].state = "running" /\ rows[i].owner = u}]
      BY <1>1, <3>2 DEF Open
    <3>4. sweep'[s].owners =
            {u \in Servers : \E i \in Ids :
               rows[i] # None /\ rows[i].state = "running" /\ rows[i].owner = u}
      BY <3>3 DEF TypeOK
    <3>5. QED
      BY <2>4, <3>1, <3>4
  <2>8. NoOrphanRow'
    <3> SUFFICES ASSUME NEW t \in Servers, up'[t] = "up", conn'[t] PROVE FALSE
      BY DEF NoOrphanRow
    <3>1. t = s
      BY <2>6
    <3>2. up' # [up EXCEPT ![s] = "opening"]
      BY <3>1 DEF TypeOK
    <3>3. QED
      BY <2>1, <2>2, <3>1, <3>2
  <2>9. NoFalseCommit'
    BY <2>1 DEF FileInv, NoFalseCommit
  <2>10. QED
    BY <2>3, <2>5, <2>7, <2>8, <2>9 DEF FileInv
<1>2. ASSUME NEW s \in Servers, SweepPick(s) PROVE FileInv'
  <2>1. /\ up[s] = "opening" /\ sweep[s].picked = {}
        /\ UNCHANGED <<up, conn, rows, mem, calls, applied>>
    BY <1>2 DEF SweepPick
  <2>2. PICK o \in sweep[s].owners :
          sweep' = [sweep EXCEPT ![s] =
            [owners |-> sweep[s].owners \ {o},
             picked |-> {id \in Ids : Dead(o) /\ rows[id] # None
                                      /\ rows[id].state = "running" /\ rows[id].owner = o}]]
    BY <1>2 DEF SweepPick
  <2>3. /\ sweep'[s].owners = sweep[s].owners \ {o}
        /\ sweep'[s].picked = {id \in Ids : Dead(o) /\ rows[id] # None
                                      /\ rows[id].state = "running" /\ rows[id].owner = o}
        /\ \A t \in Servers : t # s => sweep'[t] = sweep[t]
    BY <2>2 DEF TypeOK
  <2>4. SweepCovers'
    <3> SUFFICES ASSUME NEW t \in Servers, NEW id \in Ids, up[t] = "opening",
                        rows[id] # None, rows[id].state = "running"
                 PROVE  rows[id].owner \in sweep'[t].owners \/ id \in sweep'[t].picked
      BY <2>1 DEF SweepCovers
    <3>1. t = s
      BY <2>1 DEF AtMostOnceInv, OneAlive, Alive
    <3>2. rows[id].owner \in sweep[s].owners
      BY <2>1, <3>1 DEF FileInv, SweepCovers
    <3>3. CASE rows[id].owner = o
      <4>1. o \in Servers /\ up[o] \in {"up", "dead"}
        BY <3>3 DEF FileInv, OwnersStarted, TypeOK, Record
      <4>2. Dead(o)
        BY <2>1, <4>1 DEF Dead, Alive, AtMostOnceInv, OneAlive
      <4>3. QED
        BY <2>3, <3>1, <3>3, <4>2
    <3>4. QED
      BY <2>3, <3>1, <3>2, <3>3
  <2>5. QED
    BY <2>1, <2>4 DEF FileInv, MemoryIsFile, OpenCallOnFile, OneOpenCall, OwnersStarted, NoOrphanRow, NoFalseCommit
<1>3. ASSUME NEW s \in Servers, SweepMark(s) PROVE FileInv'
  <2>1. up[s] = "opening" /\ UNCHANGED <<up, conn, mem, calls, applied>>
    BY <1>3 DEF SweepMark
  <2>2. /\ calls = {}
        /\ \A t \in Servers, id \in Ids : ~(conn[t] /\ mem[t][id] # None)
        /\ \A t \in Servers : up[t] # "up"
    BY <2>1, OpeningIsAlone
  <2>3. \A id \in Ids :
          \/ /\ rows'[id] = rows[id]
             /\ id \in sweep[s].picked => rows[id] = None \/ rows[id].state # "running"
          \/ /\ rows[id] \in Record /\ rows[id].state = "running"
             /\ rows'[id] = Reconciled(rows[id])
    BY <1>3 DEF SweepMark, TypeOK
  <2>4. \A t \in Servers : sweep'[t].owners = sweep[t].owners
    BY <1>3 DEF SweepMark, TypeOK
  <2>5. MemoryIsFile' /\ OpenCallOnFile' /\ OneOpenCall' /\ NoOrphanRow'
    BY <2>1, <2>2 DEF MemoryIsFile, OpenCallOnFile, OneOpenCall, NoOrphanRow
  <2>6. OwnersStarted' /\ NoFalseCommit'
    BY <2>1, <2>3, ReconciledFacts, NoneAssumption DEF FileInv, OwnersStarted, NoFalseCommit
  <2>7. SweepCovers'
    <3> SUFFICES ASSUME NEW t \in Servers, NEW id \in Ids, up[t] = "opening",
                        rows'[id] # None, rows'[id].state = "running"
                 PROVE  rows'[id].owner \in sweep'[t].owners
      BY <2>1 DEF SweepCovers
    <3>1. t = s
      BY <2>1 DEF AtMostOnceInv, OneAlive, Alive
    <3>2. rows'[id] = rows[id] /\ id \notin sweep[s].picked
      BY <2>3, ReconciledFacts
    <3>3. QED
      BY <2>4, <3>1, <3>2 DEF FileInv, SweepCovers
  <2>8. QED
    BY <2>5, <2>6, <2>7 DEF FileInv
<1>4. ASSUME NEW s \in Servers, OpenDone(s) PROVE FileInv'
  <2>1. /\ up[s] = "opening" /\ up' = [up EXCEPT ![s] = "up"] /\ sweep[s] = NoSweep
        /\ UNCHANGED <<conn, sweep, mem, calls, applied>>
        /\ \A id \in Ids : rows'[id] \in {None, rows[id]}
    BY <1>4 DEF OpenDone
  <2>2. /\ calls = {}
        /\ \A t \in Servers, id \in Ids : ~(conn[t] /\ mem[t][id] # None)
        /\ \A t \in Servers : up[t] # "up"
    BY <2>1, OpeningIsAlone
  <2>3. \A id \in Ids : rows'[id] # None => rows'[id].state # "running"
    BY <2>1 DEF FileInv, SweepCovers, NoSweep
  <2>4. MemoryIsFile' /\ OpenCallOnFile' /\ OneOpenCall' /\ NoOrphanRow' /\ SweepCovers'
    BY <2>1, <2>2, <2>3 DEF MemoryIsFile, OpenCallOnFile, OneOpenCall, NoOrphanRow, SweepCovers
  <2>5. OwnersStarted' /\ NoFalseCommit'
    BY <2>1 DEF FileInv, OwnersStarted, NoFalseCommit, TypeOK
  <2>6. QED
    BY <2>4, <2>5 DEF FileInv
<1>5. ASSUME NEW s \in Servers, NEW id \in Ids, NEW req \in Reqs, BeginRefused(s, id, req)
      PROVE  FileInv'
  <2>1. /\ up[s] = "up" /\ rows' = RowsAfterLookup(s, id)
        /\ UNCHANGED <<up, conn, sweep, mem, calls, applied>>
    BY <1>5 DEF BeginRefused
  <2>2. rows' = rows
    BY <2>1, LookupIsRow DEF FileInv
  <2>3. QED
    BY <2>1, <2>2 DEF FileInv, MemoryIsFile, OpenCallOnFile, OneOpenCall, OwnersStarted, SweepCovers, NoOrphanRow,
       NoFalseCommit
<1>6. ASSUME NEW s \in Servers, NEW id \in Ids, NEW req \in Reqs, BeginReplayed(s, id, req)
      PROVE  FileInv'
  BY <1>6 DEF BeginReplayed, FileInv, MemoryIsFile, OpenCallOnFile, OneOpenCall, OwnersStarted, SweepCovers,
     NoOrphanRow, NoFalseCommit
<1>7. ASSUME NEW s \in Servers, NEW id \in Ids, NEW req \in Reqs, BeginRuns(s, id, req)
      PROVE  FileInv'
  BY <1>7, RunKeepsFile
<1>8. ASSUME NEW s \in Servers, BeginOther(s) PROVE FileInv'
  <2>1. Remember(s, Other, None) /\ UNCHANGED <<up, conn, sweep, rows, calls, applied>>
    BY <1>8 DEF BeginOther
  <2>2. \A t \in Servers, id \in Ids : mem'[t][id] = mem[t][id] \/ mem'[t][id] = None
    BY <2>1, RememberKeeps, JournalAssumption
  <2>3. QED
    BY <2>1, <2>2 DEF FileInv, MemoryIsFile, OpenCallOnFile, OneOpenCall, OwnersStarted, SweepCovers, NoOrphanRow,
       NoFalseCommit
<1>9. ASSUME NEW s \in Servers, Degrade(s) PROVE FileInv'
  <2>1. /\ up' = [up EXCEPT ![s] = "up"] /\ conn' = [conn EXCEPT ![s] = FALSE]
        /\ sweep' = [sweep EXCEPT ![s] = NoSweep]
        /\ UNCHANGED <<rows, mem, calls, applied>>
    BY <1>9 DEF Degrade
  <2>2. ~conn'[s] /\ up'[s] = "up"
        /\ \A t \in Servers : t # s => up'[t] = up[t] /\ conn'[t] = conn[t] /\ sweep'[t] = sweep[t]
    BY <2>1 DEF TypeOK
  <2>3. \A c \in calls : c.at \in Servers
    BY DEF TypeOK, Call
  <2>4. \A id \in Ids : rows[id] # None => rows[id].owner \in Servers
    BY DEF TypeOK, Record
  <2>5. QED
    BY <2>1, <2>2, <2>3, <2>4 DEF FileInv, MemoryIsFile, OpenCallOnFile, OneOpenCall, OwnersStarted, SweepCovers,
       NoOrphanRow, NoFalseCommit
<1>10. ASSUME NEW s \in Servers, Die(s) PROVE FileInv'
  <2>1. /\ up' = [up EXCEPT ![s] = "dead"] /\ conn' = [conn EXCEPT ![s] = FALSE]
        /\ sweep' = [sweep EXCEPT ![s] = NoSweep]
        /\ mem' = [mem EXCEPT ![s] = [id \in Ids |-> None]]
        /\ calls' = {c \in calls : c.at # s}
        /\ UNCHANGED <<rows, applied>>
    BY <1>10 DEF Die
  <2>2. ~conn'[s] /\ up'[s] = "dead"
        /\ \A t \in Servers : t # s => up'[t] = up[t] /\ conn'[t] = conn[t] /\ sweep'[t] = sweep[t]
                                      /\ mem'[t] = mem[t]
    BY <2>1 DEF TypeOK
  <2>3. \A c \in calls : c.at \in Servers
    BY DEF TypeOK, Call
  <2>4. \A id \in Ids : rows[id] # None => rows[id].owner \in Servers
    BY DEF TypeOK, Record
  <2>5. QED
    BY <2>1, <2>2, <2>3, <2>4 DEF FileInv, MemoryIsFile, OpenCallOnFile, OneOpenCall, OwnersStarted, SweepCovers,
       NoOrphanRow, NoFalseCommit
<1>11. ASSUME NEW c \in calls, Apply(c) PROVE FileInv'
  BY <1>11 DEF Apply, FileInv, MemoryIsFile, OpenCallOnFile, OneOpenCall, OwnersStarted, SweepCovers, NoOrphanRow,
     NoFalseCommit, TypeOK
<1>15. ASSUME NEW c \in calls, Work(c) \/ Return(c) PROVE FileInv'
  <2>1. UNCHANGED <<up, conn, sweep, rows, mem, applied>>
    BY <1>15, StageMoves
  <2>2. PICK d \in Call : /\ calls' = (calls \ {c}) \cup {d}
                          /\ d.at = c.at /\ d.id = c.id /\ d.att = c.att /\ d.req = c.req
                          /\ d.open = c.open
    BY <1>15, StageMoves
  <2>3. (MemoryIsFile /\ OwnersStarted /\ SweepCovers /\ NoOrphanRow /\ NoFalseCommit)'
    BY <2>1 DEF FileInv, MemoryIsFile, OwnersStarted, SweepCovers, NoOrphanRow, NoFalseCommit
  <2>4. OpenCallOnFile'
    BY <2>1, <2>2 DEF FileInv, OpenCallOnFile
  <2>5. OneOpenCall'
    BY <2>1, <2>2 DEF FileInv, OneOpenCall
  <2>6. QED
    BY <2>3, <2>4, <2>5 DEF FileInv
<1>12. ASSUME NEW c \in calls, NEW state \in States, NEW has \in BOOLEAN, Finish(c, state, has)
       PROVE  FileInv'
  BY <1>12, FinishKeepsFile
<1>13. CASE UNCHANGED vars
  BY <1>13 DEF vars, FileInv, MemoryIsFile, OpenCallOnFile, OneOpenCall, OwnersStarted, SweepCovers, NoOrphanRow,
     NoFalseCommit
<1>14. QED
  BY <1>1, <1>2, <1>3, <1>4, <1>5, <1>6, <1>7, <1>8, <1>9, <1>10, <1>11, <1>12, <1>13, <1>15
     DEF Next, Begin, End

\* With one server at a time on the state folder, what the file holds of its own
\* calls, of dead servers' and of writes that landed is so in every state.
THEOREM FileInvariant ==
  ASSUME ~Shared
  PROVE  Spec => [](TypeOK /\ AtMostOnceInv /\ FileInv)
<1>1. Init => TypeOK /\ AtMostOnceInv /\ FileInv
  BY InitType, InitInv, InitFile
<1>2. (TypeOK /\ AtMostOnceInv /\ FileInv) /\ [Next]_vars => (TypeOK /\ AtMostOnceInv /\ FileInv)'
  BY NextType, NextInv, NextFile
<1>3. QED
  BY <1>1, <1>2, PTL DEF Spec

\* With one server at a time on the state folder, no client is refused for a call
\* of a dead server: once a server is up, every running row is its own.
THEOREM NoOrphanRowHolds ==
  ASSUME ~Shared
  PROVE  Spec => []NoOrphanRow
<1>1. FileInv => NoOrphanRow
  BY DEF FileInv
<1>2. QED
  BY <1>1, FileInvariant, PTL

\* With one server at a time on the state folder, a row that says "committed" of a
\* write is of a run whose write landed.
THEOREM NoFalseCommitHolds ==
  ASSUME ~Shared
  PROVE  Spec => []NoFalseCommit
<1>1. FileInv => NoFalseCommit
  BY DEF FileInv
<1>2. QED
  BY <1>1, FileInvariant, PTL

-------------------------------------------------------------------------------
(* The answers *)

\* A process that stopped using the file never uses it again.
LEMMA ConnStays ==
  ASSUME TypeOK, [Next]_vars
  PROVE  \A t \in Servers : (up[t] # "down" /\ ~conn[t]) => ~conn'[t]
<1>1. ASSUME NEW s \in Servers, Open(s)
      PROVE  \A t \in Servers : (up[t] # "down" /\ ~conn[t]) => ~conn'[t]
  BY <1>1 DEF Open, TypeOK
<1>2. ASSUME NEW s \in Servers, SweepPick(s) \/ SweepMark(s) \/ OpenDone(s) \/ BeginOther(s)
      PROVE  conn' = conn
  BY <1>2 DEF SweepPick, SweepMark, OpenDone, BeginOther
<1>3. ASSUME NEW s \in Servers, Begin(s) PROVE conn' = conn
  BY <1>3 DEF Begin, BeginRefused, BeginReplayed, BeginRuns
<1>4. ASSUME NEW s \in Servers, Degrade(s) \/ Die(s) PROVE \A t \in Servers : conn'[t] => conn[t]
  BY <1>4 DEF Degrade, Die, TypeOK
<1>5. ASSUME NEW c \in calls, End(c) PROVE conn' = conn
  BY <1>5, StageMoves DEF End, Apply, Finish
<1>6. CASE UNCHANGED vars
  BY <1>6 DEF vars
<1>7. QED
  BY <1>1, <1>2, <1>3, <1>4, <1>5, <1>6 DEF Next

\* The last run of an id stays the last while its row stays, or is settled by a
\* sweep that finds a dead server's write.
LEMMA LastStays ==
  ASSUME TypeOK, OwnersStarted, [Next]_vars, NEW id \in Ids, NEW a, IsLast(id, a),
         \/ rows'[id] = rows[id]
         \/ rows[id].req \notin ReadOnly /\ rows'[id] = Reconciled(rows[id])
  PROVE  IsLast(id, a)'
<1>1. /\ rows[id] \in Record /\ rows[id].att = a
      /\ Settled(rows[id]) \/ (rows[id].state = "running" /\ ~conn[rows[id].owner])
  BY DEF IsLast, TypeOK
<1>2. CASE rows'[id] = rows[id]
  <2>1. rows[id].owner \in Servers /\ up[rows[id].owner] # "down"
    BY <1>1, NoneAssumption DEF OwnersStarted, Record
  <2>2. ~conn[rows[id].owner] => ~conn'[rows[id].owner]
    BY <2>1, ConnStays
  <2>3. QED
    BY <1>1, <1>2, <2>2, NoneAssumption DEF IsLast, Settled
<1>3. CASE rows[id].req \notin ReadOnly /\ rows'[id] = Reconciled(rows[id])
  BY <1>1, <1>3, ReconciledFacts, NoneAssumption DEF IsLast, Settled
<1>4. QED
  BY <1>2, <1>3

\* Only a server that is up remembers anything.
LEMMA MemoryIsUp ==
  ASSUME AtMostOnceInv, NEW s \in Servers, NEW id \in Ids, mem[s][id] # None
  PROVE  up[s] = "up" /\ \A t \in Servers : Alive(t) => t = s
<1>1. up[s] = "up"
  BY DEF AtMostOnceInv, FreshMemory
<1>2. QED
  BY <1>1 DEF AtMostOnceInv, OneAlive, Alive

\* A step that leaves rows, answers and lapsed ids alone, and adds nothing to a
\* memory, keeps the invariant.
LEMMA QuietKeepsAnswers ==
  ASSUME TypeOK, FileInv, AnswerInv, [Next]_vars, UNCHANGED <<rows, answered, lapsed>>,
         \A s \in Servers, id \in Ids : mem'[s][id] \in {None, mem[s][id]}
  PROVE  AnswerInv'
<1>1. \A id \in Ids : \A a : IsLast(id, a) => IsLast(id, a)'
  BY LastStays DEF FileInv
<1>2. AnswersLast'
  BY <1>1 DEF AnswerInv, AnswersLast
<1>3. MemoryOfRow'
  <2> SUFFICES ASSUME NEW s \in Servers, NEW id \in Ids \ lapsed, mem'[s][id] # None
               PROVE  /\ rows[id] # None
                      /\ rows[id].att = mem'[s][id].att /\ rows[id].req = mem'[s][id].req
                      /\ (mem'[s][id].state \in Replayable /\ mem'[s][id].has)
                            => IsLast(id, mem[s][id].att)'
    BY DEF MemoryOfRow
  <2>1. mem'[s][id] = mem[s][id]
    OBVIOUS
  <2>2. QED
    BY <1>1, <2>1 DEF AnswerInv, MemoryOfRow
<1>4. QED
  BY <1>2, <1>3 DEF AnswerInv

LEMMA ReplayKeepsAnswers ==
  ASSUME TypeOK, FileInv, AnswerInv, [Next]_vars,
         NEW s \in Servers, NEW id \in Ids, NEW req \in Reqs, BeginReplayed(s, id, req)
  PROVE  AnswerInv'
<1>1. /\ up[s] = "up" /\ Replays(Known(s, id), req)
      /\ answered' = [answered EXCEPT ![id] = @ \cup {Known(s, id).att}]
      /\ UNCHANGED <<conn, rows, mem, lapsed>>
  BY DEF BeginReplayed
<1>2. id \notin lapsed => rows[id] # None /\ IsLast(id, Known(s, id).att)
  <2> SUFFICES ASSUME id \notin lapsed PROVE rows[id] # None /\ IsLast(id, Known(s, id).att)
    OBVIOUS
  <2>1. Known(s, id) # None /\ Known(s, id).state \in Replayable /\ Known(s, id).has
    BY <1>1 DEF Replays
  <2>2. CASE mem[s][id] # None
    BY <2>1, <2>2 DEF Known, AnswerInv, MemoryOfRow
  <2>3. CASE mem[s][id] = None
    <3>1. conn[s]
      BY <2>1, <2>3 DEF Known
    <3>2. Known(s, id) = rows[id]
      BY <1>1, <3>1, KnownIsFile
    <3>3. QED
      BY <2>1, <3>2 DEF IsLast, Settled
  <2>4. QED
    BY <2>2, <2>3
<1>3. \A i \in Ids : \A a : IsLast(i, a)' <=> IsLast(i, a)
  BY <1>1 DEF IsLast, Settled
<1>4. AnswersLast'
  <2> SUFFICES ASSUME NEW i \in Ids \ lapsed
               PROVE  /\ rows[i] = None => answered'[i] = {}
                      /\ (rows[i] # None /\ rows[i].req \notin ReadOnly)
                            => \A a \in answered'[i] : IsLast(i, a)'
    BY <1>1 DEF AnswersLast
  <2>1. CASE i = id
    <3>1. answered'[i] = answered[i] \cup {Known(s, id).att}
      BY <1>1, <2>1 DEF TypeOK
    <3>2. QED
      BY <1>2, <1>3, <2>1, <3>1 DEF AnswerInv, AnswersLast
  <2>2. CASE i # id
    <3>1. answered'[i] = answered[i]
      BY <1>1, <2>2 DEF TypeOK
    <3>2. QED
      BY <1>3, <3>1 DEF AnswerInv, AnswersLast
  <2>3. QED
    BY <2>1, <2>2
<1>5. MemoryOfRow'
  BY <1>1, <1>3 DEF AnswerInv, MemoryOfRow
<1>6. QED
  BY <1>4, <1>5 DEF AnswerInv

LEMMA RunKeepsAnswers ==
  ASSUME TypeOK, TypeOK', AtMostOnceInv, FileInv, AnswerInv, [Next]_vars,
         NEW s \in Servers, NEW id \in Ids, NEW req \in Reqs, BeginRuns(s, id, req)
  PROVE  AnswerInv'
<1> DEFINE att == attempts[id] + 1
           rec == [state |-> "running", req |-> req, att |-> att, owner |-> s, has |-> FALSE]
<1>1. /\ up[s] = "up" /\ Remember(s, id, rec)
      /\ ~Refuses(Known(s, id), req) /\ ~Replays(Known(s, id), req)
      /\ rows' = IF conn[s] THEN [rows EXCEPT ![id] = rec] ELSE rows
      /\ lapsed' = IF conn[s] THEN lapsed ELSE lapsed \cup {id}
      /\ UNCHANGED <<up, conn, answered>>
  BY DEF BeginRuns
<1>2. rec.state = "running" /\ rec.req = req /\ rec.att = att
  OBVIOUS
<1>3. conn[s] => rec # None
  <2>1. att \in Attempts
    BY JournalAssumption DEF BeginRuns, TypeOK, Attempts
  <2>2. rec \in Record
    BY <2>1 DEF Record, States
  <2>3. QED
    BY <2>2, NoneAssumption
<1> HIDE DEF rec, att
<1>4. /\ mem'[s][id] \in {None, rec}
      /\ \A t \in Servers, i \in Ids : (t # s \/ i # id) => mem'[t][i] \in {None, mem[t][i]}
  BY <1>1, RememberIs
<1>5. \A i \in Ids : i # id => rows'[i] = rows[i]
  BY <1>1 DEF TypeOK
<1>6. \A i \in Ids : i # id => \A a : IsLast(i, a) => IsLast(i, a)'
  BY <1>5, LastStays DEF FileInv
<1>7. id \notin lapsed' => conn[s] /\ id \notin lapsed /\ rows'[id] = rec
  BY <1>1 DEF TypeOK
<1>8. (id \notin lapsed' /\ req \notin ReadOnly) => answered[id] = {}
  <2> SUFFICES ASSUME id \notin lapsed', req \notin ReadOnly, rows[id] # None
               PROVE  answered[id] = {}
    BY <1>7 DEF AnswerInv, AnswersLast
  <2>1. Known(s, id) = rows[id]
    BY <1>1, <1>7, KnownIsFile
  <2>2. rows[id].req = req /\ rows[id].state # "running" /\ ~Settled(rows[id])
    BY <1>1, <2>1 DEF Refuses, Replays, Settled
  <2>3. \A a : ~IsLast(id, a)
    BY <2>2 DEF IsLast
  <2>4. QED
    BY <1>7, <2>2, <2>3 DEF AnswerInv, AnswersLast
<1>9. AnswersLast'
  <2> SUFFICES ASSUME NEW i \in Ids, i \notin lapsed'
               PROVE  /\ rows'[i] = None => answered[i] = {}
                      /\ (rows'[i] # None /\ rows'[i].req \notin ReadOnly)
                            => \A a \in answered[i] : IsLast(i, a)'
    BY <1>1 DEF AnswersLast
  <2>1. CASE i = id
    BY <1>2, <1>3, <1>7, <1>8, <2>1
  <2>2. CASE i # id
    BY <1>1, <1>5, <1>6, <2>2 DEF AnswerInv, AnswersLast
  <2>3. QED
    BY <2>1, <2>2
<1>10. MemoryOfRow'
  <2> SUFFICES ASSUME NEW t \in Servers, NEW i \in Ids, i \notin lapsed', mem'[t][i] # None
               PROVE  /\ rows'[i] # None
                      /\ rows'[i].att = mem'[t][i].att /\ rows'[i].req = mem'[t][i].req
                      /\ (mem'[t][i].state \in Replayable /\ mem'[t][i].has)
                            => IsLast(i, mem[t][i].att)'
    BY DEF MemoryOfRow
  <2>1. CASE i # id
    <3>1. mem'[t][i] = mem[t][i] /\ i \notin lapsed
      BY <1>1, <1>4, <2>1
    <3>2. QED
      BY <1>5, <1>6, <2>1, <3>1 DEF AnswerInv, MemoryOfRow
  <2>2. CASE i = id /\ t = s
    BY <1>2, <1>3, <1>4, <1>7, <2>2 DEF Replayable
  <2>3. CASE i = id /\ t # s
    <3>1. mem[t][i] # None
      BY <1>4, <2>3
    <3>2. QED
      BY <1>1, <2>3, <3>1, MemoryIsUp DEF Alive
  <2>4. QED
    BY <2>1, <2>2, <2>3
<1>11. QED
  BY <1>9, <1>10 DEF AnswerInv

LEMMA FinishKeepsAnswers ==
  ASSUME TypeOK, AtMostOnceInv, FileInv, AnswerInv, [Next]_vars,
         NEW c \in calls, NEW state \in States, NEW has \in BOOLEAN, Finish(c, state, has)
  PROVE  AnswerInv'
<1> DEFINE new == Ended(rows[c.id], c, state, has)
<1>1. c \in Call /\ c.at \in Servers /\ c.id \in Ids /\ up[c.at] = "up"
  BY DEF TypeOK, Call, AtMostOnceInv, CallsAreUp
<1>2. /\ c.open /\ KeepsAnswer(c, state, has)
      /\ answered' = IF has THEN [answered EXCEPT ![c.id] = @ \cup {c.att}] ELSE answered
      /\ UNCHANGED <<up, conn, lapsed>>
  BY DEF Finish
<1>3. \A i \in Ids : i # c.id => rows'[i] = rows[i] /\ answered'[i] = answered[i]
                                  /\ \A t \in Servers : mem'[t][i] = mem[t][i]
  BY <1>1 DEF Finish, TypeOK
<1>4. \A i \in Ids : i # c.id => \A a : IsLast(i, a) => IsLast(i, a)'
  BY <1>3, LastStays DEF FileInv
<1>5. c.id \notin lapsed =>
        /\ rows[c.id] \in Record /\ rows[c.id].state = "running"
        /\ rows[c.id].att = c.att /\ rows[c.id].owner = c.at
        /\ rows'[c.id] = IF conn[c.at] THEN new ELSE rows[c.id]
  <2>1. c.id \notin lapsed =>
          /\ rows[c.id] # None /\ rows[c.id] \in Record /\ rows[c.id].state = "running"
          /\ rows[c.id].att = c.att /\ rows[c.id].owner = c.at
    BY <1>1, <1>2 DEF AtMostOnceInv, CallHasRow, TypeOK
  <2>2. QED
    BY <1>1, <2>1 DEF Finish, TypeOK
<1>6. rows[c.id] \in Record =>
        /\ new \in Record /\ new # None /\ new.state = state /\ new.has = has
        /\ new.att = c.att /\ new.req = rows[c.id].req
  BY <1>1, EndedType, NoneAssumption
<1> HIDE DEF new
<1>7. has => state \in Replayable
  BY <1>2 DEF KeepsAnswer, Replayable
<1>8. (c.id \notin lapsed /\ has) => IsLast(c.id, c.att)'
  <2> SUFFICES ASSUME c.id \notin lapsed, has PROVE IsLast(c.id, c.att)'
    OBVIOUS
  <2>1. CASE conn[c.at]
    BY <1>5, <1>6, <1>7, <2>1 DEF IsLast, Settled
  <2>2. CASE ~conn[c.at]
    BY <1>2, <1>5, <2>2, NoneAssumption DEF IsLast
  <2>3. QED
    BY <2>1, <2>2
<1>9. AnswersLast'
  <2> SUFFICES ASSUME NEW i \in Ids \ lapsed
               PROVE  /\ rows'[i] = None => answered'[i] = {}
                      /\ (rows'[i] # None /\ rows'[i].req \notin ReadOnly)
                            => \A a \in answered'[i] : IsLast(i, a)'
    BY <1>2 DEF AnswersLast
  <2>1. CASE i # c.id
    BY <1>3, <1>4, <2>1 DEF AnswerInv, AnswersLast
  <2>2. CASE i = c.id
    <3>1. rows'[i] # None /\ rows'[i].req = rows[i].req /\ rows[i] # None
      BY <1>5, <1>6, <2>2, NoneAssumption
    <3>2. answered'[i] \subseteq answered[i] \cup {c.att} /\ (~has => answered'[i] = answered[i])
      BY <1>1, <1>2, <2>2 DEF TypeOK
    <3>3. ASSUME rows[i].req \notin ReadOnly, NEW a \in answered[i] PROVE IsLast(i, a)'
      <4>1. IsLast(i, a)
        BY <3>1, <3>3 DEF AnswerInv, AnswersLast
      <4>2. ~conn[c.at] /\ rows'[i] = rows[i]
        BY <1>5, <2>2, <4>1 DEF IsLast, Settled, Replayable
      <4>3. QED
        BY <4>1, <4>2, LastStays DEF FileInv
    <3>4. QED
      BY <1>8, <2>2, <3>1, <3>2, <3>3
  <2>3. QED
    BY <2>1, <2>2
<1>10. MemoryOfRow'
  <2> SUFFICES ASSUME NEW t \in Servers, NEW i \in Ids \ lapsed, mem'[t][i] # None
               PROVE  /\ rows'[i] # None
                      /\ rows'[i].att = mem'[t][i].att /\ rows'[i].req = mem'[t][i].req
                      /\ (mem'[t][i].state \in Replayable /\ mem'[t][i].has)
                            => IsLast(i, mem[t][i].att)'
    BY <1>2 DEF MemoryOfRow
  <2>1. CASE i # c.id
    BY <1>3, <1>4, <2>1 DEF AnswerInv, MemoryOfRow
  <2>2. CASE i = c.id
    <3>1. t = c.at /\ mem[t][i] # None
      <4>1. mem[t][i] # None
        BY <1>1, <2>2, NoneAssumption DEF Finish, TypeOK
      <4>2. QED
        BY <1>1, <4>1, MemoryIsUp DEF Alive
    <3>2. mem[t][i] \in Record /\ mem[t][i].att = c.att /\ mem[t][i].req = rows[i].req
      BY <1>5, <2>2, <3>1 DEF AnswerInv, MemoryOfRow, TypeOK
    <3>3. mem'[t][i] = Ended(mem[t][i], c, state, has)
      BY <1>1, <2>2, <3>1, <3>2 DEF Finish, TypeOK
    <3>4. /\ mem'[t][i].att = c.att /\ mem'[t][i].req = rows[i].req
          /\ mem'[t][i].has = has
      BY <1>1, <3>2, <3>3, EndedType
    <3>5. rows'[i] # None /\ rows'[i].att = c.att /\ rows'[i].req = rows[i].req
      BY <1>5, <1>6, <2>2, NoneAssumption
    <3>6. QED
      BY <1>8, <2>2, <3>4, <3>5
  <2>3. QED
    BY <2>1, <2>2
<1>11. QED
  BY <1>9, <1>10 DEF AnswerInv

LEMMA InitAnswers == Init => AnswerInv
BY DEF Init, AnswerInv, AnswersLast, MemoryOfRow

\* Every step of the journal keeps the invariant of the answers.
LEMMA NextAnswers ==
  ASSUME ~Shared, TypeOK, TypeOK', AtMostOnceInv, FileInv, AnswerInv, [Next]_vars
  PROVE  AnswerInv'
<1>1. ASSUME NEW s \in Servers, Open(s) \/ SweepPick(s) \/ Degrade(s) PROVE AnswerInv'
  <2>1. UNCHANGED <<rows, mem, answered, lapsed>>
    BY <1>1 DEF Open, SweepPick, Degrade
  <2>2. QED
    BY <2>1, QuietKeepsAnswers
<1>2. ASSUME NEW s \in Servers, SweepMark(s) PROVE AnswerInv'
  <2>1. up[s] = "opening" /\ UNCHANGED <<mem, answered, lapsed>>
    BY <1>2 DEF SweepMark
  <2>2. \A t \in Servers, id \in Ids : mem[t][id] = None
    BY <2>1, OpeningIsAlone DEF AtMostOnceInv, FreshMemory
  <2>3. \A id \in Ids : rows'[id] = rows[id] \/ (rows[id] \in Record /\ rows'[id] = Reconciled(rows[id]))
    BY <1>2 DEF SweepMark, TypeOK
  <2>4. AnswersLast'
    <3> SUFFICES ASSUME NEW id \in Ids \ lapsed
                 PROVE  /\ rows'[id] = None => answered[id] = {}
                        /\ (rows'[id] # None /\ rows'[id].req \notin ReadOnly)
                              => \A a \in answered[id] : IsLast(id, a)'
      BY <2>1 DEF AnswersLast
    <3>1. /\ rows'[id] = None => rows[id] = None
          /\ rows'[id] # None => rows[id] # None /\ rows'[id].req = rows[id].req
      BY <2>3, ReconciledFacts, NoneAssumption
    <3>2. QED
      BY <2>3, <3>1, LastStays DEF AnswerInv, AnswersLast, FileInv
  <2>5. MemoryOfRow'
    BY <2>1, <2>2 DEF MemoryOfRow
  <2>6. QED
    BY <2>4, <2>5 DEF AnswerInv
<1>3. ASSUME NEW s \in Servers, OpenDone(s) PROVE AnswerInv'
  <2>1. up[s] = "opening" /\ UNCHANGED <<mem, answered>>
        /\ \A id \in Ids : id \notin lapsed' => id \notin lapsed /\ rows'[id] = rows[id]
    BY <1>3 DEF OpenDone
  <2>2. \A t \in Servers, id \in Ids : mem[t][id] = None
    BY <2>1, OpeningIsAlone DEF AtMostOnceInv, FreshMemory
  <2>3. \A id \in Ids : id \notin lapsed' => \A a : IsLast(id, a) => IsLast(id, a)'
    BY <2>1, LastStays DEF FileInv
  <2>4. QED
    BY <2>1, <2>2, <2>3 DEF AnswerInv, AnswersLast, MemoryOfRow
<1>4. ASSUME NEW s \in Servers, NEW id \in Ids, NEW req \in Reqs, BeginRefused(s, id, req)
      PROVE  AnswerInv'
  <2>1. rows' = rows /\ UNCHANGED <<mem, answered, lapsed>>
    BY <1>4, LookupIsRow DEF BeginRefused, FileInv
  <2>2. QED
    BY <2>1, QuietKeepsAnswers
<1>5. ASSUME NEW s \in Servers, NEW id \in Ids, NEW req \in Reqs, BeginReplayed(s, id, req)
      PROVE  AnswerInv'
  BY <1>5, ReplayKeepsAnswers
<1>6. ASSUME NEW s \in Servers, NEW id \in Ids, NEW req \in Reqs, BeginRuns(s, id, req)
      PROVE  AnswerInv'
  BY <1>6, RunKeepsAnswers
<1>7. ASSUME NEW s \in Servers, BeginOther(s) PROVE AnswerInv'
  <2>1. Remember(s, Other, None) /\ UNCHANGED <<rows, answered, lapsed>>
    BY <1>7 DEF BeginOther
  <2>2. \A t \in Servers, id \in Ids : mem'[t][id] \in {None, mem[t][id]}
    BY <2>1, RememberKeeps, JournalAssumption
  <2>3. QED
    BY <2>1, <2>2, QuietKeepsAnswers
<1>8. ASSUME NEW s \in Servers, Die(s) PROVE AnswerInv'
  <2>1. mem' = [mem EXCEPT ![s] = [id \in Ids |-> None]] /\ UNCHANGED <<rows, answered, lapsed>>
    BY <1>8 DEF Die
  <2>2. \A t \in Servers, id \in Ids : mem'[t][id] \in {None, mem[t][id]}
    BY <2>1 DEF TypeOK
  <2>3. QED
    BY <2>1, <2>2, QuietKeepsAnswers
<1>9. ASSUME NEW c \in calls, Work(c) \/ Return(c) \/ Apply(c) PROVE AnswerInv'
  <2>1. UNCHANGED <<rows, mem, answered, lapsed>>
    BY <1>9, StageMoves DEF Apply
  <2>2. QED
    BY <2>1, QuietKeepsAnswers
<1>10. ASSUME NEW c \in calls, NEW state \in States, NEW has \in BOOLEAN, Finish(c, state, has)
       PROVE  AnswerInv'
  BY <1>10, FinishKeepsAnswers
<1>11. CASE UNCHANGED vars
  <2>1. UNCHANGED <<rows, mem, answered, lapsed>>
    BY <1>11 DEF vars
  <2>2. QED
    BY <2>1, QuietKeepsAnswers
<1>12. QED
  BY <1>1, <1>2, <1>3, <1>4, <1>5, <1>6, <1>7, <1>8, <1>9, <1>10, <1>11 DEF Next, Begin, End

\* With one server at a time on the state folder, every final answer a client gets
\* for a write's id - at once, or replayed after an eviction, a failing file or a
\* restart - is that of one and the same run.
THEOREM OneAnswerHolds ==
  ASSUME ~Shared
  PROVE  Spec => []OneAnswer
<1>1. Init => AnswerInv
  BY InitAnswers
<1>2. (TypeOK /\ AtMostOnceInv /\ FileInv) /\ TypeOK' /\ AnswerInv /\ [Next]_vars => AnswerInv'
  BY NextAnswers
<1>3. AnswerInv => OneAnswer
  BY DEF AnswerInv, AnswersLast, IsLast, OneAnswer
<1>4. QED
  BY <1>1, <1>2, <1>3, FileInvariant, PTL DEF Spec

-------------------------------------------------------------------------------
(* The journal implements AtMostOnceCall *)

\* The values AtMostOnceCall's variables have here, and one id's step there.
HadEffect(id) == id \notin lapsed /\ ~MayRepeat(id) /\ applied[id] # {}

Same(id) == StatusOf(id)' = StatusOf(id) /\ (HadEffect(id)' <=> HadEffect(id))

Life(id) ==
  \/ Same(id)
  \/ StatusOf(id) = "new" /\ ~HadEffect(id) /\ StatusOf(id)' = "running" /\ ~HadEffect(id)'
  \/ /\ StatusOf(id) \in {"running", "unknown"} /\ ~HadEffect(id)
     /\ StatusOf(id)' = StatusOf(id) /\ HadEffect(id)'
  \/ /\ StatusOf(id) = "running" /\ StatusOf(id)' \in {"done", "unknown"}
     /\ HadEffect(id)' <=> HadEffect(id)
  \/ StatusOf(id) = "running" /\ ~HadEffect(id) /\ StatusOf(id)' = "new" /\ ~HadEffect(id)'
  \/ StatusOf(id)' = "forgotten" /\ ~HadEffect(id)'

\* An id that the file lost, or that may repeat, is forgotten; one whose row and
\* effects stay is as it was.
LEMMA Forgotten ==
  ASSUME NEW id \in Ids, id \in lapsed' \/ MayRepeat(id)' PROVE Life(id)
BY DEF Life, StatusOf, HadEffect

LEMMA SameRow ==
  ASSUME NEW id \in Ids, rows'[id] = rows[id], applied'[id] = applied[id],
         id \in lapsed' <=> id \in lapsed
  PROVE  Life(id)
BY DEF Life, Same, StatusOf, HadEffect, Settled, MayRepeat

\* The run of a call under way took effect, or no run of its id did.
LEMMA CallEffect ==
  ASSUME AtMostOnceInv, NEW c \in calls, c.id \in Ids, c.id \notin lapsed, ~MayRepeat(c.id)
  PROVE  applied[c.id] \subseteq {c.att}
BY DEF AtMostOnceInv, CallHasRow, AppliedBlocks, WaitsUntouched, MayRepeat

LEMMA RunIsRun ==
  ASSUME TypeOK, TypeOK', AtMostOnceInv, FileInv,
         NEW s \in Servers, NEW id \in Ids, NEW req \in Reqs, BeginRuns(s, id, req)
  PROVE  \A i \in Ids : Life(i)
<1> SUFFICES ASSUME NEW i \in Ids, i \notin lapsed', ~MayRepeat(i)' PROVE Life(i)
  BY Forgotten
<1> DEFINE rec == [state |-> "running", req |-> req, att |-> attempts[id] + 1, owner |-> s,
                   has |-> FALSE]
<1>1. /\ up[s] = "up" /\ ~Refuses(Known(s, id), req) /\ ~Replays(Known(s, id), req)
      /\ rows' = IF conn[s] THEN [rows EXCEPT ![id] = rec] ELSE rows
      /\ lapsed' = IF conn[s] THEN lapsed ELSE lapsed \cup {id}
      /\ applied' = applied
  BY DEF BeginRuns
<1>2. rec.state = "running"
  OBVIOUS
<1>3. conn[s] => rec # None
  <2>1. attempts[id] + 1 \in Attempts
    BY JournalAssumption DEF BeginRuns, TypeOK, Attempts
  <2>2. rec \in Record
    BY <2>1 DEF Record, States
  <2>3. QED
    BY <2>2, NoneAssumption
<1> HIDE DEF rec
<1>4. CASE i # id
  BY <1>1, <1>4, SameRow DEF TypeOK
<1>5. CASE i = id
  <2>1. conn[s] /\ id \notin lapsed /\ rows'[id] = rec
    BY <1>1, <1>5 DEF TypeOK
  <2>2. Known(s, id) = rows[id]
    BY <1>1, <2>1, KnownIsFile
  <2>3. rows[id] = None \/ (rows[id].state \notin {"running", "unknown_commit"} /\ ~Settled(rows[id]))
    BY <1>1, <2>2 DEF Refuses, Replays, Settled
  <2>7. ~MayRepeat(id)
    <3>1. rows'[id].req = rec.req /\ rows'[id] # None
      BY <1>3, <2>1
    <3>2. rec.req = req
      BY DEF rec
    <3>3. rows[id] # None => rows[id].req = req
      BY <1>1, <2>2 DEF Refuses
    <3>4. QED
      BY <1>5, <3>1, <3>2, <3>3 DEF MayRepeat
  <2>4. StatusOf(id) = "new" /\ ~HadEffect(id)
    BY <2>1, <2>3, <2>7 DEF StatusOf, HadEffect, AtMostOnceInv, AppliedBlocks, WaitsUntouched, MayRepeat
  <2>5. StatusOf(id)' = "running" /\ ~HadEffect(id)'
    BY <1>1, <1>2, <1>3, <1>5, <2>1, <2>4, <2>7 DEF StatusOf, HadEffect
  <2>6. QED
    BY <1>5, <2>4, <2>5 DEF Life
<1>6. QED
  BY <1>4, <1>5

LEMMA SweepMarkSettles ==
  ASSUME TypeOK, AtMostOnceInv, NEW s \in Servers, SweepMark(s)
  PROVE  \A i \in Ids : Life(i)
<1> SUFFICES ASSUME NEW i \in Ids, i \notin lapsed', ~MayRepeat(i)' PROVE Life(i)
  BY Forgotten
<1>1. lapsed' = lapsed /\ applied' = applied
  BY DEF SweepMark
<1>2. CASE rows'[i] = rows[i]
  BY <1>1, <1>2, SameRow
<1>3. CASE rows'[i] # rows[i]
  <2>1. /\ rows[i] \in Record /\ rows[i] # None /\ rows[i].state = "running"
        /\ rows'[i] = Reconciled(rows[i])
    BY <1>3 DEF SweepMark, TypeOK
  <2>3. rows'[i] # None /\ rows'[i].req = rows[i].req
    BY <2>1, ReconciledFacts, NoneAssumption
  <2>7. ~MayRepeat(i)
    BY <2>1, <2>3 DEF MayRepeat
  <2>2. StatusOf(i) = "running"
    BY <1>1, <2>1, <2>7 DEF StatusOf
  <2>4. CASE rows[i].req \in ReadOnly
    <3>1. rows'[i].state = "cancelled"
      BY <2>1, <2>4 DEF Reconciled, Record
    <3>2. StatusOf(i)' = "new"
      BY <1>1, <2>3, <3>1 DEF StatusOf, Settled, Replayable
    <3>3. ~HadEffect(i) /\ ~HadEffect(i)'
      BY <1>1, <2>4, <2>7 DEF HadEffect, AtMostOnceInv, AppliedBlocks, WaitsUntouched, MayRepeat
    <3>4. QED
      BY <2>2, <3>2, <3>3 DEF Life
  <2>5. CASE rows[i].req \notin ReadOnly
    <3>1. rows'[i].state = "unknown_commit"
      BY <2>1, <2>5 DEF Reconciled, Record
    <3>2. StatusOf(i)' = "unknown" /\ (HadEffect(i)' <=> HadEffect(i))
      BY <1>1, <2>3, <2>7, <3>1 DEF StatusOf, HadEffect
    <3>3. QED
      BY <2>2, <3>2 DEF Life
  <2>6. QED
    BY <2>4, <2>5
<1>4. QED
  BY <1>2, <1>3

LEMMA ApplyIsEffect ==
  ASSUME TypeOK, AtMostOnceInv, NEW c \in calls, Apply(c)
  PROVE  \A i \in Ids : Life(i)
<1> SUFFICES ASSUME NEW i \in Ids, i \notin lapsed', ~MayRepeat(i)' PROVE Life(i)
  BY Forgotten
<1>1. /\ c.att \notin applied[c.id]
      /\ applied' = [applied EXCEPT ![c.id] = @ \cup {c.att}]
      /\ rows' = rows /\ lapsed' = lapsed
  BY DEF Apply
<1>2. CASE i # c.id
  BY <1>1, <1>2, SameRow DEF TypeOK
<1>3. CASE i = c.id
  <2>6. ~MayRepeat(i)
    BY <1>1 DEF MayRepeat
  <2>1. applied[i] = {} /\ applied'[i] = {c.att}
    BY <1>1, <1>3, <2>6, CallEffect DEF TypeOK
  <2>2. rows[i] # None /\ rows[i].state \in {"running", "unknown_commit"}
    BY <1>1, <1>3 DEF AtMostOnceInv, CallHasRow
  <2>3. StatusOf(i) \in {"running", "unknown"} /\ StatusOf(i)' = StatusOf(i)
    BY <1>1, <2>2, <2>6 DEF StatusOf
  <2>4. ~HadEffect(i) /\ HadEffect(i)'
    BY <1>1, <2>1, <2>6 DEF HadEffect
  <2>5. QED
    BY <2>3, <2>4 DEF Life
<1>4. QED
  BY <1>2, <1>3

LEMMA FinishEnds ==
  ASSUME TypeOK, AtMostOnceInv, NEW c \in calls, NEW state \in States, NEW has \in BOOLEAN,
         Finish(c, state, has)
  PROVE  \A i \in Ids : Life(i)
<1> SUFFICES ASSUME NEW i \in Ids, i \notin lapsed', ~MayRepeat(i)' PROVE Life(i)
  BY Forgotten
<1> DEFINE new == Ended(rows[c.id], c, state, has)
<1>1. c \in Call /\ c.at \in Servers /\ c.id \in Ids
  BY DEF TypeOK, Call
<1>2. /\ c.open /\ Outcome(c, state) /\ KeepsAnswer(c, state, has)
      /\ rows' \in {rows, [rows EXCEPT ![c.id] = new]}
      /\ lapsed' = lapsed /\ applied' = applied
  BY DEF Finish
<1>3. CASE rows'[i] = rows[i]
  BY <1>2, <1>3, SameRow
<1>4. CASE rows'[i] # rows[i]
  <2>1. i = c.id /\ rows'[i] = new
    BY <1>2, <1>4 DEF TypeOK
  <2>2. rows[i] # None /\ rows[i] \in Record /\ rows[i].state = "running"
    BY <1>2, <2>1 DEF AtMostOnceInv, CallHasRow, TypeOK
  <2>3. new # None /\ new.state = state /\ new.has = has /\ new.req = rows[i].req
    BY <1>1, <2>1, <2>2, EndedType, NoneAssumption
  <2> HIDE DEF new
  <2>8. ~MayRepeat(i)
    BY <2>1, <2>2, <2>3 DEF MayRepeat
  <2>9. Retryable => c.req \notin Compound
    BY <1>2, <2>1, <2>2, <2>8 DEF AtMostOnceInv, CallHasRow, MayRepeat
  <2>4. StatusOf(i) = "running" /\ (HadEffect(i)' <=> HadEffect(i))
    BY <1>2, <2>2, <2>8 DEF StatusOf, HadEffect
  <2>5. CASE state = "unknown_commit" \/ has
    <3>1. state = "unknown_commit" \/ (state \in Replayable /\ has)
      BY <1>2, <2>5 DEF KeepsAnswer, Replayable
    <3>2. StatusOf(i)' \in {"done", "unknown"}
      BY <1>2, <2>1, <2>3, <3>1 DEF StatusOf, Settled, Replayable
    <3>3. QED
      BY <2>4, <3>2 DEF Life
  <2>6. CASE state # "unknown_commit" /\ ~has
    <3>1. state \in {"refused", "cancelled"} /\ Retryable /\ (c.req \in ReadOnly \/ c.stage = "waits")
      BY <1>1, <1>2, <2>6, <2>9 DEF Finish, KeepsAnswer, Outcome, Interrupted, Awaits, Call, Stages
    <3>2. StatusOf(i)' = "new"
      BY <1>2, <2>1, <2>3, <2>6, <3>1 DEF StatusOf, Settled
    <3>3. ~HadEffect(i)
      <4>1. CASE c.req \in ReadOnly
        <5>1. rows[i].req = c.req
          BY <1>2, <2>1 DEF AtMostOnceInv, CallHasRow
        <5>2. QED
          BY <4>1, <5>1 DEF AtMostOnceInv, AppliedBlocks, HadEffect
      <4>2. CASE c.stage = "waits"
        BY <1>2, <2>1, <2>8, <4>2 DEF HadEffect, AtMostOnceInv, WaitsUntouched
      <4>3. QED
        BY <3>1, <4>1, <4>2
    <3>4. QED
      BY <2>4, <3>2, <3>3 DEF Life
  <2>7. QED
    BY <2>5, <2>6
<1>5. QED
  BY <1>3, <1>4

\* Every step of the journal takes every id one step along its life, or none.
LEMMA NextIsLife ==
  ASSUME TypeOK, TypeOK', AtMostOnceInv, FileInv, [Next]_vars
  PROVE  \A i \in Ids : Life(i)
<1>1. CASE UNCHANGED <<rows, applied, lapsed>>
  BY <1>1, SameRow
<1>2. ASSUME NEW s \in Servers, SweepMark(s) PROVE \A i \in Ids : Life(i)
  BY <1>2, SweepMarkSettles
<1>3. ASSUME NEW s \in Servers, OpenDone(s) PROVE \A i \in Ids : Life(i)
  <2>1. /\ applied' = applied
        /\ \A i \in Ids : i \notin lapsed' => rows'[i] = rows[i] /\ i \notin lapsed
    BY <1>3 DEF OpenDone
  <2>2. QED
    BY <2>1, SameRow, Forgotten
<1>4. ASSUME NEW s \in Servers, NEW id \in Ids, NEW req \in Reqs, BeginRefused(s, id, req)
      PROVE  UNCHANGED <<rows, applied, lapsed>>
  BY <1>4, LookupIsRow DEF BeginRefused, FileInv
<1>5. ASSUME NEW s \in Servers, NEW id \in Ids, NEW req \in Reqs, BeginReplayed(s, id, req)
      PROVE  UNCHANGED <<rows, applied, lapsed>>
  BY <1>5 DEF BeginReplayed
<1>6. ASSUME NEW s \in Servers, NEW id \in Ids, NEW req \in Reqs, BeginRuns(s, id, req)
      PROVE  \A i \in Ids : Life(i)
  BY <1>6, RunIsRun
<1>7. ASSUME NEW s \in Servers,
             Open(s) \/ SweepPick(s) \/ BeginOther(s) \/ Degrade(s) \/ Die(s)
      PROVE  UNCHANGED <<rows, applied, lapsed>>
  BY <1>7 DEF Open, SweepPick, BeginOther, Degrade, Die
<1>8. ASSUME NEW c \in calls, Apply(c) PROVE \A i \in Ids : Life(i)
  BY <1>8, ApplyIsEffect
<1>12. ASSUME NEW c \in calls, Work(c) \/ Return(c) PROVE UNCHANGED <<rows, applied, lapsed>>
  BY <1>12, StageMoves
<1>9. ASSUME NEW c \in calls, NEW state \in States, NEW has \in BOOLEAN, Finish(c, state, has)
      PROVE  \A i \in Ids : Life(i)
  BY <1>9, FinishEnds
<1>10. CASE UNCHANGED vars
  BY <1>1, <1>10 DEF vars
<1>11. QED
  BY <1>1, <1>2, <1>3, <1>4, <1>5, <1>6, <1>7, <1>8, <1>9, <1>10, <1>12 DEF Next, Begin, End

\* A step of every id along its life is a step of AtMostOnceCall.
LEMMA LifeIsAmoNext ==
  ASSUME \A id \in Ids : Life(id)
  PROVE  Abstract!AmoNext
<1>1. /\ [id \in Ids |-> StatusOf(id)]' \in [Ids -> Abstract!Status]
      /\ [id \in Ids |-> HadEffect(id)]' \in [Ids -> BOOLEAN]
  BY DEF StatusOf, HadEffect, Abstract!Status
<1>2. ASSUME NEW id \in Ids
      PROVE  \/ Abstract!Run(id) \/ Abstract!Effect(id) \/ Abstract!Done(id) \/ Abstract!Again(id)
             \/ Abstract!Lose(id) \/ Abstract!Forget(id) \/ Abstract!Stays(id)
  BY DEF Life, Same, HadEffect, Abstract!Run, Abstract!Effect, Abstract!Done, Abstract!Again,
         Abstract!Lose, Abstract!Forget, Abstract!Stays, Abstract!Becomes
<1>3. QED
  BY <1>1, <1>2 DEF Abstract!AmoNext, HadEffect

\* With one server at a time on the state folder, the journal - its servers' bounded
\* memories, its file, their kills and restarts - is an at-most-once call for every id.
THEOREM JournalImplementsAtMostOnce ==
  ASSUME ~Shared
  PROVE  Spec => ImplementsAtMostOnce
<1>1. Init => Abstract!AmoInit
  BY DEF Init, Abstract!AmoInit, StatusOf, MayRepeat
<1>2. (TypeOK /\ AtMostOnceInv /\ FileInv) /\ TypeOK' /\ [Next]_vars => Abstract!AmoNext
  BY NextIsLife, LifeIsAmoNext
<1>3. QED
  BY <1>1, <1>2, FileInvariant, PTL DEF Spec, ImplementsAtMostOnce, Abstract!AmoSpec
===============================================================================
