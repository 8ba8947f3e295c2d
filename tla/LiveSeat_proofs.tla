---------------------------- MODULE LiveSeat_proofs -----------------------------
(***************************************************************************)
(* The safety of LiveSeat for every set of documents and of calls, and     *)
(* every number of calls, jobs, edits and tab switches: its types; and,     *)
(* until a deadline replaces the COM thread, that a reused export holds what *)
(* the server drew; that a revision names one content; that a check that    *)
(* passes holds.                                                           *)
(***************************************************************************)
EXTENDS LiveSeat, SequenceTheorems, TLAPS

-------------------------------------------------------------------------------
(* Sequences *)

LEMMA Members ==
  ASSUME NEW S, NEW s \in Seq(S)
  PROVE  /\ Len(s) \in Nat /\ DOMAIN s = 1..Len(s) /\ \A i \in DOMAIN s : s[i] \in S
         /\ s = <<>> <=> Len(s) = 0
<1>1. Len(s) \in Nat /\ DOMAIN s = 1..Len(s) /\ \A i \in DOMAIN s : s[i] \in S
  BY LenProperties, ElementOfSeq
<1>2. s = <<>> <=> Len(s) = 0
  BY EmptySeq, LenProperties
<1>3. QED
  BY <1>1, <1>2

LEMMA Appended ==
  ASSUME NEW S, NEW s \in Seq(S), NEW e \in S
  PROVE  /\ Append(s, e) \in Seq(S) /\ Len(Append(s, e)) = Len(s) + 1
         /\ DOMAIN Append(s, e) = 1..(Len(s) + 1)
         /\ \A i \in 1..Len(s) : Append(s, e)[i] = s[i]
         /\ Append(s, e)[Len(s) + 1] = e
BY AppendProperties, LenProperties

\* The first entry goes.
LEMMA TailIs ==
  ASSUME NEW S, NEW s \in Seq(S), s # <<>>
  PROVE  /\ Tail(s) \in Seq(S) /\ Len(Tail(s)) = Len(s) - 1 /\ DOMAIN Tail(s) = 1..(Len(s) - 1)
         /\ \A i \in 1..(Len(s) - 1) : Tail(s)[i] = s[i + 1]
         /\ Head(s) = s[1] /\ Head(s) \in S /\ 1 \in DOMAIN s
<1>1. Len(s) \in Nat \ {0} /\ DOMAIN s = 1..Len(s)
  BY Members
<1>2. /\ Tail(s) \in Seq(S) /\ Len(Tail(s)) = Len(s) - 1
      /\ \A i \in 1..Len(Tail(s)) : Tail(s)[i] = s[i + 1]
      /\ Head(s) = s[1] /\ Head(s) \in S
  BY HeadTailProperties
<1>3. DOMAIN Tail(s) = 1..Len(Tail(s))
  BY <1>2, Members
<1>4. QED
  BY <1>1, <1>2, <1>3

\* One entry changes.
LEMMA Put ==
  ASSUME NEW S, NEW s \in Seq(S), NEW x \in DOMAIN s, NEW e \in S
  PROVE  /\ [s EXCEPT ![x] = e] \in Seq(S) /\ Len([s EXCEPT ![x] = e]) = Len(s)
         /\ [s EXCEPT ![x] = e] # <<>>
         /\ DOMAIN [s EXCEPT ![x] = e] = DOMAIN s /\ [s EXCEPT ![x] = e][x] = e
<1>1. [s EXCEPT ![x] = e] \in Seq(S) /\ Len([s EXCEPT ![x] = e]) = Len(s)
  BY ExceptSeq
<1>2. DOMAIN [s EXCEPT ![x] = e] = DOMAIN s /\ [s EXCEPT ![x] = e][x] = e
  OBVIOUS
<1>3. [s EXCEPT ![x] = e] # <<>>
  BY <1>1, Members
<1>4. QED
  BY <1>1, <1>2, <1>3

\* w has the entries of s at the places m, in their order.
Sub(w, s, m) ==
  /\ m \in [DOMAIN w -> DOMAIN s]
  /\ \A i \in DOMAIN w : w[i] = s[m[i]]
  /\ \A i, j \in DOMAIN w : i < j => m[i] < m[j]

LEMMA Removed ==
  ASSUME NEW S, NEW s \in Seq(S), NEW p \in DOMAIN s
  PROVE  /\ RemoveAt(s, p) \in Seq(S) /\ Len(RemoveAt(s, p)) = Len(s) - 1
         /\ \A i \in 1..(Len(s) - 1) : RemoveAt(s, p)[i] = IF i < p THEN s[i] ELSE s[i + 1]
<1> DEFINE u == SubSeq(s, 1, p - 1)
           v == SubSeq(s, p + 1, Len(s))
           n == Len(s)
<1>1. n \in Nat /\ p \in 1..n
  BY Members
<1>2. u \in Seq(S) /\ Len(u) = p - 1 /\ \A i \in 1..(p - 1) : u[i] = s[i]
  <2>1. 1 \in 1..(n + 1) /\ p - 1 \in (1 - 1)..n
    BY <1>1
  <2>2. /\ u \in Seq(S) /\ Len(u) = IF 1 <= p - 1 THEN (p - 1) - 1 + 1 ELSE 0
        /\ \A i \in 1..((p - 1) - 1 + 1) : u[i] = s[1 + i - 1]
    BY <2>1, SubSeqProperties
  <2>3. QED
    BY <1>1, <2>2
<1>3. v \in Seq(S) /\ Len(v) = n - p /\ \A i \in 1..(n - p) : v[i] = s[p + i]
  <2>1. p + 1 \in 1..(n + 1) /\ n \in ((p + 1) - 1)..n
    BY <1>1
  <2>2. /\ v \in Seq(S) /\ Len(v) = IF p + 1 <= n THEN n - (p + 1) + 1 ELSE 0
        /\ \A i \in 1..(n - (p + 1) + 1) : v[i] = s[(p + 1) + i - 1]
    BY <2>1, SubSeqProperties
  <2>3. QED
    BY <1>1, <2>2
<1>4. RemoveAt(s, p) = u \o v
  BY DEF RemoveAt
<1> HIDE DEF u, v, n
<1>5. /\ u \o v \in Seq(S) /\ Len(u \o v) = Len(u) + Len(v)
      /\ \A i \in 1..(Len(u) + Len(v)) : (u \o v)[i] = IF i <= Len(u) THEN u[i] ELSE v[i - Len(u)]
  BY <1>2, <1>3, ConcatProperties
<1>6. Len(u) + Len(v) = n - 1
  BY <1>1, <1>2, <1>3
<1>7. ASSUME NEW i \in 1..(n - 1) PROVE (u \o v)[i] = IF i < p THEN s[i] ELSE s[i + 1]
  <2>1. (u \o v)[i] = IF i <= p - 1 THEN u[i] ELSE v[i - (p - 1)]
    BY <1>2, <1>5, <1>6
  <2>2. CASE i < p
    BY <1>1, <1>2, <2>1, <2>2
  <2>3. CASE ~(i < p)
    <3>1. i - (p - 1) \in 1..(n - p) /\ p + (i - (p - 1)) = i + 1 /\ ~(i <= p - 1)
      BY <1>1, <2>3
    <3>2. QED
      BY <1>3, <2>1, <2>3, <3>1
  <2>4. QED
    BY <2>2, <2>3
<1>8. QED
  BY <1>4, <1>5, <1>6, <1>7 DEF n

LEMMA TailSub ==
  ASSUME NEW S, NEW s \in Seq(S), s # <<>>
  PROVE  \E m : Sub(Tail(s), s, m) /\ \A j \in DOMAIN s : j # 1 => \E i \in DOMAIN Tail(s) : m[i] = j
<1> DEFINE m == [i \in DOMAIN Tail(s) |-> i + 1]
<1>1. /\ Len(s) \in Nat \ {0} /\ DOMAIN s = 1..Len(s) /\ DOMAIN Tail(s) = 1..(Len(s) - 1)
      /\ \A i \in 1..(Len(s) - 1) : Tail(s)[i] = s[i + 1]
  BY Members, TailIs
<1>2. \A i \in DOMAIN Tail(s) : m[i] = i + 1 /\ i + 1 \in DOMAIN s
  BY <1>1
<1>3. m \in [DOMAIN Tail(s) -> DOMAIN s]
  BY <1>2
<1>4. \A i, j \in DOMAIN Tail(s) : i < j => m[i] < m[j]
  BY <1>1, <1>2
<1>5. ASSUME NEW j \in DOMAIN s, j # 1 PROVE \E i \in DOMAIN Tail(s) : m[i] = j
  <2>1. j - 1 \in DOMAIN Tail(s) /\ (j - 1) + 1 = j
    BY <1>1, <1>5
  <2>2. QED
    BY <1>2, <2>1
<1> HIDE DEF m
<1>6. Sub(Tail(s), s, m)
  BY <1>1, <1>2, <1>3, <1>4 DEF Sub
<1>7. QED
  BY <1>5, <1>6

\* What is left keeps its order, and all that is not for c is left.
LEMMA WithoutIs ==
  ASSUME NEW S, NEW s \in Seq(S), NEW c
  PROVE  /\ Without(s, c) \in Seq(S)
         /\ \E m : /\ Sub(Without(s, c), s, m)
                   /\ \A j \in DOMAIN s : s[j].call # c => \E i \in DOMAIN Without(s, c) : m[i] = j
         /\ (\A i, j \in DOMAIN s : i # j => s[i].call # s[j].call)
              => \A i \in DOMAIN Without(s, c) : Without(s, c)[i].call # c
<1> DEFINE at == {i \in DOMAIN s : s[i].call = c}
           w == Without(s, c)
<1>1. Len(s) \in Nat /\ DOMAIN s = 1..Len(s)
  BY Members
<1>2. CASE at = {}
  <2>1. w = s
    BY <1>2 DEF Without
  <2> DEFINE m == [i \in DOMAIN s |-> i]
  <2>2. Sub(s, s, m) /\ \A j \in DOMAIN s : m[j] = j
    BY DEF Sub
  <2>3. \A i \in DOMAIN s : s[i].call # c
    BY <1>2
  <2> HIDE DEF m
  <2>4. QED
    BY <2>1, <2>2, <2>3
<1>3. CASE at # {}
  <2>1. PICK p : p = CHOOSE i \in at : TRUE
    OBVIOUS
  <2>2. p \in DOMAIN s /\ s[p].call = c
    BY <1>3, <2>1
  <2>3. w = RemoveAt(s, p)
    BY <1>3, <2>1 DEF Without
  <2>4. /\ w \in Seq(S) /\ Len(w) = Len(s) - 1
        /\ \A i \in 1..(Len(s) - 1) : w[i] = IF i < p THEN s[i] ELSE s[i + 1]
    BY <2>2, <2>3, Removed
  <2> HIDE DEF w
  <2>5. DOMAIN w = 1..(Len(s) - 1) /\ p \in 1..Len(s)
    BY <1>1, <2>2, <2>4, Members
  <2> DEFINE m == [i \in DOMAIN w |-> IF i < p THEN i ELSE i + 1]
  <2>6. \A i \in DOMAIN w : m[i] \in DOMAIN s /\ w[i] = s[m[i]] /\ m[i] # p
    BY <1>1, <2>4, <2>5
  <2>7. \A i, j \in DOMAIN w : i < j => m[i] < m[j]
    BY <1>1, <2>5
  <2>8. ASSUME NEW j \in DOMAIN s, j # p PROVE \E i \in DOMAIN w : m[i] = j
    <3>1. CASE j < p
      BY <1>1, <2>5, <3>1
    <3>2. CASE ~(j < p)
      <4>1. j - 1 \in DOMAIN w /\ ~(j - 1 < p) /\ (j - 1) + 1 = j
        BY <1>1, <2>5, <2>8, <3>2
      <4>2. QED
        BY <4>1
    <3>3. QED
      BY <3>1, <3>2
  <2>9. m \in [DOMAIN w -> DOMAIN s]
    BY <2>6
  <2> HIDE DEF m
  <2>10. Sub(w, s, m)
    BY <2>6, <2>7, <2>9 DEF Sub
  <2>11. \A j \in DOMAIN s : s[j].call # c => \E i \in DOMAIN w : m[i] = j
    BY <2>2, <2>8
  <2>12. ASSUME \A i, j \in DOMAIN s : i # j => s[i].call # s[j].call
         PROVE  \A i \in DOMAIN w : w[i].call # c
    BY <2>2, <2>6, <2>12
  <2>13. QED
    BY <2>4, <2>10, <2>11, <2>12 DEF w
<1>4. QED
  BY <1>2, <1>3

-------------------------------------------------------------------------------
(* The types *)

Works == {"select", "rebind", "read", "draw"}
Jobs == {j \in [call : Calls \cup {None}, does : Works, to : Docs \cup {None}] : j.does = "select" => j.to \in Docs}
\* A job that waits has its call still; a running one may have been left.
Queued == {j \in Jobs : j.call \in Calls}

\* A guarded job has the document its guard took.
Guarded == {"read", "draw"}
Placed(j, d) == j # None /\ j.does \in Guarded => d \in Docs
Executor == {e \in [queue : Seq(Queued), running : Jobs \cup {None}, doc : Docs \cup {None}] : Placed(e.running, e.doc)}
Entries == {e \in [call : Calls, result : {"ok", "refused"}, seen : Seens] : e.result = "refused" => e.seen = Unseen}
Promises == [prints : (Docs \cup {None}) \X Nat, rev : Nat \cup {None}, whole : Seens]

Waiting == {"draw", "select", "rebind", "read", "refresh", "export"}
Places == Waiting \cup {"idle", "gate", "parse"}
CallRecs == [kind : Kinds \cup {"none"}, at : Places, to : Docs \cup {None}, jobs : Nat, left : Nat,
             force : BOOLEAN, valid : BOOLEAN, seen : Seens, given : Promises \cup {None}]

\* Where the calls of each kind can be, and the jobs a write has left.
Fits(r) ==
  /\ r.at = "idle" <=> r.kind = "none"
  /\ r.at = "draw" <=> r.kind = "write"
  /\ r.at \in {"select", "rebind"} <=> r.kind = "choose"
  /\ r.at \in {"gate", "export", "parse"} => r.kind = "detail"
  /\ r.at = "refresh" => r.kind \in {"preview", "check"}
  /\ r.kind = "write" => r.left \in 1..r.jobs
  /\ r.kind # "write" => r.left = 0 /\ r.jobs = 0

SeatTypes ==
  /\ active \in Docs /\ content \in [Docs -> [Parts -> Nat]]
  /\ bound \in Docs \cup {None} /\ rev \in [Docs -> Nat] /\ edits \in [Docs -> Nat \cup {None}]

CallTypes == call \in [Calls -> CallRecs] /\ \A c \in Calls : Fits(call[c])

\* The gate is held exactly while a call exports or parses.
GateIs == gate \in Calls \cup {None} /\ \A c \in Calls : call[c].at \in {"export", "parse"} <=> gate = c

ThreadTypes == executors \in Seq(Executor) /\ executors # <<>> /\ ready \in Seq(Entries)

MemoryTypes ==
  /\ cache # None => cache.seen \in Seens
  /\ promised \in Promises \cup {None}
  /\ alone \in Calls \cup {None}

TypeInv == SeatTypes /\ CallTypes /\ GateIs /\ ThreadTypes /\ MemoryTypes

\* No document or call is none.
LEMMA NoneIs == None \notin Docs /\ None \notin Calls /\ Kinds \subseteq ToolKinds /\ "none" \notin Kinds
BY SeatAssumption DEF ToolKinds

\* The fields of a call's record.
LEMMA CallIs ==
  ASSUME TypeInv, NEW c \in Calls
  PROVE  /\ call[c] \in CallRecs /\ Fits(call[c]) /\ call[c].kind \in Kinds \cup {"none"} /\ call[c].at \in Places
         /\ call[c].to \in Docs \cup {None} /\ call[c].jobs \in Nat /\ call[c].left \in Nat
         /\ call[c].force \in BOOLEAN /\ call[c].valid \in BOOLEAN /\ call[c].seen \in Seens
         /\ call[c].given \in Promises \cup {None}
<1>1. call[c] \in CallRecs /\ Fits(call[c])
  BY DEF TypeInv, CallTypes
<1>2. QED
  BY <1>1 DEF CallRecs

LEMMA SeenIs ==
  /\ Unseen \in Seens
  /\ \A s \in Seens : s.doc \in Docs \cup {None} /\ s.holds \in [Parts -> Nat]
                      /\ Fingerprints(s) \in (Docs \cup {None}) \X Nat
  /\ TypeInv => \A d \in Docs : Seen(d) \in Seens
BY DEF Unseen, Seens, Fingerprints, Parts, Seen, TypeInv, SeatTypes

\* A record of which only the place, the work left or the like changes.
LEMMA Idles == Idle \in CallRecs /\ Fits(Idle) /\ Idle.at = "idle"
<1>1. Idle \in CallRecs
  BY SeenIs DEF Idle, CallRecs, Places
<1>2. QED
  BY <1>1, NoneIs DEF Idle, Fits, ToolKinds

LEMMA CallsPut ==
  ASSUME NEW f \in [Calls -> CallRecs], \A d \in Calls : Fits(f[d]),
         NEW c \in Calls, NEW r \in CallRecs, Fits(r), call' = [f EXCEPT ![c] = r]
  PROVE  /\ CallTypes' /\ call'[c] = r
         /\ \A d \in Calls \ {c} : call'[d] = f[d]
BY DEF CallTypes

LEMMA CallPut ==
  ASSUME TypeInv, NEW c \in Calls, NEW r \in CallRecs, Fits(r), call' = [call EXCEPT ![c] = r]
  PROVE  /\ CallTypes' /\ call'[c] = r
         /\ \A d \in Calls \ {c} : call'[d] = call[d]
BY CallsPut DEF TypeInv, CallTypes

\* What a record is once its export under way is not to be stored.
LEMMA RetiredIs ==
  ASSUME TypeInv
  PROVE  /\ Retired \in [Calls -> CallRecs]
         /\ \A c \in Calls : /\ Retired[c] = [call[c] EXCEPT !.valid = FALSE] /\ Fits(Retired[c])
                             /\ Retired[c].at = call[c].at /\ Retired[c].kind = call[c].kind
                             /\ Retired[c].jobs = call[c].jobs /\ Retired[c].left = call[c].left
                             /\ Retired[c].seen = call[c].seen /\ Retired[c].given = call[c].given
                             /\ Retired[c].to = call[c].to
                             /\ ~Retired[c].valid
<1> SUFFICES ASSUME NEW c \in Calls
             PROVE  LET r == [call[c] EXCEPT !.valid = FALSE] IN
                      /\ r \in CallRecs /\ Fits(r)
                      /\ r.at = call[c].at /\ r.kind = call[c].kind
                      /\ r.jobs = call[c].jobs /\ r.left = call[c].left
                      /\ r.seen = call[c].seen /\ r.given = call[c].given /\ r.to = call[c].to
                      /\ ~r.valid
  BY DEF Retired
<1>1. call[c] \in CallRecs /\ Fits(call[c])
  BY CallIs
<1>2. QED
  BY <1>1 DEF CallRecs, Fits

\* What the gate and the calls are once a call is over.
LEMMA EndsTypes ==
  ASSUME TypeInv, NEW c \in Calls, Ends(c)
  PROVE  /\ CallTypes' /\ GateIs' /\ call'[c] = Idle
         /\ \A d \in Calls \ {c} : call'[d] = call[d]
<1>1. CallTypes' /\ call'[c] = Idle /\ \A d \in Calls \ {c} : call'[d] = call[d]
  BY Idles, CallPut DEF Ends
<1>2. Idle.at = "idle" /\ None \notin Calls
  BY Idles, NoneIs
<1>3. GateIs'
  BY <1>1, <1>2 DEF Ends, GateIs, TypeInv
<1>4. QED
  BY <1>1, <1>3

\* The gate and a call that goes from one place to another, neither an export's.
LEMMA GateStays ==
  ASSUME TypeInv, NEW c \in Calls, gate' = gate,
         \A d \in Calls \ {c} : call'[d].at = call[d].at,
         call'[c].at \in {"export", "parse"} <=> call[c].at \in {"export", "parse"}
  PROVE  GateIs'
BY DEF TypeInv, GateIs

LEMMA ThreadPut ==
  ASSUME TypeInv, NEW x \in DOMAIN executors, NEW e \in Executor, executors' = [executors EXCEPT ![x] = e]
  PROVE  executors' \in Seq(Executor) /\ executors' # <<>> /\ executors'[x] = e /\ DOMAIN executors' = DOMAIN executors
         /\ Len(executors') = Len(executors)
BY Put DEF TypeInv, ThreadTypes

LEMMA ExecutorIs ==
  ASSUME TypeInv, NEW x \in DOMAIN executors
  PROVE  /\ executors[x] \in Executor /\ executors[x].queue \in Seq(Queued)
         /\ executors[x].running \in Jobs \cup {None} /\ executors[x].doc \in Docs \cup {None}
         /\ Placed(executors[x].running, executors[x].doc)
         /\ executors[x] = [queue |-> executors[x].queue, running |-> executors[x].running, doc |-> executors[x].doc]
<1>1. executors[x] \in Executor
  BY Members DEF TypeInv, ThreadTypes
<1>2. QED
  BY <1>1 DEF Executor

LEMMA QueuePut ==
  ASSUME NEW r \in Executor, NEW q
  PROVE  [r EXCEPT !.queue = q] = [queue |-> q, running |-> r.running, doc |-> r.doc]
BY DEF Executor

LEMMA CurrentIs ==
  ASSUME TypeInv
  PROVE  Current \in DOMAIN executors
BY Members DEF TypeInv, ThreadTypes, Current

\* A job that is submitted is the current thread's last.
LEMMA SubmitIs ==
  ASSUME TypeInv, NEW j \in Queued,
         executors' = [executors EXCEPT ![Current].queue = Append(@, j)]
  PROVE  /\ executors' \in Seq(Executor) /\ executors' # <<>> /\ Len(executors') = Len(executors)
         /\ executors' = [executors EXCEPT ![Current] =
              [queue |-> Append(executors[Current].queue, j), running |-> executors[Current].running,
               doc |-> executors[Current].doc]]
<1> DEFINE q == Append(executors[Current].queue, j)
           e == [queue |-> q, running |-> executors[Current].running, doc |-> executors[Current].doc]
<1>1. Current \in DOMAIN executors
  BY CurrentIs
<1>2. q \in Seq(Queued) /\ executors[Current].running \in Jobs \cup {None} /\ executors[Current].doc \in Docs \cup {None}
      /\ Placed(executors[Current].running, executors[Current].doc)
  BY <1>1, ExecutorIs, Appended
<1>3. executors' = [executors EXCEPT ![Current] = e]
  <2>1. [executors[Current] EXCEPT !.queue = q] = e
    BY <1>1, ExecutorIs, QueuePut
  <2>2. executors' = [executors EXCEPT ![Current] = [executors[Current] EXCEPT !.queue = q]]
    OBVIOUS
  <2>3. QED
    BY <2>1, <2>2
<1> HIDE DEF q
<1>4. e \in Executor
  BY <1>2 DEF Executor
<1>5. QED
  BY <1>1, <1>3, <1>4, ThreadPut DEF q

LEMMA JobIs ==
  ASSUME TypeInv, NEW c \in Calls, NEW does \in Works \ {"select"}
  PROVE  /\ Job(c, does) \in Queued /\ Job(c, does).call = c /\ Job(c, does).does = does
BY CallIs DEF Job, Jobs, Queued

\* A thread takes up its next job, or drops it.
LEMMA BegunIs ==
  ASSUME TypeInv, NEW x \in DOMAIN executors, MayBegin(x)
  PROVE  /\ NextJob(x) \in Queued /\ NextJob(x) \in Jobs /\ NextJob(x) = executors[x].queue[1] /\ 1 \in DOMAIN executors[x].queue
         /\ Tail(executors[x].queue) \in Seq(Queued)
         /\ \A d \in Docs \cup {None} : Begun(x, d) /\ Placed(NextJob(x), d) =>
              /\ executors' \in Seq(Executor) /\ executors' # <<>> /\ Len(executors') = Len(executors)
              /\ executors'[x] = [queue |-> Tail(executors[x].queue), running |-> NextJob(x), doc |-> d]
         /\ executors' = [executors EXCEPT ![x].queue = Tail(@)] =>
              /\ executors' \in Seq(Executor) /\ executors' # <<>> /\ Len(executors') = Len(executors)
              /\ executors'[x] = [queue |-> Tail(executors[x].queue), running |-> executors[x].running,
                                  doc |-> executors[x].doc]
<1> DEFINE q == executors[x].queue
<1>1. q \in Seq(Queued) /\ q # <<>> /\ executors[x].running \in Jobs \cup {None} /\ executors[x].doc \in Docs \cup {None}
      /\ Placed(executors[x].running, executors[x].doc)
  BY ExecutorIs DEF MayBegin
<1>2. Tail(q) \in Seq(Queued) /\ Head(q) = q[1] /\ Head(q) \in Queued /\ Head(q) \in Jobs /\ 1 \in DOMAIN q /\ NextJob(x) = Head(q)
  BY <1>1, TailIs DEF NextJob, Queued
<1>3. ASSUME NEW d \in Docs \cup {None}, Begun(x, d), Placed(NextJob(x), d)
      PROVE  /\ executors' \in Seq(Executor) /\ executors' # <<>> /\ Len(executors') = Len(executors)
             /\ executors'[x] = [queue |-> Tail(q), running |-> NextJob(x), doc |-> d]
  <2> DEFINE e == [queue |-> Tail(q), running |-> NextJob(x), doc |-> d]
  <2>1. e \in Executor
    BY <1>2, <1>3 DEF Executor
  <2>2. executors' = [executors EXCEPT ![x] = e]
    BY <1>3 DEF Begun
  <2>3. QED
    BY <2>1, <2>2, ThreadPut
<1>4. ASSUME executors' = [executors EXCEPT ![x].queue = Tail(@)]
      PROVE  /\ executors' \in Seq(Executor) /\ executors' # <<>> /\ Len(executors') = Len(executors)
             /\ executors'[x] = [queue |-> Tail(q), running |-> executors[x].running, doc |-> executors[x].doc]
  <2> DEFINE e == [queue |-> Tail(q), running |-> executors[x].running, doc |-> executors[x].doc]
  <2>1. e \in Executor
    BY <1>1, <1>2 DEF Executor
  <2>2. [executors[x] EXCEPT !.queue = Tail(q)] = e
    BY ExecutorIs, QueuePut
  <2>3. executors' = [executors EXCEPT ![x] = [executors[x] EXCEPT !.queue = Tail(q)]]
    BY <1>4
  <2>4. executors' = [executors EXCEPT ![x] = e]
    BY <2>2, <2>3
  <2>5. QED
    BY <2>1, <2>4, ThreadPut
<1>5. QED
  BY <1>2, <1>3, <1>4

LEMMA RunningPut ==
  ASSUME NEW r \in Executor, NEW j, NEW d
  PROVE  [r EXCEPT !.running = j, !.doc = d] = [queue |-> r.queue, running |-> j, doc |-> d]
<1>1. r = [queue |-> r.queue, running |-> r.running, doc |-> r.doc]
  BY DEF Executor
<1>2. PICK f : f = [queue |-> r.queue, running |-> j, doc |-> r.doc]
  OBVIOUS
<1>3. [r EXCEPT !.running = j] = f
  BY <1>1, <1>2
<1>4. [f EXCEPT !.doc = d] = [queue |-> r.queue, running |-> j, doc |-> d]
  BY <1>2
<1>5. [r EXCEPT !.running = j, !.doc = d] = [[r EXCEPT !.running = j] EXCEPT !.doc = d]
  OBVIOUS
<1>6. QED
  BY <1>3, <1>4, <1>5

LEMMA QueueRunningPut ==
  ASSUME NEW r \in Executor, NEW q, NEW j
  PROVE  [r EXCEPT !.queue = q, !.running = j] = [queue |-> q, running |-> j, doc |-> r.doc]
<1>1. r = [queue |-> r.queue, running |-> r.running, doc |-> r.doc]
  BY DEF Executor
<1>2. PICK f : f = [queue |-> q, running |-> r.running, doc |-> r.doc]
  OBVIOUS
<1>3. [r EXCEPT !.queue = q] = f
  BY <1>1, <1>2
<1>4. [f EXCEPT !.running = j] = [queue |-> q, running |-> j, doc |-> r.doc]
  BY <1>2
<1>5. [r EXCEPT !.queue = q, !.running = j] = [[r EXCEPT !.queue = q] EXCEPT !.running = j]
  OBVIOUS
<1>6. QED
  BY <1>3, <1>4, <1>5

\* A job ends.
LEMMA EndedIs ==
  ASSUME TypeInv, NEW x \in DOMAIN executors, NEW does, NEW s \in Seens, Ended(x, does, s)
  PROVE  /\ executors' \in Seq(Executor) /\ executors' # <<>> /\ Len(executors') = Len(executors)
         /\ executors'[x] = [queue |-> executors[x].queue, running |-> None, doc |-> None]
         /\ ready' \in Seq(Entries) /\ executors[x].running \in Jobs /\ executors[x].running.does = does
         /\ executors[x].running # None
         /\ IF executors[x].running.call = None THEN ready' = ready
            ELSE /\ executors[x].running.call \in Calls
                 /\ ready' = Append(ready, [call |-> executors[x].running.call, result |-> "ok", seen |-> s])
<1> DEFINE e == [queue |-> executors[x].queue, running |-> None, doc |-> None]
           j == executors[x].running
<1>1. j \in Jobs /\ executors[x].queue \in Seq(Queued)
  BY ExecutorIs DEF Ended
<1>2. e \in Executor
  BY <1>1 DEF Executor, Placed
<1>3. executors' = [executors EXCEPT ![x] = e]
  <2>1. PICK r \in Executor : r = executors[x]
    BY ExecutorIs
  <2>2. [r EXCEPT !.running = None, !.doc = None] = [queue |-> r.queue, running |-> None, doc |-> None]
    BY RunningPut
  <2>3. executors' = [executors EXCEPT ![x] = [executors[x] EXCEPT !.running = None, !.doc = None]]
    BY DEF Ended
  <2>4. QED
    BY <2>1, <2>2, <2>3
<1>4. j.call \in Calls \cup {None}
  BY <1>1 DEF Jobs
<1>5. ready' \in Seq(Entries)
  <2>1. CASE j.call = None
    BY <2>1 DEF Ended, TypeInv, ThreadTypes
  <2>2. CASE j.call # None
    <3>1. [call |-> j.call, result |-> "ok", seen |-> s] \in Entries
      BY <1>4, <2>2 DEF Entries
    <3>2. QED
      BY <2>2, <3>1, Appended DEF Ended, TypeInv, ThreadTypes
  <2>3. QED
    BY <2>1, <2>2
<1>6. QED
  BY <1>1, <1>2, <1>3, <1>4, <1>5, ThreadPut DEF Ended

LEMMA ReplacementIs == NewExecutor \in Executor
<1>1. <<>> \in Seq(Queued)
  OBVIOUS
<1>2. QED
  BY <1>1 DEF NewExecutor, Executor, Placed

\* A cancelled call's jobs, queued or running.
LEMMA LeftIs ==
  ASSUME TypeInv, NEW c \in Calls
  PROVE  /\ Left(c) \in Seq(Executor) /\ Left(c) # <<>> /\ Len(Left(c)) = Len(executors)
         /\ \A x \in DOMAIN executors :
              Left(c)[x] = [queue |-> Without(executors[x].queue, c),
                            running |-> IF executors[x].running # None /\ executors[x].running.call = c
                                        THEN [executors[x].running EXCEPT !.call = None]
                                        ELSE executors[x].running,
                            doc |-> executors[x].doc]
<1>1. ASSUME NEW x \in DOMAIN executors
      PROVE  /\ Left(c)[x] = [queue |-> Without(executors[x].queue, c),
                            running |-> IF executors[x].running # None /\ executors[x].running.call = c
                                        THEN [executors[x].running EXCEPT !.call = None]
                                        ELSE executors[x].running,
                            doc |-> executors[x].doc]
             /\ Left(c)[x] \in Executor
  <2> DEFINE j == executors[x].running
             k == IF j # None /\ j.call = c THEN [j EXCEPT !.call = None] ELSE j
             q == Without(executors[x].queue, c)
  <2>1. Left(c)[x] = [executors[x] EXCEPT !.queue = q, !.running = k]
    BY DEF Left
  <2>2. j \in Jobs \cup {None} /\ q \in Seq(Queued) /\ executors[x].doc \in Docs \cup {None} /\ executors[x] \in Executor
        /\ Placed(j, executors[x].doc)
    BY ExecutorIs, WithoutIs
  <2>3. k \in Jobs \cup {None} /\ Placed(k, executors[x].doc)
    BY <2>2 DEF Jobs, Placed
  <2> HIDE DEF q, k
  <2>4. Left(c)[x] = [queue |-> q, running |-> k, doc |-> executors[x].doc]
    <3>1. PICK r \in Executor : r = executors[x]
      BY <2>2
    <3>2. [r EXCEPT !.queue = q, !.running = k] = [queue |-> q, running |-> k, doc |-> r.doc]
      BY QueueRunningPut
    <3>3. QED
      BY <2>1, <3>1, <3>2
  <2>5. Left(c)[x] \in Executor
    BY <2>2, <2>3, <2>4 DEF Executor
  <2>6. QED
    BY <2>4, <2>5 DEF q, k
<1>2. Len(executors) \in Nat /\ DOMAIN executors = 1..Len(executors) /\ Len(executors) # 0
  BY Members DEF TypeInv, ThreadTypes
<1>3. DOMAIN Left(c) = DOMAIN executors /\ Left(c) = [x \in 1..Len(executors) |-> Left(c)[x]]
  BY <1>2 DEF Left
<1>4. Left(c) \in [1..Len(executors) -> Executor]
  BY <1>1, <1>2, <1>3
<1>5. Left(c) \in Seq(Executor) /\ Len(Left(c)) = Len(executors)
  BY <1>2, <1>4
<1>6. QED
  BY <1>1, <1>2, <1>5, Members

-------------------------------------------------------------------------------
(* The records of the calls *)

Rec(kind, at, to, jobs, left, force, valid, seen, given) ==
  [kind |-> kind, at |-> at, to |-> to, jobs |-> jobs, left |-> left,
   force |-> force, valid |-> valid, seen |-> seen, given |-> given]

\* A call that starts.
LEMMA NewIs ==
  ASSUME NEW kind, NEW at, NEW to
  PROVE  New(kind, at, to) = Rec(kind, at, to, 0, 0, FALSE, FALSE, Unseen,
                                 IF kind = "check" THEN promised ELSE None)
<1>1. PICK none : none = "none"
  OBVIOUS
<1>2. PICK idle : idle = "idle"
  OBVIOUS
<1>3. PICK zero : zero = 0
  OBVIOUS
<1>4. PICK no : no = FALSE
  OBVIOUS
<1>5. PICK given : given = IF kind = "check" THEN promised ELSE None
  OBVIOUS
<1>6. PICK r : r = Rec(none, idle, None, zero, zero, no, no, Unseen, None)
  OBVIOUS
<1>7. r = Idle
  BY <1>1, <1>2, <1>3, <1>4, <1>6 DEF Idle, Rec
<1>8. PICK x : x = Rec(kind, idle, None, zero, zero, no, no, Unseen, None)
  OBVIOUS
<1>9. PICK y : y = Rec(kind, at, None, zero, zero, no, no, Unseen, None)
  OBVIOUS
<1>10. PICK z : z = Rec(kind, at, to, zero, zero, no, no, Unseen, None)
  OBVIOUS
<1>11. PICK n : n = Rec(kind, at, to, zero, zero, no, no, Unseen, given)
  OBVIOUS
<1>12. [r EXCEPT !.kind = kind] = x
  BY <1>6, <1>8 DEF Rec
<1>13. [x EXCEPT !.at = at] = y
  BY <1>8, <1>9 DEF Rec
<1>14. [y EXCEPT !.to = to] = z
  BY <1>9, <1>10 DEF Rec
<1>15. [z EXCEPT !.given = given] = n
  BY <1>10, <1>11 DEF Rec
<1>16. [r EXCEPT !.kind = kind, !.at = at, !.to = to, !.given = given]
        = [[[[r EXCEPT !.kind = kind] EXCEPT !.at = at] EXCEPT !.to = to] EXCEPT !.given = given]
  OBVIOUS
<1>17. New(kind, at, to) = n
  BY <1>5, <1>7, <1>12, <1>13, <1>14, <1>15, <1>16 DEF New
<1>18. QED
  BY <1>3, <1>4, <1>5, <1>11, <1>17

LEMMA RecOf ==
  ASSUME NEW r \in CallRecs
  PROVE  r = Rec(r.kind, r.at, r.to, r.jobs, r.left, r.force, r.valid, r.seen, r.given)
BY DEF CallRecs, Rec

\* A write that starts.
LEMMA NewWrite ==
  ASSUME NEW jobs
  PROVE  [New("write", "draw", None) EXCEPT !.jobs = jobs, !.left = jobs] =
           Rec("write", "draw", None, jobs, jobs, FALSE, FALSE, Unseen, None)
<1>1. PICK zero : zero = 0
  OBVIOUS
<1>2. PICK no : no = FALSE
  OBVIOUS
<1>3. PICK write : write = "write"
  OBVIOUS
<1>4. PICK draw : draw = "draw"
  OBVIOUS
<1>5. PICK r : r = Rec(write, draw, None, zero, zero, no, no, Unseen, None)
  OBVIOUS
<1>6. New("write", "draw", None) = r
  BY <1>1, <1>2, <1>3, <1>4, <1>5, NewIs
<1>7. PICK x : x = Rec(write, draw, None, jobs, zero, no, no, Unseen, None)
  OBVIOUS
<1>8. PICK y : y = Rec(write, draw, None, jobs, jobs, no, no, Unseen, None)
  OBVIOUS
<1>9. [r EXCEPT !.jobs = jobs] = x
  BY <1>5, <1>7 DEF Rec
<1>10. [x EXCEPT !.left = jobs] = y
  BY <1>7, <1>8 DEF Rec
<1>11. [r EXCEPT !.jobs = jobs, !.left = jobs] = [[r EXCEPT !.jobs = jobs] EXCEPT !.left = jobs]
  OBVIOUS
<1>12. QED
  BY <1>2, <1>3, <1>4, <1>6, <1>8, <1>9, <1>10, <1>11

\* A call goes on with what its job read.
LEMMA SeenPut ==
  ASSUME NEW r \in CallRecs, NEW at, NEW s
  PROVE  [r EXCEPT !.at = at, !.seen = s] =
           Rec(r.kind, at, r.to, r.jobs, r.left, r.force, r.valid, s, r.given)
<1>1. PICK f : f = Rec(r.kind, at, r.to, r.jobs, r.left, r.force, r.valid, r.seen, r.given)
  OBVIOUS
<1>2. [r EXCEPT !.at = at] = f
  BY <1>1, RecOf DEF Rec
<1>3. [f EXCEPT !.seen = s] = Rec(r.kind, at, r.to, r.jobs, r.left, r.force, r.valid, s, r.given)
  BY <1>1 DEF Rec
<1>4. [r EXCEPT !.at = at, !.seen = s] = [[r EXCEPT !.at = at] EXCEPT !.seen = s]
  OBVIOUS
<1>5. QED
  BY <1>2, <1>3, <1>4

LEMMA ValidPut ==
  ASSUME NEW r \in CallRecs, NEW at, NEW v
  PROVE  [r EXCEPT !.at = at, !.valid = v] =
           Rec(r.kind, at, r.to, r.jobs, r.left, r.force, v, r.seen, r.given)
<1>1. PICK f : f = Rec(r.kind, at, r.to, r.jobs, r.left, r.force, r.valid, r.seen, r.given)
  OBVIOUS
<1>2. [r EXCEPT !.at = at] = f
  BY <1>1, RecOf DEF Rec
<1>3. [f EXCEPT !.valid = v] = Rec(r.kind, at, r.to, r.jobs, r.left, r.force, v, r.seen, r.given)
  BY <1>1 DEF Rec
<1>4. [r EXCEPT !.at = at, !.valid = v] = [[r EXCEPT !.at = at] EXCEPT !.valid = v]
  OBVIOUS
<1>5. QED
  BY <1>2, <1>3, <1>4

\* The fields of a record written out.
LEMMA RecIs ==
  ASSUME NEW k, NEW a, NEW t, NEW j, NEW l, NEW f, NEW v, NEW s, NEW g
  PROVE  LET r == Rec(k, a, t, j, l, f, v, s, g) IN
           /\ r.kind = k /\ r.at = a /\ r.to = t /\ r.jobs = j /\ r.left = l
           /\ r.force = f /\ r.valid = v /\ r.seen = s /\ r.given = g
           /\ k \in Kinds \cup {"none"} /\ a \in Places /\ t \in Docs \cup {None} /\ j \in Nat /\ l \in Nat
              /\ f \in BOOLEAN /\ v \in BOOLEAN /\ s \in Seens /\ g \in Promises \cup {None} => r \in CallRecs
BY DEF Rec, CallRecs

\* An entry of call that changes by one EXCEPT.
LEMMA SeenGoes ==
  ASSUME TypeInv, NEW c \in Calls, NEW at \in Places, NEW s \in Seens,
         call' = [call EXCEPT ![c].at = at, ![c].seen = s]
  PROVE  /\ call' = [call EXCEPT ![c] = Rec(call[c].kind, at, call[c].to, call[c].jobs, call[c].left,
                                            call[c].force, call[c].valid, s, call[c].given)]
         /\ Rec(call[c].kind, at, call[c].to, call[c].jobs, call[c].left,
                call[c].force, call[c].valid, s, call[c].given) \in CallRecs
<1>1. PICK r \in CallRecs : r = call[c]
  BY CallIs
<1>2. [r EXCEPT !.at = at, !.seen = s] = Rec(r.kind, at, r.to, r.jobs, r.left, r.force, r.valid, s, r.given)
  BY SeenPut
<1>3. call' = [call EXCEPT ![c] = [call[c] EXCEPT !.at = at, !.seen = s]]
  OBVIOUS
<1>4. Rec(r.kind, at, r.to, r.jobs, r.left, r.force, r.valid, s, r.given) \in CallRecs
  BY <1>1, CallIs, RecIs
<1>5. QED
  BY <1>1, <1>2, <1>3, <1>4

LEMMA ValidGoes ==
  ASSUME TypeInv, NEW c \in Calls, NEW at \in Places, NEW v \in BOOLEAN,
         call' = [call EXCEPT ![c].at = at, ![c].valid = v]
  PROVE  /\ call' = [call EXCEPT ![c] = Rec(call[c].kind, at, call[c].to, call[c].jobs, call[c].left,
                                            call[c].force, v, call[c].seen, call[c].given)]
         /\ Rec(call[c].kind, at, call[c].to, call[c].jobs, call[c].left,
                call[c].force, v, call[c].seen, call[c].given) \in CallRecs
<1>1. PICK r \in CallRecs : r = call[c]
  BY CallIs
<1>2. [r EXCEPT !.at = at, !.valid = v] = Rec(r.kind, at, r.to, r.jobs, r.left, r.force, v, r.seen, r.given)
  BY ValidPut
<1>3. call' = [call EXCEPT ![c] = [call[c] EXCEPT !.at = at, !.valid = v]]
  OBVIOUS
<1>4. Rec(r.kind, at, r.to, r.jobs, r.left, r.force, v, r.seen, r.given) \in CallRecs
  BY <1>1, CallIs, RecIs
<1>5. QED
  BY <1>1, <1>2, <1>3, <1>4

\* A call whose job ended goes on.
LEMMA ResumesIs ==
  ASSUME TypeInv, NEW c \in Calls, NEW at, NEW result, Resumes(c, at, result)
  PROVE  /\ ready # <<>> /\ Report \in Seens /\ ready' = Tail(ready) /\ ready' \in Seq(Entries)
         /\ ready[1].call = c /\ ready[1].result = result /\ ready[1].seen = Report
         /\ 1 \in DOMAIN ready /\ call[c].at = at
         /\ UNCHANGED <<seat, bound, edits, alone, made, clicks>>
<1>1. ready \in Seq(Entries) /\ ready # <<>>
  BY DEF TypeInv, ThreadTypes, Resumes
<1>2. /\ Tail(ready) \in Seq(Entries) /\ Head(ready) = ready[1] /\ Head(ready) \in Entries /\ 1 \in DOMAIN ready
  BY <1>1, TailIs
<1>3. QED
  BY <1>1, <1>2 DEF Resumes, Report, Entries

-------------------------------------------------------------------------------
(* Every step keeps the types: the client's calls *)

LEMMA BumpedIs ==
  ASSUME TypeInv
  PROVE  /\ Bumped \in [Docs -> Nat]
         /\ \A d \in Docs : Bumped[d] = IF bound = d THEN rev[d] + 1 ELSE rev[d]
BY NoneIs DEF TypeInv, SeatTypes, Bumped

\* What a session, a client and a memory are that a step hardly touches.
LEMMA SeatStays ==
  ASSUME TypeInv, UNCHANGED <<seat, bound, edits>>, rev' \in [Docs -> Nat]
  PROVE  SeatTypes'
BY DEF TypeInv, SeatTypes, seat

LEMMA StartTypes ==
  ASSUME TypeInv, NEW c \in Calls, NEW kind, Start(c, kind)
  PROVE  /\ SeatTypes' /\ ready' \in Seq(Entries) /\ promised' \in Promises \cup {None}
         /\ alone' \in Calls \cup {None} /\ gate' = gate /\ gate \in Calls \cup {None}
         /\ call[c].at = "idle" /\ kind \in Kinds
BY DEF TypeInv, SeatTypes, ThreadTypes, MemoryTypes, GateIs, Start, seat, session, InFlight

LEMMA StartWriteTypes ==
  ASSUME TypeInv, NEW c \in Calls, NEW jobs \in 1..Slices, StartWrite(c, jobs)
  PROVE  TypeInv'
<1> DEFINE r == Rec("write", "draw", None, jobs, jobs, FALSE, FALSE, Unseen, None)
<1>1. Start(c, "write") /\ cache' = None
      /\ executors' = [executors EXCEPT ![Current].queue = Append(@, Job(c, "draw"))]
  BY DEF StartWrite, Submits
<1>2. jobs \in Nat /\ jobs >= 1
  BY SeatAssumption
<1>3. call' = [Retired EXCEPT ![c] = r]
  BY NewWrite DEF StartWrite
<1>4. /\ r.kind = "write" /\ r.at = "draw" /\ r.jobs = jobs /\ r.left = jobs
      /\ r \in CallRecs
  <2>1. "write" \in Kinds
    BY <1>1 DEF Start
  <2>2. "draw" \in Places /\ Unseen \in Seens
    BY SeenIs DEF Places, Waiting
  <2>3. QED
    BY <1>2, <2>1, <2>2 DEF Rec, CallRecs
<1> HIDE DEF r
<1>5. Fits(r)
  BY <1>2, <1>4 DEF Fits
<1>6. CallTypes' /\ call'[c] = r /\ \A d \in Calls \ {c} : call'[d] = Retired[d]
  BY <1>3, <1>4, <1>5, RetiredIs, CallsPut
<1>7. \A d \in Calls \ {c} : call'[d].at = call[d].at
  BY <1>6, RetiredIs
<1>8. GateIs'
  BY <1>1, <1>4, <1>6, <1>7, StartTypes, GateStays
<1>9. Job(c, "draw") \in Queued
  BY JobIs DEF Works
<1>10. executors' \in Seq(Executor) /\ executors' # <<>>
  BY <1>1, <1>9, SubmitIs
<1>11. QED
  BY <1>1, <1>6, <1>8, <1>10, StartTypes DEF TypeInv, ThreadTypes, MemoryTypes

LEMMA StartReadTypes ==
  ASSUME TypeInv, NEW c \in Calls, NEW kind \in Kinds, StartRead(c, kind)
  PROVE  TypeInv'
<1> DEFINE r == Rec(kind, "read", None, 0, 0, FALSE, FALSE, Unseen, IF kind = "check" THEN promised ELSE None)
<1>1. Start(c, kind) /\ cache' = cache /\ kind \in {"look", "detail", "preview", "check"}
      /\ executors' = [executors EXCEPT ![Current].queue = Append(@, Job(c, "read"))]
  BY DEF StartRead, Submits
<1>2. call' = [call EXCEPT ![c] = r]
  BY NewIs DEF StartRead
<1>3. /\ r.kind = kind /\ r.at = "read" /\ r.jobs = 0 /\ r.left = 0
      /\ r \in CallRecs
  <2>1. "read" \in Places /\ Unseen \in Seens /\ promised \in Promises \cup {None}
    BY SeenIs DEF Places, Waiting, TypeInv, MemoryTypes
  <2>2. (IF kind = "check" THEN promised ELSE None) \in Promises \cup {None}
    BY <2>1
  <2>3. QED
    BY <2>1, <2>2 DEF Rec, CallRecs
<1> HIDE DEF r
<1>4. Fits(r)
  BY <1>1, <1>3 DEF Fits
<1>5. CallTypes' /\ call'[c] = r /\ \A d \in Calls \ {c} : call'[d] = call[d]
  BY <1>2, <1>3, <1>4, CallPut
<1>6. GateIs'
  BY <1>1, <1>3, <1>5, StartTypes, GateStays
<1>7. Job(c, "read") \in Queued
  BY JobIs DEF Works
<1>8. executors' \in Seq(Executor) /\ executors' # <<>>
  BY <1>1, <1>7, SubmitIs
<1>9. cache' # None => cache'.seen \in Seens
  BY <1>1 DEF TypeInv, MemoryTypes
<1>10. QED
  BY <1>1, <1>5, <1>6, <1>8, <1>9, StartTypes DEF TypeInv, ThreadTypes, MemoryTypes

LEMMA StartChooseTypes ==
  ASSUME TypeInv, NEW c \in Calls, NEW d \in Docs, StartChoose(c, d)
  PROVE  TypeInv'
<1> DEFINE r == Rec("choose", "select", d, 0, 0, FALSE, FALSE, Unseen, None)
           j == [Job(c, "select") EXCEPT !.to = d]
<1>1. Start(c, "choose") /\ cache' = cache
      /\ executors' = [executors EXCEPT ![Current].queue = Append(@, j)]
  BY DEF StartChoose
<1>2. call' = [call EXCEPT ![c] = r]
  BY NewIs DEF StartChoose
<1>3. /\ r.kind = "choose" /\ r.at = "select" /\ r.jobs = 0 /\ r.left = 0
      /\ r \in CallRecs
  <2>1. "choose" \in Kinds
    BY <1>1 DEF Start
  <2>2. "select" \in Places /\ Unseen \in Seens
    BY SeenIs DEF Places, Waiting
  <2>3. QED
    BY <2>1, <2>2 DEF Rec, CallRecs
<1>4. j \in Queued
  BY DEF Job, Jobs, Works, Queued
<1> HIDE DEF r, j
<1>5. Fits(r)
  BY <1>3 DEF Fits
<1>6. CallTypes' /\ call'[c] = r /\ \A e \in Calls \ {c} : call'[e] = call[e]
  BY <1>2, <1>3, <1>5, CallPut
<1>7. GateIs'
  BY <1>1, <1>3, <1>6, StartTypes, GateStays
<1>8. executors' \in Seq(Executor) /\ executors' # <<>>
  BY <1>1, <1>4, SubmitIs
<1>9. cache' # None => cache'.seen \in Seens
  BY <1>1 DEF TypeInv, MemoryTypes
<1>10. QED
  BY <1>1, <1>6, <1>7, <1>8, <1>9, StartTypes DEF TypeInv, ThreadTypes, MemoryTypes

LEMMA CancelTypes ==
  ASSUME TypeInv, NEW c \in Calls, Cancel(c)
  PROVE  TypeInv'
<1>1. Ends(c) /\ executors' = Left(c) /\ ready' = Without(ready, c) /\ rev' = LeftRevision(c)
      /\ UNCHANGED <<seat, bound, edits, cache, promised, alone>>
  BY DEF Cancel
<1>2. rev' \in [Docs -> Nat]
  BY <1>1, BumpedIs DEF LeftRevision, TypeInv, SeatTypes
<1>3. ready' \in Seq(Entries)
  BY <1>1, WithoutIs DEF TypeInv, ThreadTypes
<1>4. SeatTypes'
  BY <1>1, <1>2, SeatStays
<1>5. MemoryTypes'
  BY <1>1 DEF TypeInv, MemoryTypes
<1>6. QED
  BY <1>1, <1>3, <1>4, <1>5, EndsTypes, LeftIs DEF TypeInv, ThreadTypes

-------------------------------------------------------------------------------
(* Every step keeps the types: the COM thread *)

LEMMA BeginTypes ==
  ASSUME TypeInv, NEW x \in DOMAIN executors, BeginUnguarded(x) \/ Refuse(x)
  PROVE  TypeInv'
<1>1. /\ UNCHANGED <<seat, session, call, memory, promised, alone>>
      /\ MayBegin(x)
  BY DEF BeginUnguarded, Refuse
<1>2. executors' \in Seq(Executor) /\ executors' # <<>>
  BY <1>1, BegunIs DEF BeginUnguarded, Refuse, Placed, Guarded, Unguarded
<1>3. ready' \in Seq(Entries)
  <2>1. CASE BeginUnguarded(x)
    BY <2>1 DEF BeginUnguarded, TypeInv, ThreadTypes
  <2>2. CASE Refuse(x) /\ NextJob(x).call \in Calls
    <3>1. [call |-> NextJob(x).call, result |-> "refused", seen |-> Unseen] \in Entries
      BY <2>2, SeenIs DEF Entries
    <3>2. QED
      BY <2>2, <3>1, Appended DEF Refuse, TypeInv, ThreadTypes
  <2>3. NextJob(x).call \in Calls
    BY <1>1, BegunIs DEF Queued
  <2>4. QED
    BY <2>1, <2>2, <2>3
<1>4. SeatTypes' /\ CallTypes' /\ GateIs' /\ MemoryTypes'
  BY <1>1 DEF TypeInv, SeatTypes, CallTypes, GateIs, MemoryTypes, seat, session, memory
<1>5. QED
  BY <1>2, <1>3, <1>4 DEF TypeInv, ThreadTypes

LEMMA GuardTypes ==
  ASSUME TypeInv, NEW x \in DOMAIN executors, Guard(x)
  PROVE  TypeInv'
<1>1. /\ MayBegin(x) /\ Begun(x, active) /\ bound' = active
      /\ edits' = [edits EXCEPT ![active] = Changes(active)]
      /\ UNCHANGED <<seat, ready, gate, promised, alone>>
      /\ rev' = IF Outside(active) THEN [rev EXCEPT ![active] = @ + 1] ELSE rev
      /\ IF bound = None THEN cache' = None /\ call' = Retired ELSE UNCHANGED <<cache, call>>
  BY DEF Guard
<1>2. active \in Docs /\ Changes(active) \in Nat
  BY DEF TypeInv, SeatTypes, Changes, OperatorEdits, Parts
<1>3. executors' \in Seq(Executor) /\ executors' # <<>>
  BY <1>1, <1>2, BegunIs DEF Placed
<1>4. rev' \in [Docs -> Nat] /\ edits' \in [Docs -> Nat \cup {None}]
  BY <1>1, <1>2 DEF TypeInv, SeatTypes
<1>5. SeatTypes'
  BY <1>1, <1>2, <1>4 DEF TypeInv, SeatTypes, seat
<1>6. CallTypes'
  <2>1. CASE bound = None
    BY <1>1, <2>1, RetiredIs DEF CallTypes
  <2>2. CASE bound # None
    BY <1>1, <2>2 DEF TypeInv, CallTypes
  <2>3. QED
    BY <2>1, <2>2
<1>7. \A c \in Calls : call'[c].at = call[c].at
  BY <1>1, RetiredIs
<1>8. GateIs'
  BY <1>1, <1>7 DEF TypeInv, GateIs
<1>9. QED
  BY <1>1, <1>3, <1>5, <1>6, <1>8 DEF TypeInv, ThreadTypes, MemoryTypes

\* What an end leaves of the counts.
LEMMA AbsorbedIs ==
  ASSUME TypeInv, NEW counted \in BOOLEAN, Absorbed(counted), bound' = bound,
         content' \in [Docs -> [Parts -> Nat]]
  PROVE  /\ edits' \in [Docs -> Nat \cup {None}]
         /\ \A d \in Docs : edits'[d] = IF counted /\ d = bound /\ edits[d] # None
                                          THEN content'[d]["drawn"] + (content'[d]["listed"] + content'[d]["other"])
                                          ELSE edits[d]
<1>1. edits \in [Docs -> Nat \cup {None}] /\ bound \in Docs \cup {None} /\ None \notin Docs
  BY NoneIs DEF TypeInv, SeatTypes
<1>2. CASE bound \in Docs
  <2> DEFINE n == content'[bound]["drawn"] + (content'[bound]["listed"] + content'[bound]["other"])
  <2>1. n \in Nat
    BY <1>2 DEF Parts
  <2>2. edits' = IF counted /\ edits[bound] # None THEN [edits EXCEPT ![bound] = n] ELSE edits
    BY DEF Absorbed, Changes, OperatorEdits
  <2> HIDE DEF n
  <2>3. /\ edits' \in [Docs -> Nat \cup {None}]
        /\ \A d \in Docs : edits'[d] = IF counted /\ d = bound /\ edits[d] # None THEN n ELSE edits[d]
    BY <1>1, <1>2, <2>1, <2>2
  <2>4. QED
    BY <2>3 DEF n
<1>3. CASE bound \notin Docs
  BY <1>1, <1>3 DEF Absorbed
<1>4. QED
  BY <1>2, <1>3

LEMMA EndReadTypes ==
  ASSUME TypeInv, NEW x \in DOMAIN executors, NEW counted \in BOOLEAN, EndRead(x, counted)
  PROVE  TypeInv'
<1>1. /\ Ended(x, "read", Seen(executors[x].doc)) /\ Absorbed(counted)
      /\ UNCHANGED <<seat, bound, call, cache, rev, gate, promised, alone>>
  BY DEF EndRead, Ended
<1>2. Seen(executors[x].doc) \in Seens
  BY <1>1, ExecutorIs, SeenIs DEF Ended, Placed, Guarded
<1>3. executors' \in Seq(Executor) /\ executors' # <<>> /\ ready' \in Seq(Entries)
  BY <1>1, <1>2, EndedIs
<1>4. edits' \in [Docs -> Nat \cup {None}]
  BY <1>1, AbsorbedIs DEF TypeInv, SeatTypes, seat
<1>5. SeatTypes'
  BY <1>1, <1>4 DEF TypeInv, SeatTypes, seat
<1>6. QED
  BY <1>1, <1>3, <1>5 DEF TypeInv, CallTypes, GateIs, ThreadTypes, MemoryTypes

\* A draw adds to what the server drew in one document.
LEMMA DrawnIs ==
  ASSUME TypeInv, NEW d \in Docs, content' = [content EXCEPT ![d]["drawn"] = @ + 1]
  PROVE  /\ content' \in [Docs -> [Parts -> Nat]]
         /\ content'[d]["drawn"] = content[d]["drawn"] + 1
         /\ content'[d]["listed"] = content[d]["listed"] /\ content'[d]["other"] = content[d]["other"]
         /\ \A e \in Docs \ {d} : content'[e] = content[e]
<1>1. content[d] \in [Parts -> Nat] /\ content \in [Docs -> [Parts -> Nat]] /\ "drawn" \in Parts
  BY DEF TypeInv, SeatTypes, Parts
<1>2. [content[d] EXCEPT !["drawn"] = @ + 1] \in [Parts -> Nat]
  BY <1>1
<1>3. content' = [content EXCEPT ![d] = [content[d] EXCEPT !["drawn"] = @ + 1]]
  OBVIOUS
<1>4. QED
  BY <1>1, <1>2, <1>3 DEF Parts

LEMMA EndDrawTypes ==
  ASSUME TypeInv, NEW x \in DOMAIN executors, NEW counted \in BOOLEAN, EndDraw(x, counted)
  PROVE  TypeInv'
<1>1. /\ Ended(x, "draw", Unseen) /\ Absorbed(counted)
      /\ content' = [content EXCEPT ![executors[x].doc]["drawn"] = @ + 1]
      /\ UNCHANGED <<active, bound, call, cache, rev, gate, promised, alone>>
  BY DEF EndDraw, Ended
<1>2. executors' \in Seq(Executor) /\ executors' # <<>> /\ ready' \in Seq(Entries)
  BY <1>1, SeenIs, EndedIs
<1>3. executors[x].doc \in Docs
  BY <1>1, ExecutorIs DEF Ended, Placed, Guarded
<1>4. content' \in [Docs -> [Parts -> Nat]]
  BY <1>1, <1>3, DrawnIs
<1>5. edits' \in [Docs -> Nat \cup {None}]
  BY <1>1, <1>4, AbsorbedIs
<1>6. SeatTypes'
  BY <1>1, <1>4, <1>5 DEF TypeInv, SeatTypes
<1>7. QED
  BY <1>1, <1>2, <1>6 DEF TypeInv, CallTypes, GateIs, ThreadTypes, MemoryTypes

LEMMA EndSelectTypes ==
  ASSUME TypeInv, NEW x \in DOMAIN executors, EndSelect(x)
  PROVE  TypeInv'
<1>1. /\ Ended(x, "select", Unseen) /\ active' = executors[x].running.to
      /\ UNCHANGED <<content, bound, edits, call, cache, rev, gate, promised, alone>>
  BY DEF EndSelect, Ended
<1>2. executors' \in Seq(Executor) /\ executors' # <<>> /\ ready' \in Seq(Entries)
      /\ executors[x].running \in Jobs /\ executors[x].running.does = "select"
  BY <1>1, SeenIs, EndedIs
<1>3. active' \in Docs
  BY <1>1, <1>2 DEF Jobs
<1>4. SeatTypes'
  BY <1>1, <1>3 DEF TypeInv, SeatTypes
<1>5. QED
  BY <1>1, <1>2, <1>4 DEF TypeInv, CallTypes, GateIs, ThreadTypes, MemoryTypes

LEMMA EndRebindTypes ==
  ASSUME TypeInv, NEW x \in DOMAIN executors, EndRebind(x)
  PROVE  TypeInv'
<1>1. /\ Ended(x, "rebind", Unseen) /\ bound' = active /\ cache' = None /\ call' = Retired
      /\ UNCHANGED <<seat, edits, rev, gate, promised, alone>>
  BY DEF EndRebind, Ended
<1>2. executors' \in Seq(Executor) /\ executors' # <<>> /\ ready' \in Seq(Entries)
  BY <1>1, SeenIs, EndedIs
<1>3. SeatTypes'
  BY <1>1 DEF TypeInv, SeatTypes, seat
<1>4. CallTypes'
  BY <1>1, RetiredIs DEF CallTypes
<1>5. GateIs'
  BY <1>1, RetiredIs DEF TypeInv, GateIs
<1>6. QED
  BY <1>1, <1>2, <1>3, <1>4, <1>5 DEF TypeInv, ThreadTypes, MemoryTypes

-------------------------------------------------------------------------------
(* Every step keeps the types: the event loop *)

LEMMA NextSliceTypes ==
  ASSUME TypeInv, NEW c \in Calls, NextSlice(c)
  PROVE  TypeInv'
<1> DEFINE r == [call[c] EXCEPT !.left = @ - 1]
<1>1. /\ Resumes(c, "draw", "ok") /\ call[c].left > 1 /\ cache' = None
      /\ call' = [Retired EXCEPT ![c] = r]
      /\ executors' = [executors EXCEPT ![Current].queue = Append(@, Job(c, "draw"))]
      /\ UNCHANGED <<rev, gate, promised>>
  BY DEF NextSlice, Submits
<1>2. call[c] \in CallRecs /\ Fits(call[c]) /\ call[c].left \in Nat /\ call[c].jobs \in Nat
      /\ call[c].at = "draw"
  BY <1>1, CallIs, ResumesIs
<1>3. r \in CallRecs /\ r.at = "draw" /\ Fits(r)
  BY <1>1, <1>2 DEF CallRecs, Fits
<1> HIDE DEF r
<1>4. CallTypes' /\ call'[c] = r /\ \A d \in Calls \ {c} : call'[d] = Retired[d]
  BY <1>1, <1>3, RetiredIs, CallsPut
<1>5. \A d \in Calls \ {c} : call'[d].at = call[d].at
  BY <1>4, RetiredIs
<1>6. GateIs'
  BY <1>1, <1>2, <1>3, <1>4, <1>5, GateStays
<1>7. Job(c, "draw") \in Queued
  BY JobIs DEF Works
<1>8. executors' \in Seq(Executor) /\ executors' # <<>>
  BY <1>1, <1>7, SubmitIs
<1>9. ready' \in Seq(Entries) /\ UNCHANGED <<seat, bound, edits, alone>>
  BY <1>1, ResumesIs
<1>10. SeatTypes'
  BY <1>1, <1>9, SeatStays DEF TypeInv, SeatTypes
<1>11. QED
  BY <1>1, <1>4, <1>6, <1>8, <1>9, <1>10 DEF TypeInv, ThreadTypes, MemoryTypes

\* The last answer of a call that reports nothing to remember.
LEMMA ReturnTypes ==
  ASSUME TypeInv, NEW c \in Calls,
         WriteReturns(c) \/ RefusalReturns(c) \/ ChooseReturns(c) \/ LookReturns(c)
  PROVE  TypeInv'
<1>1. /\ \E at \in {"draw", "read", "export", "rebind"}, result \in {"ok", "refused"} : Resumes(c, at, result)
      /\ Ends(c) /\ UNCHANGED <<executors, cache, promised>>
      /\ rev' \in {Bumped, rev}
  BY DEF WriteReturns, RefusalReturns, ChooseReturns, LookReturns
<1>2. ready' \in Seq(Entries) /\ UNCHANGED <<seat, bound, edits, alone>>
  BY <1>1, ResumesIs
<1>3. rev' \in [Docs -> Nat]
  BY <1>1, BumpedIs DEF TypeInv, SeatTypes
<1>4. SeatTypes'
  BY <1>2, <1>3, SeatStays
<1>5. QED
  BY <1>1, <1>2, <1>4, EndsTypes DEF TypeInv, ThreadTypes, MemoryTypes

LEMMA RebindTypes ==
  ASSUME TypeInv, NEW c \in Calls, Rebind(c)
  PROVE  TypeInv'
<1> DEFINE r == [call[c] EXCEPT !.at = "rebind"]
<1>1. /\ Resumes(c, "select", "ok") /\ call' = [call EXCEPT ![c] = r]
      /\ executors' = [executors EXCEPT ![Current].queue = Append(@, Job(c, "rebind"))]
      /\ UNCHANGED <<rev, memory, promised>>
  BY DEF Rebind, Submits, Goes
<1>2. call[c] \in CallRecs /\ Fits(call[c]) /\ call[c].at = "select"
  BY <1>1, CallIs, ResumesIs
<1>3. r \in CallRecs /\ r.at = "rebind" /\ Fits(r)
  BY <1>1, <1>2 DEF CallRecs, Fits, Places, Waiting
<1> HIDE DEF r
<1>4. CallTypes' /\ call'[c] = r /\ \A d \in Calls \ {c} : call'[d] = call[d]
  BY <1>1, <1>3, CallPut
<1>5. GateIs'
  BY <1>1, <1>2, <1>3, <1>4, GateStays DEF memory
<1>6. Job(c, "rebind") \in Queued
  BY JobIs DEF Works
<1>7. executors' \in Seq(Executor) /\ executors' # <<>>
  BY <1>1, <1>6, SubmitIs
<1>8. ready' \in Seq(Entries) /\ UNCHANGED <<seat, bound, edits, alone>>
  BY <1>1, ResumesIs
<1>9. SeatTypes'
  BY <1>1, <1>8, SeatStays DEF TypeInv, SeatTypes
<1>10. QED
  BY <1>1, <1>4, <1>5, <1>7, <1>8, <1>9 DEF TypeInv, ThreadTypes, MemoryTypes, memory

LEMMA RefreshTypes ==
  ASSUME TypeInv, NEW c \in Calls, Refresh(c)
  PROVE  TypeInv'
<1> DEFINE r == Rec(call[c].kind, "refresh", call[c].to, call[c].jobs, call[c].left,
                    call[c].force, call[c].valid, Report, call[c].given)
<1>1. /\ Resumes(c, "read", "ok") /\ call' = [call EXCEPT ![c].at = "refresh", ![c].seen = Report]
      /\ executors' = [executors EXCEPT ![Current].queue = Append(@, Job(c, "read"))]
      /\ UNCHANGED <<rev, memory, promised>> /\ call[c].kind \in {"preview", "check"}
  BY DEF Refresh, Submits
<1>2. call[c] \in CallRecs /\ Fits(call[c]) /\ call[c].at = "read" /\ Report \in Seens
  BY <1>1, CallIs, ResumesIs
<1>3. call' = [call EXCEPT ![c] = r] /\ r \in CallRecs
  BY <1>1, <1>2, SeenGoes DEF Places, Waiting
<1>4. r.at = "refresh" /\ r.kind = call[c].kind /\ r.jobs = call[c].jobs /\ r.left = call[c].left
  BY DEF Rec
<1> HIDE DEF r
<1>5. Fits(r)
  BY <1>1, <1>2, <1>4 DEF Fits
<1>6. CallTypes' /\ call'[c] = r /\ \A d \in Calls \ {c} : call'[d] = call[d]
  BY <1>3, <1>5, CallPut
<1>7. GateIs'
  BY <1>1, <1>2, <1>4, <1>6, GateStays DEF memory
<1>8. Job(c, "read") \in Queued
  BY JobIs DEF Works
<1>9. executors' \in Seq(Executor) /\ executors' # <<>>
  BY <1>1, <1>8, SubmitIs
<1>10. ready' \in Seq(Entries) /\ UNCHANGED <<seat, bound, edits, alone>>
  BY <1>1, ResumesIs
<1>11. SeatTypes'
  BY <1>1, <1>10, SeatStays DEF TypeInv, SeatTypes
<1>12. QED
  BY <1>1, <1>6, <1>7, <1>9, <1>10, <1>11 DEF TypeInv, ThreadTypes, MemoryTypes, memory

\* What make_preview promises.
LEMMA IdentityTypes ==
  ASSUME TypeInv, NEW c \in Calls, NEW s \in Seens, IdentityRead(c, s)
  PROVE  promised' \in Promises \cup {None}
<1>1. promised \in Promises \cup {None}
  BY DEF TypeInv, MemoryTypes
<1>2. Fingerprints(call[c].seen) \in (Docs \cup {None}) \X Nat
  BY CallIs, SeenIs
<1>3. Revision \in Nat \cup {None}
  BY DEF TypeInv, SeatTypes, Revision
<1>4. (IF alone = c THEN s ELSE Unseen) \in Seens
  BY SeenIs
<1>5. [prints |-> Fingerprints(call[c].seen), rev |-> Revision,
       whole |-> IF alone = c THEN s ELSE Unseen] \in Promises
  BY <1>2, <1>3, <1>4 DEF Promises
<1>6. QED
  BY <1>1, <1>5 DEF IdentityRead

LEMMA IdentityReturnsTypes ==
  ASSUME TypeInv, NEW c \in Calls, IdentityReturns(c)
  PROVE  TypeInv'
<1>1. /\ \E result \in {"ok", "refused"} : Resumes(c, "refresh", result)
      /\ IdentityRead(c, Report) /\ UNCHANGED executors
  BY DEF IdentityReturns
<1>2. Ends(c) /\ UNCHANGED <<rev, cache>>
  BY <1>1 DEF IdentityRead
<1>3. ready' \in Seq(Entries) /\ UNCHANGED <<seat, bound, edits, alone>> /\ Report \in Seens
  BY <1>1, ResumesIs
<1>4. SeatTypes'
  BY <1>2, <1>3, SeatStays DEF TypeInv, SeatTypes
<1>5. QED
  BY <1>1, <1>2, <1>3, <1>4, EndsTypes, IdentityTypes DEF TypeInv, ThreadTypes, MemoryTypes

\* entity_get and take_snapshot go on with what their jobs read.
LEMMA DetailTypes ==
  ASSUME TypeInv, NEW c \in Calls, Detail(c) \/ Parse(c)
  PROVE  TypeInv'
<1> DEFINE old == IF Detail(c) THEN "read" ELSE "export"
           at == IF Detail(c) THEN "gate" ELSE "parse"
           r == Rec(call[c].kind, at, call[c].to, call[c].jobs, call[c].left,
                    call[c].force, call[c].valid, Report, call[c].given)
<1>1. /\ Resumes(c, old, "ok") /\ call' = [call EXCEPT ![c].at = at, ![c].seen = Report]
      /\ UNCHANGED <<rev, memory, promised, executors>>
      /\ old = "read" => call[c].kind = "detail"
  <2>1. CASE Detail(c)
    BY <2>1 DEF Detail
  <2>2. CASE ~Detail(c)
    BY <2>2 DEF Parse
  <2>3. QED
    BY <2>1, <2>2
<1>2. (old = "read" /\ at = "gate") \/ (old = "export" /\ at = "parse")
  OBVIOUS
<1> HIDE DEF old, at
<1>3. call[c] \in CallRecs /\ Fits(call[c]) /\ call[c].at = old /\ Report \in Seens
  BY <1>1, CallIs, ResumesIs
<1>4. call' = [call EXCEPT ![c] = r] /\ r \in CallRecs
  <2>1. at \in Places
    BY <1>2 DEF Places
  <2>2. QED
    BY <1>1, <1>3, <2>1, SeenGoes
<1>5. r.at = at /\ r.kind = call[c].kind /\ r.jobs = call[c].jobs /\ r.left = call[c].left
  BY DEF Rec
<1> HIDE DEF r
<1>6. Fits(r)
  BY <1>1, <1>2, <1>3, <1>5 DEF Fits
<1>7. CallTypes' /\ call'[c] = r /\ \A d \in Calls \ {c} : call'[d] = call[d]
  BY <1>4, <1>6, CallPut
<1>8. GateIs'
  BY <1>1, <1>2, <1>3, <1>5, <1>7, GateStays DEF memory
<1>9. ready' \in Seq(Entries) /\ UNCHANGED <<seat, bound, edits, alone>>
  BY <1>1, ResumesIs
<1>10. SeatTypes'
  BY <1>1, <1>9, SeatStays DEF TypeInv, SeatTypes
<1>11. QED
  BY <1>1, <1>7, <1>8, <1>9, <1>10 DEF TypeInv, ThreadTypes, MemoryTypes, memory

LEMMA ReuseTypes ==
  ASSUME TypeInv, NEW c \in Calls, Reuse(c)
  PROVE  TypeInv'
<1>1. /\ UNCHANGED <<seat, session, ready, alone, executors, cache, promised>>
      /\ Ends(c) \/ (call' = [call EXCEPT ![c].force = TRUE] /\ gate' = gate)
  BY DEF Reuse, Enters
<1>2. CallTypes' /\ GateIs'
  <2>1. CASE Ends(c)
    BY <2>1, EndsTypes
  <2>2. CASE call' = [call EXCEPT ![c].force = TRUE] /\ gate' = gate
    <3> DEFINE r == [call[c] EXCEPT !.force = TRUE]
    <3>1. call[c] \in CallRecs /\ Fits(call[c])
      BY CallIs
    <3>2. r \in CallRecs /\ r.at = call[c].at /\ Fits(r)
      BY <3>1 DEF CallRecs, Fits
    <3>3. call' = [call EXCEPT ![c] = r]
      BY <2>2
    <3> HIDE DEF r
    <3>4. CallTypes' /\ call'[c] = r /\ \A d \in Calls \ {c} : call'[d] = call[d]
      BY <3>2, <3>3, CallPut
    <3>5. QED
      BY <2>2, <3>2, <3>4, GateStays
  <2>3. QED
    BY <1>1, <2>1, <2>2
<1>3. SeatTypes' /\ ThreadTypes' /\ MemoryTypes'
  BY <1>1 DEF TypeInv, SeatTypes, ThreadTypes, MemoryTypes, seat, session
<1>4. QED
  BY <1>2, <1>3 DEF TypeInv

LEMMA ExportTypes ==
  ASSUME TypeInv, NEW c \in Calls, Export(c)
  PROVE  TypeInv'
<1> DEFINE r == Rec(call[c].kind, "export", call[c].to, call[c].jobs, call[c].left,
                    call[c].force, TRUE, call[c].seen, call[c].given)
<1>1. /\ call[c].at = "gate" /\ gate = None /\ gate' = c /\ cache' = None
      /\ call' = [call EXCEPT ![c].at = "export", ![c].valid = TRUE]
      /\ executors' = [executors EXCEPT ![Current].queue = Append(@, Job(c, "read"))]
      /\ UNCHANGED <<seat, session, ready, alone, promised>>
  BY DEF Export, Enters, Submits
<1>2. call[c] \in CallRecs /\ Fits(call[c])
  BY CallIs
<1>3. call' = [call EXCEPT ![c] = r] /\ r \in CallRecs
  <2>1. "export" \in Places /\ TRUE \in BOOLEAN
    BY DEF Places, Waiting
  <2>2. QED
    BY <1>1, <2>1, ValidGoes
<1>4. r.at = "export" /\ r.kind = call[c].kind /\ r.jobs = call[c].jobs /\ r.left = call[c].left
  BY DEF Rec
<1> HIDE DEF r
<1>5. Fits(r)
  BY <1>1, <1>2, <1>4 DEF Fits
<1>6. CallTypes' /\ call'[c] = r /\ \A d \in Calls \ {c} : call'[d] = call[d]
  BY <1>3, <1>5, CallPut
<1>7. GateIs'
  BY <1>1, <1>4, <1>6, NoneIs DEF TypeInv, GateIs
<1>8. Job(c, "read") \in Queued
  BY JobIs DEF Works
<1>9. executors' \in Seq(Executor) /\ executors' # <<>>
  BY <1>1, <1>8, SubmitIs
<1>10. SeatTypes'
  BY <1>1 DEF TypeInv, SeatTypes, seat, session
<1>11. QED
  BY <1>1, <1>6, <1>7, <1>9, <1>10 DEF TypeInv, ThreadTypes, MemoryTypes

LEMMA ParsedTypes ==
  ASSUME TypeInv, NEW c \in Calls, Parsed(c)
  PROVE  TypeInv'
<1>1. /\ Ends(c) /\ UNCHANGED <<seat, session, executors, ready, promised, alone>>
      /\ cache' = IF MayStore(c) THEN [key |-> Key, seen |-> call[c].seen] ELSE cache
  BY DEF Parsed
<1>2. call[c].seen \in Seens
  BY CallIs
<1>3. MemoryTypes'
  BY <1>1, <1>2 DEF TypeInv, MemoryTypes
<1>4. SeatTypes' /\ ThreadTypes'
  BY <1>1 DEF TypeInv, SeatTypes, ThreadTypes, seat, session
<1>5. QED
  BY <1>1, <1>3, <1>4, EndsTypes DEF TypeInv

\* A deadline, and what the operator and the clock do.
LEMMA DeadlineTypes ==
  ASSUME TypeInv, NEW c \in Calls, Deadline(c) \/ RefreshOverruns(c)
  PROVE  TypeInv'
<1>1. /\ Overruns(c) /\ Ends(c) /\ UNCHANGED cache
      /\ rev' \in {LeftRevision(c), rev}
      /\ promised' = promised \/ IdentityRead(c, Unseen)
  BY DEF Deadline, RefreshOverruns, IdentityRead
<1>2. executors' = Append(Left(c), NewExecutor) /\ UNCHANGED <<seat, bound, edits, ready, alone>>
  BY <1>1 DEF Overruns
<1>3. NewExecutor \in Executor
  BY ReplacementIs
<1>4. executors' \in Seq(Executor) /\ executors' # <<>>
  <2>1. Left(c) \in Seq(Executor)
    BY LeftIs
  <2>2. PICK s \in Seq(Executor) : s = Left(c)
    BY <2>1
  <2>3. Append(s, NewExecutor) \in Seq(Executor) /\ Append(s, NewExecutor) # <<>>
    BY <1>3, Appended, Members
  <2>4. QED
    BY <1>2, <2>2, <2>3
<1>5. rev' \in [Docs -> Nat]
  BY <1>1, BumpedIs DEF LeftRevision, TypeInv, SeatTypes
<1>6. SeatTypes'
  BY <1>2, <1>5, SeatStays
<1>7. promised' \in Promises \cup {None}
  BY <1>1, IdentityTypes, SeenIs DEF TypeInv, MemoryTypes
<1>8. QED
  BY <1>1, <1>2, <1>4, <1>6, <1>7, EndsTypes DEF TypeInv, ThreadTypes, MemoryTypes

LEMMA OperatorTypes ==
  ASSUME TypeInv, (\E d \in Docs : Click(d)) \/ (\E p \in Parts : Edit(p))
  PROVE  TypeInv'
<1>1. /\ UNCHANGED <<session, executors, ready, call, memory, promised, alone>>
      /\ active' \in Docs
  BY DEF Click, Edit, TypeInv, SeatTypes
<1>2. content' \in [Docs -> [Parts -> Nat]]
  <2>1. CASE \E d \in Docs : Click(d)
    BY <2>1 DEF Click, TypeInv, SeatTypes
  <2>2. CASE \E p \in Parts : Edit(p)
    <3>1. PICK p \in Parts : content' = [content EXCEPT ![active][p] = @ + 1]
      BY <2>2 DEF Edit
    <3>2. content[active] \in [Parts -> Nat] /\ active \in Docs /\ content \in [Docs -> [Parts -> Nat]]
      BY DEF TypeInv, SeatTypes
    <3>3. [content[active] EXCEPT ![p] = @ + 1] \in [Parts -> Nat]
      BY <3>2
    <3>4. content' = [content EXCEPT ![active] = [content[active] EXCEPT ![p] = @ + 1]]
      BY <3>1
    <3>5. QED
      BY <3>2, <3>3, <3>4
  <2>3. QED
    BY <2>1, <2>2
<1>3. QED
  BY <1>1, <1>2 DEF TypeInv, SeatTypes, CallTypes, GateIs, ThreadTypes, MemoryTypes, session, memory

LEMMA TypeNext ==
  ASSUME TypeInv, [Next]_vars
  PROVE  TypeInv'
<1>1. CASE Next
  <2>1. CASE \E c \in Calls : Client(c)
    BY <2>1, StartWriteTypes, StartChooseTypes, StartReadTypes, CancelTypes DEF Client
  <2>2. CASE \E c \in Calls : Loop(c)
    <3>1. PICK c \in Calls : Loop(c)
      BY <2>2
    <3>2. QED
      BY <3>1, NextSliceTypes, ReturnTypes, RebindTypes, RefreshTypes, IdentityReturnsTypes,
         DetailTypes, ReuseTypes, ExportTypes, ParsedTypes DEF Loop
  <2>3. CASE \E x \in DOMAIN executors : ComThread(x)
    <3>1. PICK x \in DOMAIN executors : ComThread(x)
      BY <2>3
    <3>2. QED
      BY <3>1, BeginTypes, GuardTypes, EndReadTypes, EndDrawTypes, EndSelectTypes, EndRebindTypes DEF ComThread
  <2>4. CASE Timer
    <3>1. CASE Expire
      BY <3>1 DEF Expire, TypeInv, SeatTypes, CallTypes, GateIs, ThreadTypes, MemoryTypes, seat, session
    <3>2. CASE \E c \in Calls : Deadline(c) \/ RefreshOverruns(c)
      BY <3>2, DeadlineTypes
    <3>3. QED
      BY <2>4, <3>1, <3>2 DEF Timer
  <2>5. CASE Operator
    BY <2>5, OperatorTypes DEF Operator
  <2>6. QED
    BY <1>1, <2>1, <2>2, <2>3, <2>4, <2>5 DEF Next
<1>2. CASE UNCHANGED vars
  BY <1>2 DEF vars, seat, session, memory, client, TypeInv, SeatTypes, CallTypes, GateIs, ThreadTypes, MemoryTypes
<1>3. QED
  BY <1>1, <1>2

LEMMA TypeInit ==
  ASSUME Init
  PROVE  TypeInv
<1>1. SeatTypes
  BY DEF Init, SeatTypes, Parts
<1>2. CallTypes
  BY Idles DEF Init, CallTypes
<1>3. GateIs
  BY Idles, NoneIs DEF Init, GateIs
<1>4. NewExecutor \in Executor
  BY ReplacementIs
<1>5. executors \in Seq(Executor) /\ executors # <<>> /\ ready \in Seq(Entries)
  <2>1. executors = <<NewExecutor>> /\ ready = <<>>
    BY DEF Init
  <2>2. <<NewExecutor>> \in Seq(Executor) /\ <<NewExecutor>> # <<>> /\ <<>> \in Seq(Entries)
    BY <1>4
  <2>3. QED
    BY <2>1, <2>2
<1>6. MemoryTypes
  BY DEF Init, MemoryTypes
<1>7. QED
  BY <1>1, <1>2, <1>3, <1>5, <1>6 DEF TypeInv, ThreadTypes

LEMMA TypeAlways == Spec => []TypeInv
<1>1. Init => TypeInv
  BY TypeInit
<1>2. TypeInv /\ [Next]_vars => TypeInv'
  BY TypeNext
<1>3. QED
  BY <1>1, <1>2, PTL DEF Spec

\* The session keeps its types whatever overruns, and the engine's one gate is held
\* exactly while a call exports or parses (_snapshot_gate).
THEOREM TypeCorrect == Spec => []TypeOK
<1>1. TypeInv => TypeOK
  BY DEF TypeInv, SeatTypes, GateIs, TypeOK
<1>2. QED
  BY <1>1, TypeAlways, PTL

-------------------------------------------------------------------------------
(* One thread: the jobs and the answers of the calls *)

Thread == executors[1]
Queue == Thread.queue
Running == Thread.running

WorkOf(at) == IF at \in {"draw", "select", "rebind"} THEN at ELSE "read"

\* A call waits for at most one job or answer.
Distinct(q, r, y) ==
  /\ \A i, j \in DOMAIN q : i # j => q[i].call # q[j].call
  /\ \A k, l \in DOMAIN y : k # l => y[k].call # y[l].call
  /\ \A i \in DOMAIN q, k \in DOMAIN y : q[i].call # y[k].call
  /\ r # None => (\A i \in DOMAIN q : q[i].call # r.call) /\ (\A k \in DOMAIN y : y[k].call # r.call)

\* It does wait, and for a job of the kind its place asks for.
Fit(j, at) == at \in Waiting /\ j.does = WorkOf(at)
Held(q, r, y, f) ==
  /\ \A i \in DOMAIN q : Fit(q[i], f[q[i].call].at)
  /\ r # None /\ r.call # None => Fit(r, f[r.call].at)
  /\ \A k \in DOMAIN y : f[y[k].call].at \in Waiting

Absent(c, q, r, y) ==
  /\ \A i \in DOMAIN q : q[i].call # c
  /\ r # None => r.call # c
  /\ \A k \in DOMAIN y : y[k].call # c

LineInv == Len(executors) = 1 /\ Distinct(Queue, Running, ready) /\ Held(Queue, Running, ready, call)

LEMMA NoneReplaced ==
  ASSUME TypeInv, OneThread'
  PROVE  \A c \in Calls : ~Overruns(c)
<1>1. SUFFICES ASSUME NEW c \in Calls, Overruns(c) PROVE FALSE
  OBVIOUS
<1>2. executors' = Append(Left(c), NewExecutor)
  BY <1>1 DEF Overruns
<1>3. Left(c) \in Seq(Executor) /\ Len(Left(c)) = Len(executors) /\ NewExecutor \in Executor
  BY LeftIs, ReplacementIs
<1>4. Len(executors') # 1
  <2>1. Len(executors) \in Nat \ {0}
    BY Members DEF TypeInv, ThreadTypes
  <2>2. Len(executors') = Len(executors) + 1
    BY <1>2, <1>3, Appended
  <2>3. QED
    BY <2>1, <2>2
<1>5. Len(executors') = 1
  BY DEF OneThread, Current
<1>6. QED
  BY <1>4, <1>5

\* No thread is forgotten.
LEMMA ThreadsGrow ==
  ASSUME TypeInv, TypeInv', [Next]_vars, OneThread'
  PROVE  OneThread
<1>1. DOMAIN executors \subseteq DOMAIN executors'
  <2>1. CASE \E c \in Calls : Client(c)
    BY <2>1 DEF Client, StartWrite, StartChoose, StartRead, Submits, Cancel, Left
  <2>2. CASE \E c \in Calls : Loop(c)
    BY <2>2 DEF Loop, NextSlice, WriteReturns, RefusalReturns, Rebind, ChooseReturns, LookReturns, Refresh,
       IdentityReturns, Detail, Reuse, Export, Parse, Parsed, Submits
  <2>3. CASE \E x \in DOMAIN executors : ComThread(x)
    BY <2>3 DEF ComThread, BeginUnguarded, Refuse, Guard, Begun, EndRead, EndDraw, EndSelect, EndRebind, Ended
  <2>4. CASE Timer \/ Operator \/ UNCHANGED vars
    BY <2>4, NoneReplaced DEF Timer, Operator, Expire, Deadline, RefreshOverruns, Click, Edit, vars
  <2>5. QED
    BY <2>1, <2>2, <2>3, <2>4 DEF Next
<1>2. /\ Len(executors) \in Nat /\ DOMAIN executors = 1..Len(executors) /\ Len(executors) # 0
      /\ Len(executors') \in Nat /\ DOMAIN executors' = 1..Len(executors')
  BY Members DEF TypeInv, ThreadTypes
<1>3. CASE Len(executors) >= 2
  <2>1. 2 \in DOMAIN executors'
    BY <1>1, <1>2, <1>3
  <2>2. QED
    BY <1>2, <2>1 DEF OneThread, Current
<1>4. QED
  BY <1>2, <1>3 DEF OneThread, Current

\* Whoever does not wait has nothing in the line.
LEMMA AbsentIs ==
  ASSUME NEW q, NEW r, NEW y, NEW f, NEW c \in Calls, Held(q, r, y, f), f[c].at \notin Waiting
  PROVE  Absent(c, q, r, y)
BY NoneIs DEF Held, Fit, Absent

\* A call that goes on submits its next job.
LEMMA LineSubmit ==
  ASSUME NEW q \in Seq(Queued), NEW r, NEW y \in Seq(Entries), NEW f, NEW g,
         NEW c \in Calls, NEW j \in Queued,
         Absent(c, q, r, y), Distinct(q, r, y), Held(q, r, y, f), r # None => r.call \in Calls \cup {None},
         \A d \in Calls \ {c} : g[d].at = f[d].at, j.call = c, Fit(j, g[c].at)
  PROVE  Distinct(Append(q, j), r, y) /\ Held(Append(q, j), r, y, g)
<1> DEFINE p == Append(q, j)
<1>1. /\ Len(q) \in Nat /\ DOMAIN q = 1..Len(q) /\ \A i \in DOMAIN q : q[i] \in Queued
      /\ DOMAIN p = 1..(Len(q) + 1) /\ p[Len(q) + 1] = j /\ \A i \in 1..Len(q) : p[i] = q[i]
  BY Members, Appended
<1>2. \A k \in DOMAIN y : y[k].call \in Calls
  BY Members DEF Entries
<1>3. \A i \in DOMAIN q : q[i].call \in Calls
  BY <1>1 DEF Queued
<1> HIDE DEF p
<1>4. ASSUME NEW i \in DOMAIN p PROVE (i \in DOMAIN q /\ p[i] = q[i]) \/ (i = Len(q) + 1 /\ p[i] = j)
  BY <1>1
<1>5. \A i \in DOMAIN p : \/ i \in DOMAIN q /\ p[i] = q[i]
                          \/ i = Len(q) + 1 /\ p[i] = j
  BY <1>4
<1>6. Distinct(p, r, y)
  BY <1>1, <1>5 DEF Distinct, Absent
<1>7. Held(p, r, y, g)
  <2>1. \A i \in DOMAIN p : Fit(p[i], g[p[i].call].at)
    BY <1>3, <1>5 DEF Held, Absent
  <2>2. r # None /\ r.call # None => Fit(r, g[r.call].at)
    BY DEF Held, Absent
  <2>3. \A k \in DOMAIN y : g[y[k].call].at \in Waiting
    BY <1>2 DEF Held, Absent
  <2>4. QED
    BY <2>1, <2>2, <2>3 DEF Held
<1>8. QED
  BY <1>6, <1>7 DEF p

\* The calls change, but no call of the line goes anywhere.
LEMMA LineStays ==
  ASSUME NEW q \in Seq(Queued), NEW r, NEW y \in Seq(Entries), NEW f, NEW g,
         Held(q, r, y, f), r # None => r.call \in Calls \cup {None},
         \A d \in Calls : Absent(d, q, r, y) \/ g[d].at = f[d].at
  PROVE  Held(q, r, y, g)
<1>1. \A k \in DOMAIN y : y[k].call \in Calls
  BY Members DEF Entries
<1>2. \A i \in DOMAIN q : q[i].call \in Calls
  BY Members DEF Queued
<1>3. \A i \in DOMAIN q : Fit(q[i], g[q[i].call].at)
  BY <1>2 DEF Held, Absent
<1>4. r # None /\ r.call # None => Fit(r, g[r.call].at)
  BY DEF Held, Absent
<1>5. \A k \in DOMAIN y : g[y[k].call].at \in Waiting
  BY <1>1 DEF Held, Absent
<1>6. QED
  BY <1>3, <1>4, <1>5 DEF Held

\* The loop takes the first answer.
LEMMA LineResume ==
  ASSUME NEW q \in Seq(Queued), NEW r, NEW y \in Seq(Entries), NEW f, y # <<>>,
         Distinct(q, r, y), Held(q, r, y, f)
  PROVE  /\ Distinct(q, r, Tail(y)) /\ Held(q, r, Tail(y), f)
         /\ Absent(y[1].call, q, r, Tail(y))
<1>1. /\ Len(y) \in Nat /\ DOMAIN y = 1..Len(y) /\ 1 \in DOMAIN y /\ DOMAIN Tail(y) = 1..(Len(y) - 1)
      /\ \A i \in 1..(Len(y) - 1) : Tail(y)[i] = y[i + 1]
  BY TailIs, Members
<1>2. PICK z : z = Tail(y)
  OBVIOUS
<1>3. \A i \in DOMAIN z : i + 1 \in DOMAIN y /\ z[i] = y[i + 1] /\ i + 1 # 1
  BY <1>1, <1>2
<1>4. \A i, j \in DOMAIN z : i # j => i + 1 # j + 1
  BY <1>1, <1>2
<1>5. Distinct(q, r, z)
  BY <1>3, <1>4 DEF Distinct
<1>6. Held(q, r, z, f)
  BY <1>3 DEF Held
<1>7. Absent(y[1].call, q, r, z)
  BY <1>1, <1>3 DEF Absent, Distinct
<1>8. QED
  BY <1>2, <1>5, <1>6, <1>7

\* The thread takes the first job, or refuses it.
LEMMA LineBegin ==
  ASSUME NEW q \in Seq(Queued), NEW y \in Seq(Entries), NEW f, q # <<>>,
         Distinct(q, None, y), Held(q, None, y, f)
  PROVE  /\ Distinct(Tail(q), q[1], y) /\ Held(Tail(q), q[1], y, f)
         /\ \A e \in Entries : e.call = q[1].call =>
              Distinct(Tail(q), None, Append(y, e)) /\ Held(Tail(q), None, Append(y, e), f)
<1>2. /\ Len(q) \in Nat /\ DOMAIN q = 1..Len(q) /\ 1 \in DOMAIN q /\ DOMAIN Tail(q) = 1..(Len(q) - 1)
      /\ \A i \in 1..(Len(q) - 1) : Tail(q)[i] = q[i + 1]
  BY TailIs, Members
<1>3. PICK z : z = Tail(q)
  OBVIOUS
<1>4. \A i \in DOMAIN z : i + 1 \in DOMAIN q /\ z[i] = q[i + 1] /\ i + 1 # 1
  BY <1>2, <1>3
<1>5. \A i, j \in DOMAIN z : i # j => i + 1 # j + 1
  BY <1>2, <1>3
<1>6. Distinct(z, q[1], y)
  BY <1>2, <1>4, <1>5 DEF Distinct
<1>7. Held(z, q[1], y, f)
  BY <1>2, <1>4 DEF Held
<1>8. ASSUME NEW e \in Entries, e.call = q[1].call
      PROVE  Distinct(z, None, Append(y, e)) /\ Held(z, None, Append(y, e), f)
  <2>1. /\ Len(y) \in Nat /\ DOMAIN y = 1..Len(y)
        /\ DOMAIN Append(y, e) = 1..(Len(y) + 1)
        /\ \A i \in 1..Len(y) : Append(y, e)[i] = y[i]
        /\ Append(y, e)[Len(y) + 1] = e
    BY Members, Appended
  <2>2. PICK w : w = Append(y, e)
    OBVIOUS
  <2>3. \A k \in DOMAIN w : \/ k \in DOMAIN y /\ w[k] = y[k]
                            \/ k = Len(y) + 1 /\ w[k] = e
    BY <2>1, <2>2
  <2>4. Distinct(z, None, w)
    BY <1>2, <1>4, <1>5, <1>8, <2>3 DEF Distinct
  <2>5. Held(z, None, w, f)
    BY <1>2, <1>4, <1>8, <2>3 DEF Held, Fit
  <2>6. QED
    BY <2>2, <2>4, <2>5
<1>9. QED
  BY <1>3, <1>6, <1>7, <1>8

\* A job ends; the call it left hears nothing.
LEMMA LineEnd ==
  ASSUME NEW q, NEW r, NEW y \in Seq(Entries), NEW f, r # None, Distinct(q, r, y), Held(q, r, y, f)
  PROVE  /\ Distinct(q, None, y) /\ Held(q, None, y, f)
         /\ r.call # None => \A e \in Entries : e.call = r.call =>
              Distinct(q, None, Append(y, e)) /\ Held(q, None, Append(y, e), f)
<1>1. Distinct(q, None, y) /\ Held(q, None, y, f)
  BY DEF Distinct, Held
<1>2. ASSUME r.call # None, NEW e \in Entries, e.call = r.call
      PROVE  Distinct(q, None, Append(y, e)) /\ Held(q, None, Append(y, e), f)
  <2>1. /\ Len(y) \in Nat /\ DOMAIN y = 1..Len(y)
        /\ DOMAIN Append(y, e) = 1..(Len(y) + 1)
        /\ \A i \in 1..Len(y) : Append(y, e)[i] = y[i]
        /\ Append(y, e)[Len(y) + 1] = e
    BY Members, Appended
  <2>2. PICK w : w = Append(y, e)
    OBVIOUS
  <2>3. \A k \in DOMAIN w : \/ k \in DOMAIN y /\ w[k] = y[k]
                            \/ k = Len(y) + 1 /\ w[k] = e
    BY <2>1, <2>2
  <2>4. Distinct(q, None, w)
    BY <1>2, <2>3 DEF Distinct
  <2>5. Held(q, None, w, f)
    BY <1>2, <2>3 DEF Held, Fit
  <2>6. QED
    BY <2>2, <2>4, <2>5
<1>3. QED
  BY <1>1, <1>2

\* A call is cancelled: nothing of it waits, and the job it left runs on.
LEMMA LineCancel ==
  ASSUME NEW q \in Seq(Queued), NEW r, NEW y \in Seq(Entries), NEW f, NEW c \in Calls,
         Distinct(q, r, y), Held(q, r, y, f), NEW s,
         IF r # None /\ r.call = c THEN s.call = None ELSE s = r
  PROVE  /\ Distinct(Without(q, c), s, Without(y, c)) /\ Held(Without(q, c), s, Without(y, c), f)
         /\ Absent(c, Without(q, c), s, Without(y, c))
<1>1. PICK m : Sub(Without(q, c), q, m)
  BY WithoutIs
<1>2. PICK n : Sub(Without(y, c), y, n)
  BY WithoutIs
<1>3. (\A i \in DOMAIN Without(q, c) : Without(q, c)[i].call # c)
      /\ \A i \in DOMAIN Without(y, c) : Without(y, c)[i].call # c
  BY WithoutIs DEF Distinct
<1>4. PICK p : p = Without(q, c)
  OBVIOUS
<1>5. PICK z : z = Without(y, c)
  OBVIOUS
<1>6. Without(q, c) \in Seq(Queued) /\ Without(y, c) \in Seq(Entries)
  BY WithoutIs
<1>7. DOMAIN p = 1..Len(p) /\ Len(p) \in Nat /\ DOMAIN z = 1..Len(z) /\ Len(z) \in Nat
  BY <1>4, <1>5, <1>6, Members
<1>8. DOMAIN q = 1..Len(q) /\ Len(q) \in Nat /\ DOMAIN y = 1..Len(y) /\ Len(y) \in Nat
  BY Members
<1>9. \A i \in DOMAIN p : m[i] \in DOMAIN q /\ p[i] = q[m[i]]
  BY <1>1, <1>4 DEF Sub
<1>10. \A i, j \in DOMAIN p : i # j => m[i] # m[j]
  <2>1. \A i, j \in DOMAIN p : i < j => m[i] < m[j]
    BY <1>1, <1>4 DEF Sub
  <2>2. QED
    BY <1>7, <1>8, <1>9, <2>1
<1>11. \A i \in DOMAIN z : n[i] \in DOMAIN y /\ z[i] = y[n[i]]
  BY <1>2, <1>5 DEF Sub
<1>12. \A i, j \in DOMAIN z : i # j => n[i] # n[j]
  <2>1. \A i, j \in DOMAIN z : i < j => n[i] < n[j]
    BY <1>2, <1>5 DEF Sub
  <2>2. QED
    BY <1>7, <1>8, <1>11, <2>1
<1>13. \A i \in DOMAIN q : q[i].call \in Calls
  BY Members DEF Queued
<1>14. \A k \in DOMAIN y : y[k].call \in Calls
  BY Members DEF Entries
<1>15. Distinct(p, s, z)
  BY <1>9, <1>10, <1>11, <1>12, <1>13, <1>14, NoneIs DEF Distinct
<1>16. Held(p, s, z, f)
  BY <1>9, <1>11 DEF Held
<1>17. Absent(c, p, s, z)
  BY <1>3, <1>4, <1>5, NoneIs DEF Absent
<1>18. QED
  BY <1>4, <1>5, <1>15, <1>16, <1>17

\* The one thread.
LEMMA OneIs ==
  ASSUME TypeInv, Len(executors) = 1
  PROVE  /\ DOMAIN executors = {1} /\ Current = 1
         /\ Queue \in Seq(Queued) /\ Running \in Jobs \cup {None} /\ Thread.doc \in Docs \cup {None}
         /\ Placed(Running, Thread.doc) /\ ready \in Seq(Entries)
         /\ Running # None => Running.call \in Calls \cup {None} /\ Running.does \in Works
<1>1. DOMAIN executors = {1} /\ Current = 1
  BY Members DEF TypeInv, ThreadTypes, Current
<1>2. Queue \in Seq(Queued) /\ Running \in Jobs \cup {None} /\ Thread.doc \in Docs \cup {None} /\ Placed(Running, Thread.doc)
  BY <1>1, ExecutorIs DEF Queue, Running, Thread
<1>3. Running # None => Running.call \in Calls \cup {None} /\ Running.does \in Works
  BY <1>2 DEF Jobs
<1>4. QED
  BY <1>1, <1>2, <1>3 DEF TypeInv, ThreadTypes

\* What a step does to the thread.
Submitted(j) == Queue' = Append(Queue, j) /\ Running' = Running /\ Thread.doc' = Thread.doc
Started(d) == /\ Running = None /\ Queue # <<>>
              /\ Queue' = Tail(Queue) /\ Running' = Queue[1] /\ Thread.doc' = d
Finished == Running # None /\ Queue' = Queue /\ Running' = None
Untouched == Queue' = Queue /\ Running' = Running /\ Thread.doc' = Thread.doc

LEMMA OneSubmits ==
  ASSUME TypeInv, Len(executors) = 1, NEW j \in Queued,
         executors' = [executors EXCEPT ![Current].queue = Append(@, j)]
  PROVE  Len(executors') = 1 /\ Submitted(j)
<1>1. /\ Len(executors') = Len(executors)
      /\ executors' = [executors EXCEPT ![Current] =
              [queue |-> Append(executors[Current].queue, j), running |-> executors[Current].running,
               doc |-> executors[Current].doc]]
  BY SubmitIs
<1>2. executors'[1] = [queue |-> Append(Queue, j), running |-> Running, doc |-> Thread.doc]
  BY <1>1, OneIs DEF Queue, Running, Thread
<1>3. QED
  BY <1>1, <1>2 DEF Submitted, Queue, Running, Thread

LEMMA OneUntouched ==
  ASSUME executors' = executors
  PROVE  Len(executors') = Len(executors) /\ Untouched
BY DEF Untouched, Queue, Running, Thread

LEMMA OneBegins ==
  ASSUME TypeInv, Len(executors) = 1, NEW x \in DOMAIN executors, MayBegin(x)
  PROVE  /\ Running = None /\ Queue # <<>> /\ Queue[1] \in Queued /\ NextJob(x) = Queue[1]
         /\ \A d \in Docs \cup {None} : Begun(x, d) /\ Placed(Queue[1], d) =>
               Len(executors') = 1 /\ Started(d)
         /\ executors' = [executors EXCEPT ![x].queue = Tail(@)] =>
              /\ Len(executors') = 1
              /\ Queue' = Tail(Queue) /\ Running' = None /\ Thread.doc' = Thread.doc
<1>1. x = 1
  BY OneIs
<1>2. Running = None /\ Queue # <<>>
  BY <1>1 DEF MayBegin, Queue, Running, Thread
<1>3. Queue[1] \in Queued /\ NextJob(x) = Queue[1]
  BY <1>1, BegunIs DEF Queue, Thread
<1>4. ASSUME NEW d \in Docs \cup {None}, Begun(x, d), Placed(Queue[1], d)
      PROVE  Len(executors') = 1 /\ Started(d)
  <2>1. /\ Len(executors') = Len(executors)
        /\ executors'[x] = [queue |-> Tail(executors[x].queue), running |-> NextJob(x), doc |-> d]
    BY <1>3, <1>4, BegunIs
  <2>2. executors'[1] = [queue |-> Tail(Queue), running |-> Queue[1], doc |-> d]
    BY <1>1, <1>3, <2>1 DEF Queue, Thread
  <2>3. QED
    BY <1>2, <2>1, <2>2 DEF Started, Queue, Running, Thread
<1>5. ASSUME executors' = [executors EXCEPT ![x].queue = Tail(@)]
      PROVE  Len(executors') = 1 /\ Queue' = Tail(Queue) /\ Running' = None /\ Thread.doc' = Thread.doc
  <2>1. /\ Len(executors') = Len(executors)
        /\ executors'[x] = [queue |-> Tail(executors[x].queue), running |-> executors[x].running,
                                  doc |-> executors[x].doc]
    BY <1>5, BegunIs
  <2>2. executors'[1] = [queue |-> Tail(Queue), running |-> Running, doc |-> Thread.doc]
    BY <1>1, <2>1 DEF Queue, Running, Thread
  <2>3. QED
    BY <1>2, <2>1, <2>2 DEF Queue, Running, Thread
<1>6. QED
  BY <1>2, <1>3, <1>4, <1>5

\* The answer an ended job gives.
Answered(s) == IF Running.call = None THEN ready' = ready
               ELSE /\ Running.call \in Calls
                    /\ ready' = Append(ready, [call |-> Running.call, result |-> "ok", seen |-> s])
                    /\ [call |-> Running.call, result |-> "ok", seen |-> s] \in Entries

LEMMA OneEnds ==
  ASSUME TypeInv, Len(executors) = 1, NEW x \in DOMAIN executors, NEW does, NEW s \in Seens,
         Ended(x, does, s)
  PROVE  /\ x = 1 /\ Len(executors') = 1 /\ Finished /\ Running.does = does
         /\ Answered(s)
<1>1. x = 1
  BY OneIs
<1>2. /\ Len(executors') = Len(executors)
      /\ executors'[x] = [queue |-> executors[x].queue, running |-> None, doc |-> None]
      /\ executors[x].running.does = does /\ executors[x].running # None
      /\ IF executors[x].running.call = None THEN ready' = ready
         ELSE /\ executors[x].running.call \in Calls
              /\ ready' = Append(ready, [call |-> executors[x].running.call, result |-> "ok", seen |-> s])
  BY EndedIs
<1>3. Len(executors') = 1 /\ Finished /\ Running.does = does
  BY <1>1, <1>2 DEF Finished, Queue, Running, Thread
<1>4. Answered(s)
  <2>1. IF Running.call = None THEN ready' = ready
        ELSE /\ Running.call \in Calls
             /\ ready' = Append(ready, [call |-> Running.call, result |-> "ok", seen |-> s])
    BY <1>1, <1>2 DEF Running, Thread
  <2>2. Running.call \in Calls => [call |-> Running.call, result |-> "ok", seen |-> s] \in Entries
    BY DEF Entries
  <2>3. QED
    BY <2>1, <2>2 DEF Answered
<1>5. QED
  BY <1>1, <1>3, <1>4

\* What a cancelled call leaves.
LEMMA OneCancels ==
  ASSUME TypeInv, Len(executors) = 1, NEW c \in Calls, executors' = Left(c)
  PROVE  /\ Len(executors') = 1 /\ Queue' = Without(Queue, c) /\ Thread.doc' = Thread.doc
         /\ IF Running # None /\ Running.call = c
            THEN Running'.call = None /\ Running'.does = Running.does
            ELSE Running' = Running
<1>1. /\ Len(executors') = Len(executors)
      /\ executors'[1] = [queue |-> Without(Queue, c),
                          running |-> IF Running # None /\ Running.call = c
                                      THEN [Running EXCEPT !.call = None] ELSE Running,
                          doc |-> Thread.doc]
  BY OneIs, LeftIs DEF Queue, Running, Thread
<1>2. /\ Queue' = Without(Queue, c) /\ Thread.doc' = Thread.doc
      /\ Running' = IF Running # None /\ Running.call = c THEN [Running EXCEPT !.call = None] ELSE Running
  BY <1>1 DEF Queue, Running, Thread
<1>3. Running \in Jobs \cup {None}
  BY OneIs
<1>4. ASSUME Running # None
      PROVE  /\ [Running EXCEPT !.call = None].call = None /\ [Running EXCEPT !.call = None].does = Running.does
  BY <1>3, <1>4 DEF Jobs
<1>5. QED
  BY <1>1, <1>2, <1>4

LEMMA SubmitTyped ==
  ASSUME TypeInv, NEW c \in Calls, NEW does \in Works \ {"select"}, Submits(c, does), Len(executors) = 1
  PROVE  /\ Len(executors') = 1 /\ Job(c, does) \in Queued /\ Submitted(Job(c, does))
         /\ Job(c, does).call = c /\ Job(c, does).does = does
<1>1. Job(c, does) \in Queued /\ Job(c, does).call = c /\ Job(c, does).does = does
  BY JobIs
<1>2. QED
  BY <1>1, OneSubmits DEF Submits

\* A call that starts is one more in the line.
LEMMA StartLine ==
  ASSUME TypeInv, LineInv, NEW c \in Calls, NEW kind, Start(c, kind), NEW j \in Queued, j.call = c,
         executors' = [executors EXCEPT ![Current].queue = Append(@, j)],
         Fit(j, call'[c].at), \A d \in Calls \ {c} : call'[d].at = call[d].at
  PROVE  /\ LineInv' /\ Absent(c, Queue, Running, ready) /\ Submitted(j) /\ ready' = ready
<1>1. ready' = ready /\ call[c].at = "idle"
  BY DEF Start, InFlight
<1>2. Absent(c, Queue, Running, ready)
  BY <1>1, AbsentIs DEF LineInv, Waiting
<1>3. Len(executors') = 1 /\ Submitted(j)
  BY OneSubmits DEF LineInv
<1>4. Distinct(Append(Queue, j), Running, ready) /\ Held(Append(Queue, j), Running, ready, call')
  BY <1>2, OneIs, LineSubmit DEF LineInv
<1>5. LineInv'
  BY <1>1, <1>3, <1>4 DEF LineInv, Submitted
<1>6. QED
  BY <1>1, <1>2, <1>3, <1>5

LEMMA StartWriteLine ==
  ASSUME TypeInv, LineInv, NEW c \in Calls, NEW jobs \in 1..Slices, StartWrite(c, jobs)
  PROVE  /\ LineInv' /\ Absent(c, Queue, Running, ready) /\ Submitted(Job(c, "draw")) /\ ready' = ready
         /\ call'[c] = Rec("write", "draw", None, jobs, jobs, FALSE, FALSE, Unseen, None)
         /\ \A d \in Calls \ {c} : call'[d] = Retired[d]
<1>1. Start(c, "write") /\ executors' = [executors EXCEPT ![Current].queue = Append(@, Job(c, "draw"))]
  BY DEF StartWrite, Submits
<1>2. Job(c, "draw") \in Queued /\ Job(c, "draw").call = c /\ Job(c, "draw").does = "draw"
  BY JobIs DEF Works
<1>3. /\ call'[c] = Rec("write", "draw", None, jobs, jobs, FALSE, FALSE, Unseen, None)
      /\ \A d \in Calls \ {c} : call'[d] = Retired[d]
  BY NewWrite, RetiredIs DEF StartWrite
<1>4. call'[c].at = "draw" /\ \A d \in Calls \ {c} : call'[d].at = call[d].at
  BY <1>3, RetiredIs DEF Rec
<1>5. Fit(Job(c, "draw"), call'[c].at)
  BY <1>2, <1>4 DEF Fit, WorkOf, Waiting
<1>6. QED
  BY <1>1, <1>2, <1>3, <1>4, <1>5, StartLine

LEMMA StartReadLine ==
  ASSUME TypeInv, LineInv, NEW c \in Calls, NEW kind \in Kinds, StartRead(c, kind)
  PROVE  /\ LineInv' /\ Absent(c, Queue, Running, ready) /\ Submitted(Job(c, "read")) /\ ready' = ready
         /\ call'[c] = Rec(kind, "read", None, 0, 0, FALSE, FALSE, Unseen, IF kind = "check" THEN promised ELSE None)
         /\ \A d \in Calls \ {c} : call'[d] = call[d]
<1>1. Start(c, kind) /\ executors' = [executors EXCEPT ![Current].queue = Append(@, Job(c, "read"))]
  BY DEF StartRead, Submits
<1>2. Job(c, "read") \in Queued /\ Job(c, "read").call = c /\ Job(c, "read").does = "read"
  BY JobIs DEF Works
<1>3. /\ call'[c] = Rec(kind, "read", None, 0, 0, FALSE, FALSE, Unseen, IF kind = "check" THEN promised ELSE None)
      /\ \A d \in Calls \ {c} : call'[d] = call[d]
  BY NewIs DEF StartRead, TypeInv, CallTypes
<1>4. call'[c].at = "read" /\ \A d \in Calls \ {c} : call'[d].at = call[d].at
  BY <1>3 DEF Rec
<1>5. Fit(Job(c, "read"), call'[c].at)
  BY <1>2, <1>4 DEF Fit, WorkOf, Waiting
<1>6. QED
  BY <1>1, <1>2, <1>3, <1>4, <1>5, StartLine

LEMMA StartChooseLine ==
  ASSUME TypeInv, LineInv, NEW c \in Calls, NEW d \in Docs, StartChoose(c, d)
  PROVE  /\ LineInv' /\ Absent(c, Queue, Running, ready) /\ ready' = ready
         /\ \E j \in Queued : j.call = c /\ j.does = "select" /\ Submitted(j)
         /\ call'[c] = Rec("choose", "select", d, 0, 0, FALSE, FALSE, Unseen, None)
         /\ \A e \in Calls \ {c} : call'[e] = call[e]
<1> DEFINE j == [Job(c, "select") EXCEPT !.to = d]
<1>1. Start(c, "choose") /\ executors' = [executors EXCEPT ![Current].queue = Append(@, j)]
  BY DEF StartChoose
<1>2. j \in Queued /\ j.call = c /\ j.does = "select"
  BY DEF Job, Jobs, Works, Queued
<1> HIDE DEF j
<1>3. /\ call'[c] = Rec("choose", "select", d, 0, 0, FALSE, FALSE, Unseen, None)
      /\ \A e \in Calls \ {c} : call'[e] = call[e]
  BY NewIs DEF StartChoose, TypeInv, CallTypes
<1>4. call'[c].at = "select" /\ \A e \in Calls \ {c} : call'[e].at = call[e].at
  BY <1>3 DEF Rec
<1>5. Fit(j, call'[c].at)
  BY <1>2, <1>4 DEF Fit, WorkOf, Waiting
<1>6. QED
  BY <1>1, <1>2, <1>3, <1>4, <1>5, StartLine

\* A resumed call has left the line; its next job, or its end.
LEMMA ResumeLine ==
  ASSUME TypeInv, LineInv, NEW c \in Calls, NEW at, NEW result, Resumes(c, at, result)
  PROVE  /\ Distinct(Queue, Running, Tail(ready)) /\ Held(Queue, Running, Tail(ready), call)
         /\ Absent(c, Queue, Running, Tail(ready)) /\ ready' = Tail(ready)
         /\ Tail(ready) \in Seq(Entries)
<1>1. ready[1].call = c /\ ready' = Tail(ready) /\ ready # <<>> /\ ready' \in Seq(Entries)
  BY ResumesIs
<1>2. QED
  BY <1>1, OneIs, LineResume DEF LineInv

LEMMA ResumeOnLine ==
  ASSUME TypeInv, LineInv, NEW c \in Calls, NEW at, NEW result, Resumes(c, at, result),
         NEW does \in Works \ {"select"}, Submits(c, does), call'[c].at \in Waiting, does = WorkOf(call'[c].at),
         \A d \in Calls \ {c} : call'[d].at = call[d].at
  PROVE  LineInv' /\ Submitted(Job(c, does)) /\ Absent(c, Queue, Running, ready')
<1>1. /\ Len(executors') = 1 /\ Job(c, does) \in Queued /\ Submitted(Job(c, does))
      /\ Job(c, does).call = c /\ Job(c, does).does = does
  BY SubmitTyped DEF LineInv
<1>2. Fit(Job(c, does), call'[c].at)
  BY <1>1 DEF Fit
<1>3. PICK y \in Seq(Entries) : y = Tail(ready)
  BY ResumeLine
<1>4. Distinct(Queue, Running, y) /\ Held(Queue, Running, y, call) /\ Absent(c, Queue, Running, y) /\ ready' = y
  BY <1>3, ResumeLine
<1>5. Distinct(Append(Queue, Job(c, does)), Running, y) /\ Held(Append(Queue, Job(c, does)), Running, y, call')
  BY <1>1, <1>2, <1>4, OneIs, LineSubmit DEF LineInv
<1>6. LineInv'
  BY <1>1, <1>4, <1>5 DEF LineInv, Submitted
<1>7. QED
  BY <1>1, <1>4, <1>6

LEMMA ResumeOffLine ==
  ASSUME TypeInv, LineInv, NEW c \in Calls, NEW at, NEW result, Resumes(c, at, result),
         executors' = executors, \A d \in Calls \ {c} : call'[d].at = call[d].at
  PROVE  LineInv' /\ Untouched /\ Absent(c, Queue, Running, ready')
<1>1. PICK y \in Seq(Entries) : y = Tail(ready)
  BY ResumeLine
<1>2. Distinct(Queue, Running, y) /\ Held(Queue, Running, y, call) /\ Absent(c, Queue, Running, y) /\ ready' = y
  BY <1>1, ResumeLine
<1>3. Held(Queue, Running, y, call')
  BY <1>2, OneIs, LineStays DEF LineInv
<1>4. QED
  BY <1>2, <1>3, OneUntouched DEF LineInv, Untouched

\* Nothing of the line moves, and no call of it goes anywhere.
LEMMA RestLine ==
  ASSUME TypeInv, LineInv, executors' = executors, ready' = ready,
         \A d \in Calls : call[d].at \notin Waiting \/ call'[d].at = call[d].at
  PROVE  LineInv' /\ Untouched
<1>1. \A d \in Calls : Absent(d, Queue, Running, ready) \/ call'[d].at = call[d].at
  BY AbsentIs DEF LineInv
<1>2. Held(Queue, Running, ready, call')
  BY <1>1, OneIs, LineStays DEF LineInv
<1>3. QED
  BY <1>2, OneUntouched DEF LineInv, Untouched

LEMMA ExportLine ==
  ASSUME TypeInv, LineInv, NEW c \in Calls, Export(c)
  PROVE  LineInv' /\ Submitted(Job(c, "read")) /\ Absent(c, Queue, Running, ready) /\ ready' = ready
         /\ call'[c].at = "export" /\ \A d \in Calls \ {c} : call'[d] = call[d]
<1>1. /\ call[c].at = "gate" /\ ready' = ready /\ Submits(c, "read")
      /\ call' = [call EXCEPT ![c].at = "export", ![c].valid = TRUE]
  BY DEF Export, Enters
<1>2. /\ call' = [call EXCEPT ![c] = Rec(call[c].kind, "export", call[c].to, call[c].jobs, call[c].left,
                                          call[c].force, TRUE, call[c].seen, call[c].given)]
      /\ call \in [Calls -> CallRecs]
  <2>1. "export" \in Places /\ TRUE \in BOOLEAN
    BY DEF Places, Waiting
  <2>2. QED
    BY <1>1, <2>1, ValidGoes DEF TypeInv, CallTypes
<1>3. call'[c].at = "export" /\ \A d \in Calls \ {c} : call'[d] = call[d]
  BY <1>2 DEF Rec
<1>4. Absent(c, Queue, Running, ready)
  BY <1>1, AbsentIs DEF LineInv, Waiting
<1>5. /\ Len(executors') = 1 /\ Job(c, "read") \in Queued /\ Submitted(Job(c, "read"))
      /\ Job(c, "read").call = c /\ Job(c, "read").does = "read"
  BY <1>1, SubmitTyped DEF LineInv, Works
<1>6. Fit(Job(c, "read"), call'[c].at)
  BY <1>3, <1>5 DEF Fit, WorkOf, Waiting
<1>7. Distinct(Append(Queue, Job(c, "read")), Running, ready) /\ Held(Append(Queue, Job(c, "read")), Running, ready, call')
  BY <1>3, <1>4, <1>5, <1>6, OneIs, LineSubmit DEF LineInv
<1>8. LineInv'
  BY <1>1, <1>5, <1>7 DEF LineInv, Submitted
<1>9. QED
  BY <1>1, <1>3, <1>4, <1>5, <1>8

LEMMA CancelLine ==
  ASSUME TypeInv, LineInv, NEW c \in Calls, Cancel(c)
  PROVE  LineInv' /\ Absent(c, Queue', Running', ready')
<1>1. Ends(c) /\ executors' = Left(c) /\ ready' = Without(ready, c)
  BY DEF Cancel
<1>2. \A d \in Calls \ {c} : call'[d] = call[d]
  BY <1>1, EndsTypes
<1>3. /\ Len(executors') = 1 /\ Queue' = Without(Queue, c)
      /\ IF Running # None /\ Running.call = c THEN Running'.call = None ELSE Running' = Running
  BY <1>1, OneCancels DEF LineInv
<1>4. PICK s : s = Running'
  OBVIOUS
<1>5. /\ Distinct(Without(Queue, c), s, Without(ready, c)) /\ Held(Without(Queue, c), s, Without(ready, c), call)
      /\ Absent(c, Without(Queue, c), s, Without(ready, c))
  <2>1. IF Running # None /\ Running.call = c THEN s.call = None ELSE s = Running
    BY <1>3, <1>4
  <2>2. QED
    BY <2>1, OneIs, LineCancel DEF LineInv
<1>6. /\ Without(Queue, c) \in Seq(Queued) /\ Without(ready, c) \in Seq(Entries)
      /\ s # None => s.call \in Calls \cup {None}
  BY <1>3, <1>4, OneIs, WithoutIs DEF LineInv
<1>7. Held(Without(Queue, c), s, Without(ready, c), call')
  BY <1>2, <1>5, <1>6, LineStays
<1>8. QED
  BY <1>1, <1>3, <1>4, <1>5, <1>7 DEF LineInv

\* The thread takes up a job, or refuses it.
LEMMA BeginLine ==
  ASSUME TypeInv, LineInv, NEW x \in DOMAIN executors, MayBegin(x), NEW d \in Docs \cup {None},
         Begun(x, d), Placed(NextJob(x), d), ready' = ready, \A c \in Calls : call'[c].at = call[c].at
  PROVE  LineInv' /\ Started(d) /\ Queue[1] \in Queued /\ NextJob(x) = Queue[1] /\ Running'.call \in Calls
<1>1. /\ Running = None /\ Queue # <<>> /\ Queue[1] \in Queued /\ NextJob(x) = Queue[1]
      /\ Len(executors') = 1 /\ Started(d)
  BY OneBegins DEF LineInv
<1>2. Distinct(Tail(Queue), Queue[1], ready) /\ Held(Tail(Queue), Queue[1], ready, call)
  BY <1>1, OneIs, LineBegin DEF LineInv
<1>3. Tail(Queue) \in Seq(Queued) /\ Queue[1].call \in Calls
  BY <1>1, OneIs, TailIs DEF LineInv, Queued
<1>4. Held(Tail(Queue), Queue[1], ready, call')
  BY <1>2, <1>3, OneIs, LineStays DEF LineInv
<1>5. LineInv'
  BY <1>1, <1>2, <1>4 DEF LineInv, Started
<1>6. QED
  BY <1>1, <1>3, <1>5 DEF Started

LEMMA BeginUnguardedLine ==
  ASSUME TypeInv, LineInv, NEW x \in DOMAIN executors, BeginUnguarded(x)
  PROVE  /\ LineInv' /\ Started(None) /\ Queue[1] \in Queued /\ Queue[1].does \in Unguarded
         /\ Running'.call \in Calls /\ ready' = ready
<1>1. /\ MayBegin(x) /\ NextJob(x).does \in Unguarded /\ Begun(x, None) /\ ready' = ready /\ call' = call
  BY DEF BeginUnguarded
<1>2. Placed(NextJob(x), None)
  BY <1>1 DEF Placed, Guarded, Unguarded
<1>3. QED
  BY <1>1, <1>2, BeginLine

LEMMA GuardLine ==
  ASSUME TypeInv, LineInv, NEW x \in DOMAIN executors, Guard(x)
  PROVE  /\ LineInv' /\ Started(active) /\ Queue[1] \in Queued /\ Queue[1].does \in Guarded
         /\ Running'.call \in Calls /\ ready' = ready
<1>1. /\ MayBegin(x) /\ NextJob(x).does \notin Unguarded /\ Begun(x, active) /\ ready' = ready
      /\ call' = Retired \/ call' = call
  BY DEF Guard
<1>2. active \in Docs
  BY DEF TypeInv, SeatTypes
<1>3. Placed(NextJob(x), active) /\ \A c \in Calls : call'[c].at = call[c].at
  BY <1>1, <1>2, RetiredIs DEF Placed
<1>4. NextJob(x).does \in Works
  BY <1>1, BegunIs DEF Jobs
<1>5. QED
  BY <1>1, <1>2, <1>3, <1>4, BeginLine DEF Works, Unguarded, Guarded

LEMMA RefuseLine ==
  ASSUME TypeInv, LineInv, NEW x \in DOMAIN executors, Refuse(x)
  PROVE  /\ LineInv' /\ Running = None /\ Queue # <<>> /\ Queue[1] \in Queued /\ Queue' = Tail(Queue) /\ Running' = None
         /\ \E e \in Entries : e.call = Queue[1].call /\ e.result = "refused" /\ ready' = Append(ready, e)
<1>1. /\ MayBegin(x) /\ call' = call
      /\ executors' = [executors EXCEPT ![x].queue = Tail(@)]
      /\ ready' = Append(ready, [call |-> NextJob(x).call, result |-> "refused", seen |-> Unseen])
  BY DEF Refuse
<1>2. /\ Running = None /\ Queue # <<>> /\ Queue[1] \in Queued /\ NextJob(x) = Queue[1]
      /\ Len(executors') = 1 /\ Queue' = Tail(Queue) /\ Running' = None
  BY <1>1, OneBegins DEF LineInv
<1>3. PICK e : e = [call |-> Queue[1].call, result |-> "refused", seen |-> Unseen]
  OBVIOUS
<1>4. e \in Entries /\ e.call = Queue[1].call /\ e.result = "refused"
  BY <1>2, <1>3, SeenIs DEF Entries, Queued
<1>5. Distinct(Tail(Queue), None, Append(ready, e)) /\ Held(Tail(Queue), None, Append(ready, e), call)
  BY <1>2, <1>4, OneIs, LineBegin DEF LineInv
<1>6. LineInv'
  BY <1>1, <1>2, <1>3, <1>5 DEF LineInv
<1>7. QED
  BY <1>1, <1>2, <1>3, <1>4, <1>6

\* A job ends.
LEMMA EndLine ==
  ASSUME TypeInv, LineInv, NEW x \in DOMAIN executors, NEW does, NEW s \in Seens, Ended(x, does, s),
         \A c \in Calls : call'[c].at = call[c].at
  PROVE  LineInv' /\ Finished /\ Answered(s) /\ Running.does = does /\ x = 1 /\ ready' \in Seq(Entries)
<1>1. /\ x = 1 /\ Len(executors') = 1 /\ Finished /\ Running.does = does
      /\ Answered(s)
  BY OneEnds DEF LineInv
<1>2. /\ Distinct(Queue, None, ready') /\ Held(Queue, None, ready', call) /\ ready' \in Seq(Entries)
  <2>1. Running # None /\ Distinct(Queue, Running, ready) /\ Held(Queue, Running, ready, call)
    BY <1>1 DEF Finished, LineInv
  <2>2. CASE Running.call = None
    BY <1>1, <2>1, <2>2, OneIs, LineEnd DEF Answered, LineInv
  <2>3. CASE Running.call # None
    <3>1. PICK e \in Entries : e.call = Running.call /\ ready' = Append(ready, e)
      BY <1>1, <2>3 DEF Answered
    <3>2. Distinct(Queue, None, Append(ready, e)) /\ Held(Queue, None, Append(ready, e), call)
      BY <2>1, <2>3, <3>1, OneIs, LineEnd DEF LineInv
    <3>3. Append(ready, e) \in Seq(Entries)
      BY OneIs, Appended DEF LineInv
    <3>4. QED
      BY <3>1, <3>2, <3>3
  <2>4. QED
    BY <2>2, <2>3
<1>3. Held(Queue, None, ready', call')
  BY <1>2, OneIs, LineStays DEF LineInv
<1>4. LineInv'
  BY <1>1, <1>2, <1>3 DEF LineInv, Finished
<1>5. QED
  BY <1>1, <1>2, <1>4

LEMMA EndReadLine ==
  ASSUME TypeInv, LineInv, NEW x \in DOMAIN executors, NEW counted \in BOOLEAN, EndRead(x, counted)
  PROVE  LineInv' /\ Finished /\ Running.does = "read" /\ Answered(Seen(Thread.doc)) /\ Thread.doc \in Docs
<1>1. Ended(x, "read", Seen(executors[x].doc)) /\ call' = call
  BY DEF EndRead
<1>2. executors[x].doc \in Docs /\ Seen(executors[x].doc) \in Seens
  BY <1>1, ExecutorIs, SeenIs DEF Ended, Placed, Guarded
<1>3. PICK s \in Seens : s = Seen(executors[x].doc)
  BY <1>2
<1>4. LineInv' /\ Finished /\ Answered(s) /\ Running.does = "read" /\ x = 1
  BY <1>1, <1>3, EndLine
<1>5. QED
  BY <1>2, <1>3, <1>4 DEF Thread

LEMMA EndDrawLine ==
  ASSUME TypeInv, LineInv, NEW x \in DOMAIN executors, NEW counted \in BOOLEAN, EndDraw(x, counted)
  PROVE  /\ LineInv' /\ Finished /\ Running.does = "draw" /\ Answered(Unseen) /\ Thread.doc \in Docs
         /\ content' = [content EXCEPT ![Thread.doc]["drawn"] = @ + 1]
<1>1. Ended(x, "draw", Unseen) /\ call' = call /\ content' = [content EXCEPT ![executors[x].doc]["drawn"] = @ + 1]
  BY DEF EndDraw
<1>2. executors[x].doc \in Docs
  BY <1>1, ExecutorIs DEF Ended, Placed, Guarded
<1>3. LineInv' /\ Finished /\ Answered(Unseen) /\ Running.does = "draw" /\ x = 1
  BY <1>1, EndLine, SeenIs
<1>4. QED
  BY <1>1, <1>2, <1>3 DEF Thread

LEMMA EndSelectLine ==
  ASSUME TypeInv, LineInv, NEW x \in DOMAIN executors, EndSelect(x)
  PROVE  LineInv' /\ Finished /\ Running.does = "select" /\ Answered(Unseen)
<1>1. Ended(x, "select", Unseen) /\ call' = call
  BY DEF EndSelect
<1>2. QED
  BY <1>1, EndLine, SeenIs

LEMMA EndRebindLine ==
  ASSUME TypeInv, LineInv, NEW x \in DOMAIN executors, EndRebind(x)
  PROVE  LineInv' /\ Finished /\ Running.does = "rebind" /\ Answered(Unseen)
<1>1. Ended(x, "rebind", Unseen) /\ call' = Retired
  BY DEF EndRebind
<1>2. \A c \in Calls : call'[c].at = call[c].at
  BY <1>1, RetiredIs
<1>3. QED
  BY <1>1, <1>2, EndLine, SeenIs

\* The event loop's steps.
LEMMA NextSliceLine ==
  ASSUME TypeInv, LineInv, NEW c \in Calls, NextSlice(c)
  PROVE  /\ LineInv' /\ Submitted(Job(c, "draw")) /\ Absent(c, Queue, Running, ready')
         /\ call'[c] = [call[c] EXCEPT !.left = @ - 1] /\ \A d \in Calls \ {c} : call'[d] = Retired[d]
<1>1. /\ Resumes(c, "draw", "ok") /\ Submits(c, "draw")
      /\ call' = [Retired EXCEPT ![c] = [call[c] EXCEPT !.left = @ - 1]]
  BY DEF NextSlice
<1>2. call[c].at = "draw" /\ call[c] \in CallRecs
  BY <1>1, ResumesIs, CallIs
<1>3. call'[c] = [call[c] EXCEPT !.left = @ - 1] /\ \A d \in Calls \ {c} : call'[d] = Retired[d]
  BY <1>1, RetiredIs
<1>4. call'[c].at = "draw"
  BY <1>2, <1>3 DEF CallRecs
<1>5. \A d \in Calls \ {c} : call'[d].at = call[d].at
  BY <1>3, RetiredIs
<1>6. QED
  BY <1>1, <1>3, <1>4, <1>5, ResumeOnLine DEF Works, Waiting, WorkOf

LEMMA RebindLine ==
  ASSUME TypeInv, LineInv, NEW c \in Calls, Rebind(c)
  PROVE  /\ LineInv' /\ Submitted(Job(c, "rebind")) /\ Absent(c, Queue, Running, ready')
         /\ call'[c] = [call[c] EXCEPT !.at = "rebind"] /\ \A d \in Calls \ {c} : call'[d] = call[d]
<1>1. /\ Resumes(c, "select", "ok") /\ Submits(c, "rebind")
      /\ call' = [call EXCEPT ![c] = [call[c] EXCEPT !.at = "rebind"]]
  BY DEF Rebind, Goes
<1>2. call[c] \in CallRecs /\ call \in [Calls -> CallRecs]
  BY CallIs DEF TypeInv, CallTypes
<1>3. call'[c] = [call[c] EXCEPT !.at = "rebind"] /\ \A d \in Calls \ {c} : call'[d] = call[d]
  BY <1>1, <1>2
<1>4. call'[c].at = "rebind"
  BY <1>2, <1>3 DEF CallRecs
<1>5. QED
  BY <1>1, <1>3, <1>4, ResumeOnLine DEF Works, Waiting, WorkOf

LEMMA RefreshLine ==
  ASSUME TypeInv, LineInv, NEW c \in Calls, Refresh(c)
  PROVE  /\ LineInv' /\ Submitted(Job(c, "read")) /\ Absent(c, Queue, Running, ready')
         /\ call'[c] = Rec(call[c].kind, "refresh", call[c].to, call[c].jobs, call[c].left,
                           call[c].force, call[c].valid, Report, call[c].given)
         /\ \A d \in Calls \ {c} : call'[d] = call[d]
<1>1. /\ Resumes(c, "read", "ok") /\ Submits(c, "read")
      /\ call' = [call EXCEPT ![c].at = "refresh", ![c].seen = Report]
  BY DEF Refresh
<1>2. Report \in Seens /\ call \in [Calls -> CallRecs]
  BY <1>1, ResumesIs DEF TypeInv, CallTypes
<1>3. /\ call'[c] = Rec(call[c].kind, "refresh", call[c].to, call[c].jobs, call[c].left,
                           call[c].force, call[c].valid, Report, call[c].given)
      /\ \A d \in Calls \ {c} : call'[d] = call[d]
  <2>1. PICK r : r = Rec(call[c].kind, "refresh", call[c].to, call[c].jobs, call[c].left,
                           call[c].force, call[c].valid, Report, call[c].given)
    OBVIOUS
  <2>2. call' = [call EXCEPT ![c] = r]
    BY <1>1, <1>2, <2>1, SeenGoes DEF Places, Waiting
  <2>3. QED
    BY <1>2, <2>1, <2>2
<1>4. call'[c].at = "refresh"
  BY <1>3 DEF Rec
<1>5. QED
  BY <1>1, <1>3, <1>4, ResumeOnLine DEF Works, Waiting, WorkOf

LEMMA DetailLine ==
  ASSUME TypeInv, LineInv, NEW c \in Calls, NEW old, NEW at \in {"gate", "parse"},
         Resumes(c, old, "ok"), call' = [call EXCEPT ![c].at = at, ![c].seen = Report], executors' = executors
  PROVE  /\ LineInv' /\ Untouched /\ Absent(c, Queue, Running, ready')
         /\ call'[c] = Rec(call[c].kind, at, call[c].to, call[c].jobs, call[c].left,
                           call[c].force, call[c].valid, Report, call[c].given)
         /\ \A d \in Calls \ {c} : call'[d] = call[d]
<1>1. Report \in Seens /\ call \in [Calls -> CallRecs] /\ at \in Places
  BY ResumesIs DEF TypeInv, CallTypes, Places
<1>2. /\ call'[c] = Rec(call[c].kind, at, call[c].to, call[c].jobs, call[c].left,
                           call[c].force, call[c].valid, Report, call[c].given)
      /\ \A d \in Calls \ {c} : call'[d] = call[d]
  <2>1. PICK r : r = Rec(call[c].kind, at, call[c].to, call[c].jobs, call[c].left,
                           call[c].force, call[c].valid, Report, call[c].given)
    OBVIOUS
  <2>2. call' = [call EXCEPT ![c] = r]
    BY <1>1, <2>1, SeenGoes
  <2>3. QED
    BY <1>1, <2>1, <2>2
<1>3. QED
  BY <1>2, ResumeOffLine

\* A call that answers its client leaves the line as it is.
LEMMA ReturnLine ==
  ASSUME TypeInv, LineInv, NEW c \in Calls,
         \/ WriteReturns(c) \/ RefusalReturns(c) \/ ChooseReturns(c) \/ LookReturns(c)
         \/ IdentityReturns(c)
  PROVE  /\ LineInv' /\ Untouched /\ Absent(c, Queue, Running, ready') /\ ready # <<>> /\ ready' = Tail(ready)
         /\ ready[1].call = c /\ call'[c] = Idle /\ \A d \in Calls \ {c} : call'[d] = call[d]
<1>1. PICK at \in {"draw", "read", "export", "rebind", "refresh"}, result \in {"ok", "refused"} :
        Resumes(c, at, result) /\ Ends(c) /\ executors' = executors
  BY DEF WriteReturns, RefusalReturns, ChooseReturns, LookReturns, IdentityReturns, IdentityRead
<1>2. /\ call'[c] = Idle /\ \A d \in Calls \ {c} : call'[d] = call[d]
  BY <1>1, EndsTypes
<1>3. QED
  BY <1>1, <1>2, ResumeOffLine, ResumesIs

LEMMA ReuseLine ==
  ASSUME TypeInv, LineInv, NEW c \in Calls, Reuse(c) \/ Parsed(c)
  PROVE  LineInv' /\ Untouched /\ call[c].at \in {"gate", "parse"} /\ \A d \in Calls \ {c} : call'[d] = call[d]
<1>1. /\ executors' = executors /\ ready' = ready /\ call[c].at \in {"gate", "parse"}
      /\ Ends(c) \/ call' = [call EXCEPT ![c].force = TRUE]
  BY DEF Reuse, Parsed, Enters
<1>2. \A d \in Calls \ {c} : call'[d] = call[d]
  BY <1>1, EndsTypes DEF TypeInv, CallTypes
<1>3. QED
  BY <1>1, <1>2, RestLine DEF Waiting

LEMMA LineNext ==
  ASSUME OneThread', TypeInv, LineInv, [Next]_vars
  PROVE  LineInv'
<1>1. CASE Next
  <2>1. CASE \E c \in Calls : Client(c)
    BY <2>1, StartWriteLine, StartChooseLine, StartReadLine, CancelLine DEF Client
  <2>2. CASE \E c \in Calls : Loop(c)
    <3>1. PICK c \in Calls : Loop(c)
      BY <2>2
    <3>2. CASE Detail(c) \/ Parse(c)
      <4>1. /\ Resumes(c, "read", "ok") \/ Resumes(c, "export", "ok")
            /\ \E at \in {"gate", "parse"} : call' = [call EXCEPT ![c].at = at, ![c].seen = Report]
            /\ executors' = executors
        BY <3>2 DEF Detail, Parse
      <4>2. QED
        BY <4>1, DetailLine
    <3>3. QED
      BY <3>1, <3>2, NextSliceLine, ReturnLine, RebindLine, RefreshLine, ReuseLine, ExportLine DEF Loop
  <2>3. CASE \E x \in DOMAIN executors : ComThread(x)
    <3>1. PICK x \in DOMAIN executors : ComThread(x)
      BY <2>3
    <3>2. QED
      BY <3>1, BeginUnguardedLine, RefuseLine, GuardLine, EndReadLine, EndDrawLine, EndSelectLine, EndRebindLine
         DEF ComThread
  <2>4. CASE Timer
    <3>1. CASE Expire
      BY <3>1, RestLine DEF Expire
    <3>2. CASE \E c \in Calls : Deadline(c) \/ RefreshOverruns(c)
      BY <3>2, NoneReplaced DEF Deadline, RefreshOverruns
    <3>3. QED
      BY <2>4, <3>1, <3>2 DEF Timer
  <2>5. CASE Operator
    BY <2>5, RestLine DEF Operator, Click, Edit
  <2>6. QED
    BY <1>1, <2>1, <2>2, <2>3, <2>4, <2>5 DEF Next
<1>2. CASE UNCHANGED vars
  BY <1>2, RestLine DEF vars
<1>3. QED
  BY <1>1, <1>2

LEMMA LineInit ==
  ASSUME Init
  PROVE  LineInv
<1>1. executors = <<NewExecutor>> /\ ready = <<>>
  BY DEF Init
<1>2. Len(executors) = 1 /\ Queue = <<>> /\ Running = None
  BY <1>1 DEF Queue, Running, Thread, NewExecutor
<1>3. DOMAIN <<>> = {}
  OBVIOUS
<1>4. QED
  BY <1>1, <1>2, <1>3 DEF LineInv, Distinct, Held

-------------------------------------------------------------------------------
(* What a guarded job finds, and what is counted *)

\* A guarded job runs in the bound document, which is the active one and all counted.
RunInv ==
  Running # None /\ Running.does \in Guarded =>
    Thread.doc = bound /\ bound \in Docs /\ bound = active /\ edits[bound] = Changes(bound)

\* No count is ahead of the changes.
CountInv == \A d \in Docs : edits[d] # None => edits[d] <= Changes(d)

\* The steps of calls and clock: none touches the documents or the counts.
LoopStep == (\E c \in Calls : Client(c) \/ Loop(c)) \/ Timer \/ UNCHANGED vars

LEMMA LoopSteps ==
  ASSUME OneThread', TypeInv, LineInv, LoopStep
  PROVE  /\ UNCHANGED <<seat, bound, edits>> /\ Thread.doc' = Thread.doc
         /\ Running' # None => Running # None /\ Running'.does = Running.does
<1>1. CASE \E c \in Calls : Client(c)
  <2>1. PICK c \in Calls : Client(c)
    BY <1>1
  <2>2. UNCHANGED <<seat, bound, edits>>
    BY <2>1 DEF Client, StartWrite, StartChoose, StartRead, Start, Cancel, session
  <2>3. CASE Cancel(c)
    <3>1. executors' = Left(c)
      BY <2>3 DEF Cancel
    <3>2. QED
      BY <2>2, <3>1, OneCancels DEF LineInv
  <2>4. CASE ~Cancel(c)
    <3>1. Thread.doc' = Thread.doc /\ Running' = Running
      BY <2>1, <2>4, StartWriteLine, StartChooseLine, StartReadLine DEF Client, Submitted
    <3>2. QED
      BY <2>2, <3>1
  <2>5. QED
    BY <2>3, <2>4
<1>2. CASE \E c \in Calls : Loop(c)
  <2>1. PICK c \in Calls : Loop(c)
    BY <1>2
  <2>2. UNCHANGED <<seat, bound, edits>>
    BY <2>1 DEF Loop, NextSlice, WriteReturns, RefusalReturns, Rebind, ChooseReturns, LookReturns, Refresh,
       IdentityReturns, Detail, Reuse, Export, Parse, Parsed, Resumes, Enters, session
  <2>3. Thread.doc' = Thread.doc /\ Running' = Running
    <3>1. CASE Detail(c) \/ Parse(c)
      BY <3>1, OneUntouched DEF Detail, Parse, Untouched
    <3>2. QED
      BY <2>1, <3>1, NextSliceLine, ReturnLine, RebindLine, RefreshLine, ReuseLine, ExportLine
         DEF Loop, Submitted, Untouched
  <2>4. QED
    BY <2>2, <2>3
<1>3. CASE Timer
  <2>1. Expire
    BY <1>3, NoneReplaced DEF Timer, Deadline, RefreshOverruns
  <2>2. QED
    BY <2>1, OneUntouched DEF Expire, Untouched, session
<1>4. CASE UNCHANGED vars
  BY <1>4, OneUntouched DEF vars, session, Untouched
<1>5. QED
  BY <1>1, <1>2, <1>3, <1>4 DEF LoopStep

LEMMA RunNext ==
  ASSUME OneThread', TypeInv, LineInv, RunInv, [Next]_vars
  PROVE  RunInv'
<1>1. CASE LoopStep
  BY <1>1, LoopSteps DEF RunInv, Changes, OperatorEdits, seat
<1>2. CASE Operator
  <2>1. 1 \in DOMAIN executors /\ NoJobRuns /\ executors' = executors
    BY <1>2, OneIs DEF LineInv, Operator, Click, Edit
  <2>2. Running' = None
    BY <2>1 DEF NoJobRuns, Running, Thread
  <2>3. QED
    BY <2>2 DEF RunInv
<1>3. CASE \E x \in DOMAIN executors : ComThread(x)
  <2>1. PICK x \in DOMAIN executors : ComThread(x)
    BY <1>3
  <2>2. CASE BeginUnguarded(x)
    <3>1. Running' = Queue[1] /\ Queue[1].does \in Unguarded
      BY <2>2, BeginUnguardedLine DEF Started
    <3>2. QED
      BY <3>1 DEF RunInv, Unguarded, Guarded
  <2>3. CASE Guard(x)
    <3>1. Thread.doc' = active
      BY <2>3, GuardLine DEF Started
    <3>2. /\ bound' = active /\ active' = active /\ content' = content /\ active \in Docs
          /\ edits' = [edits EXCEPT ![active] = Changes(active)] /\ edits \in [Docs -> Nat \cup {None}]
      BY <2>3 DEF Guard, seat, TypeInv, SeatTypes
    <3>3. edits'[active] = Changes(active)
      BY <3>2
    <3>4. QED
      BY <3>1, <3>2, <3>3 DEF RunInv, Changes, OperatorEdits
  <2>4. CASE ~BeginUnguarded(x) /\ ~Guard(x)
    <3>1. Running' = None
      BY <2>1, <2>4, RefuseLine, EndReadLine, EndDrawLine, EndSelectLine, EndRebindLine DEF ComThread, Finished
    <3>2. QED
      BY <3>1 DEF RunInv
  <2>5. QED
    BY <2>2, <2>3, <2>4
<1>4. QED
  BY <1>1, <1>2, <1>3 DEF Next, LoopStep

\* What the counts are after an end: as they were, but for a draw's own document.
LEMMA EditsStay ==
  ASSUME OneThread', TypeInv, LineInv, RunInv, NEW x \in DOMAIN executors,
         NEW counted \in BOOLEAN, EndRead(x, counted)
  PROVE  UNCHANGED <<content, edits, bound>>
<1>1. Absorbed(counted) /\ UNCHANGED <<seat, bound>>
  BY DEF EndRead
<1>2. Running # None /\ Running.does \in Guarded
  BY EndReadLine DEF Finished, Guarded
<1>3. bound \in Docs /\ edits[bound] = Changes(bound)
  BY <1>2 DEF RunInv
<1>4. edits \in [Docs -> Nat \cup {None}] /\ content' = content /\ content' \in [Docs -> [Parts -> Nat]]
  BY <1>1 DEF TypeInv, SeatTypes, seat
<1>5. edits' \in [Docs -> Nat \cup {None}]
      /\ \A d \in Docs : edits'[d] = IF counted /\ d = bound /\ edits[d] # None
                                          THEN content'[d]["drawn"] + (content'[d]["listed"] + content'[d]["other"])
                                          ELSE edits[d]
  BY <1>1, <1>4, AbsorbedIs
<1>6. edits[bound] = content'[bound]["drawn"] + (content'[bound]["listed"] + content'[bound]["other"])
  BY <1>3, <1>4 DEF Changes, OperatorEdits
<1>7. \A d \in Docs : edits'[d] = edits[d]
  BY <1>5, <1>6
<1>8. QED
  BY <1>1, <1>4, <1>5, <1>7

\* One more change of a document.
LEMMA ChangesGrow ==
  ASSUME TypeInv, NEW d \in Docs, NEW p \in Parts, content' = [content EXCEPT ![d][p] = @ + 1]
  PROVE  /\ Changes(d)' = Changes(d) + 1 /\ Changes(d) \in Nat
         /\ \A e \in Docs \ {d} : content'[e] = content[e] /\ Changes(e)' = Changes(e)
         /\ \A o \in Parts \ {p} : content'[d][o] = content[d][o]
<1>1. content \in [Docs -> [Parts -> Nat]] /\ content[d] \in [Parts -> Nat]
  BY DEF TypeInv, SeatTypes
<1>2. content' = [content EXCEPT ![d] = [content[d] EXCEPT ![p] = @ + 1]]
  OBVIOUS
<1>3. content'[d] = [content[d] EXCEPT ![p] = @ + 1] /\ \A e \in Docs \ {d} : content'[e] = content[e]
  BY <1>1, <1>2
<1>4. content'[d][p] = content[d][p] + 1 /\ \A o \in Parts \ {p} : content'[d][o] = content[d][o]
  BY <1>1, <1>3
<1>5. content[d]["drawn"] \in Nat /\ content[d]["listed"] \in Nat /\ content[d]["other"] \in Nat
  BY <1>1 DEF Parts
<1>6. p \in {"drawn", "listed", "other"}
  BY DEF Parts
<1>7. content'[d]["drawn"] + (content'[d]["listed"] + content'[d]["other"])
        = content[d]["drawn"] + (content[d]["listed"] + content[d]["other"]) + 1
  <2>0. PICK i \in Nat, j \in Nat, k \in Nat :
          i = content[d]["drawn"] /\ j = content[d]["listed"] /\ k = content[d]["other"]
    BY <1>5
  <2>1. CASE p = "drawn"
    <3>1. "listed" \in Parts \ {p} /\ "other" \in Parts \ {p}
      BY <2>1 DEF Parts
    <3>2. /\ content'[d]["listed"] = content[d]["listed"] /\ content'[d]["other"] = content[d]["other"]
          /\ content'[d]["drawn"] = content[d]["drawn"] + 1
      BY <1>4, <2>1, <3>1
    <3>3. (i + 1) + (j + k) = i + (j + k) + 1
      OBVIOUS
    <3>4. QED
      BY <2>0, <3>2, <3>3
  <2>2. CASE p = "listed"
    <3>1. "drawn" \in Parts \ {p} /\ "other" \in Parts \ {p}
      BY <2>2 DEF Parts
    <3>2. /\ content'[d]["drawn"] = content[d]["drawn"] /\ content'[d]["other"] = content[d]["other"]
          /\ content'[d]["listed"] = content[d]["listed"] + 1
      BY <1>4, <2>2, <3>1
    <3>3. i + ((j + 1) + k) = i + (j + k) + 1
      OBVIOUS
    <3>4. QED
      BY <2>0, <3>2, <3>3
  <2>3. CASE p = "other"
    <3>1. "drawn" \in Parts \ {p} /\ "listed" \in Parts \ {p}
      BY <2>3 DEF Parts
    <3>2. /\ content'[d]["drawn"] = content[d]["drawn"] /\ content'[d]["listed"] = content[d]["listed"]
          /\ content'[d]["other"] = content[d]["other"] + 1
      BY <1>4, <2>3, <3>1
    <3>3. i + (j + (k + 1)) = i + (j + k) + 1
      OBVIOUS
    <3>4. QED
      BY <2>0, <3>2, <3>3
  <2>4. QED
    BY <1>6, <2>1, <2>2, <2>3
<1>8. QED
  BY <1>3, <1>4, <1>5, <1>7 DEF Changes, OperatorEdits

LEMMA ChangesRise ==
  ASSUME TypeInv, NEW d \in Docs, NEW p \in Parts, content' = [content EXCEPT ![d][p] = @ + 1], NEW e \in Docs
  PROVE  Changes(e)' \in Nat /\ Changes(e) \in Nat /\ Changes(e) <= Changes(e)'
<1>1. Changes(e) \in Nat
  BY DEF TypeInv, SeatTypes, Changes, OperatorEdits, Parts
<1>2. CASE e = d
  <2>1. Changes(d)' = Changes(d) + 1
    BY ChangesGrow
  <2>2. QED
    BY <1>1, <1>2, <2>1
<1>3. CASE e # d
  <2>1. Changes(e)' = Changes(e)
    BY <1>3, ChangesGrow
  <2>2. QED
    BY <1>1, <2>1
<1>4. QED
  BY <1>2, <1>3

LEMMA CountNext ==
  ASSUME OneThread', TypeInv, LineInv, RunInv, CountInv, [Next]_vars
  PROVE  CountInv'
<1>0. edits \in [Docs -> Nat \cup {None}] /\ active \in Docs /\ \A d \in Docs : Changes(d) \in Nat
  BY DEF TypeInv, SeatTypes, Changes, OperatorEdits, Parts
<1>1. CASE LoopStep
  BY <1>1, LoopSteps DEF CountInv, Changes, OperatorEdits, seat
<1>2. CASE Operator
  <2>1. CASE \E d \in Docs : Click(d)
    BY <2>1 DEF Click, CountInv, Changes, OperatorEdits, session
  <2>2. CASE \E p \in Parts : Edit(p)
    <3>1. PICK p \in Parts : content' = [content EXCEPT ![active][p] = @ + 1] /\ edits' = edits
      BY <2>2 DEF Edit, session
    <3>2. ASSUME NEW d \in Docs PROVE Changes(d) <= Changes(d)'
      BY <1>0, <3>1, ChangesRise
    <3>3. ASSUME NEW d \in Docs PROVE Changes(d)' \in Nat
      BY <1>0, <3>1, ChangesRise
    <3>4. ASSUME NEW d \in Docs, edits'[d] # None PROVE edits'[d] <= Changes(d)'
      <4>1. edits[d] \in Nat /\ edits'[d] = edits[d] /\ edits[d] <= Changes(d)
        BY <1>0, <3>1, <3>4 DEF CountInv
      <4>2. QED
        BY <1>0, <3>2, <3>3, <4>1
    <3>5. QED
      BY <3>4 DEF CountInv
  <2>3. QED
    BY <1>2, <2>1, <2>2 DEF Operator
<1>3. CASE \E x \in DOMAIN executors : ComThread(x)
  <2>1. PICK x \in DOMAIN executors : ComThread(x)
    BY <1>3
  <2>2. CASE Guard(x)
    <3>1. content' = content /\ edits' = [edits EXCEPT ![active] = Changes(active)]
      BY <2>2 DEF Guard, seat
    <3>2. QED
      BY <1>0, <3>1 DEF CountInv, Changes, OperatorEdits
  <2>3. CASE \E counted \in BOOLEAN : EndDraw(x, counted)
    <3>1. PICK counted \in BOOLEAN : EndDraw(x, counted)
      BY <2>3
    <3>2. /\ Thread.doc \in Docs /\ content' = [content EXCEPT ![Thread.doc]["drawn"] = @ + 1]
      BY <3>1, EndDrawLine
    <3>3. ASSUME NEW d \in Docs PROVE Changes(d) <= Changes(d)' /\ Changes(d)' \in Nat
      <4>1. "drawn" \in Parts
        BY DEF Parts
      <4>2. PICK t \in Docs : t = Thread.doc
        BY <3>2
      <4>3. content' = [content EXCEPT ![t]["drawn"] = @ + 1]
        BY <3>2, <4>2
      <4>4. QED
        BY <4>1, <4>3, ChangesRise
    <3>4. content' \in [Docs -> [Parts -> Nat]] /\ Absorbed(counted) /\ bound' = bound
      BY <3>1, <3>2, DrawnIs DEF EndDraw
    <3>5. ASSUME NEW d \in Docs, edits'[d] # None PROVE edits'[d] <= Changes(d)'
      <4>1. edits'[d] \in {edits[d], Changes(d)'}
        BY <3>4, AbsorbedIs DEF Changes, OperatorEdits
      <4>2. edits'[d] = edits[d] => edits[d] \in Nat /\ edits[d] <= Changes(d)
        BY <1>0, <3>5 DEF CountInv
      <4>3. QED
        BY <1>0, <3>3, <4>1, <4>2
    <3>6. QED
      BY <3>5 DEF CountInv
  <2>4. CASE ~Guard(x) /\ ~\E counted \in BOOLEAN : EndDraw(x, counted)
    <3>1. content' = content /\ edits' = edits
      <4>1. CASE \E counted \in BOOLEAN : EndRead(x, counted)
        BY <4>1, EditsStay
      <4>2. CASE ~\E counted \in BOOLEAN : EndRead(x, counted)
        BY <2>1, <2>4, <4>2 DEF ComThread, BeginUnguarded, Refuse, EndSelect, EndRebind, seat, session
      <4>3. QED
        BY <4>1, <4>2
    <3>2. QED
      BY <3>1 DEF CountInv, Changes, OperatorEdits
  <2>5. QED
    BY <2>2, <2>3, <2>4
<1>4. QED
  BY <1>1, <1>2, <1>3 DEF Next, LoopStep

-------------------------------------------------------------------------------
(* The reused export *)

\* It is of the bound document and holds everything the server drew.
Clean(s, d, held) == s.doc = d /\ d \in Docs /\ s.holds["drawn"] = held[d]["drawn"]

\* The server draws nothing yet, or nothing after the job of c.
NoDraw(q, r) == (\A i \in DOMAIN q : q[i].does # "draw") /\ (r # None => r.does # "draw")
NoLater(c, q, r, y) ==
  /\ \A i, j \in DOMAIN q : q[i].call = c /\ i < j => q[j].does # "draw"
  /\ r # None /\ r.call = c => \A j \in DOMAIN q : q[j].does # "draw"
  /\ \A k \in DOMAIN y : y[k].call = c => NoDraw(q, r)

\* An export under way that may be stored still.
Kept(c, f, q, r, y, d, held) ==
  /\ f[c].at \in {"export", "parse"}
  /\ f[c].at = "parse" => Clean(f[c].seen, d, held) /\ NoDraw(q, r)
  /\ f[c].at = "export" =>
       /\ NoLater(c, q, r, y)
       /\ \A k \in DOMAIN y : y[k].call = c /\ y[k].result = "ok" => Clean(y[k].seen, d, held)

CacheInv ==
  /\ cache # None => Clean(cache.seen, bound, content) /\ NoDraw(Queue, Running)
  /\ \A c \in Calls : call[c].valid => Kept(c, call, Queue, Running, ready, bound, content)

\* One more job at the end of the queue.
LEMMA DrawSubmit ==
  ASSUME NEW q \in Seq(Queued), NEW r, NEW y, NEW j \in Queued
  PROVE  /\ NoDraw(q, r) /\ j.does # "draw" => NoDraw(Append(q, j), r)
         /\ \A c : NoLater(c, q, r, y) /\ j.does # "draw" => NoLater(c, Append(q, j), r, y)
         /\ \A c : Absent(c, q, r, y) => NoLater(c, Append(q, j), r, y)
<1>1. /\ Len(q) \in Nat /\ DOMAIN q = 1..Len(q)
      /\ DOMAIN Append(q, j) = 1..(Len(q) + 1) /\ Append(q, j)[Len(q) + 1] = j
      /\ \A i \in 1..Len(q) : Append(q, j)[i] = q[i]
  BY Members, Appended
<1>2. PICK p : p = Append(q, j)
  OBVIOUS
<1>3. \A i \in DOMAIN p : \/ i \in DOMAIN q /\ p[i] = q[i]
                          \/ i = Len(q) + 1 /\ p[i] = j
  BY <1>1, <1>2
<1>4. NoDraw(q, r) /\ j.does # "draw" => NoDraw(p, r)
  BY <1>3 DEF NoDraw
<1>5. ASSUME NEW c, NoLater(c, q, r, y), j.does # "draw" PROVE NoLater(c, p, r, y)
  <2>1. \A i, k \in DOMAIN p : p[i].call = c /\ i < k => p[k].does # "draw"
    <3> SUFFICES ASSUME NEW i \in DOMAIN p, NEW k \in DOMAIN p, p[i].call = c, i < k
                 PROVE  p[k].does # "draw"
      OBVIOUS
    <3>1. CASE k \in DOMAIN q
      <4>1. i \in DOMAIN q /\ p[i] = q[i] /\ p[k] = q[k]
        BY <1>1, <1>2, <1>3, <3>1
      <4>2. QED
        BY <1>5, <3>1, <4>1 DEF NoLater
    <3>2. CASE k \notin DOMAIN q
      BY <1>3, <1>5, <3>2
    <3>3. QED
      BY <3>1, <3>2
  <2>2. r # None /\ r.call = c => \A k \in DOMAIN p : p[k].does # "draw"
    BY <1>3, <1>5 DEF NoLater
  <2>3. \A k \in DOMAIN y : y[k].call = c => NoDraw(p, r)
    BY <1>4, <1>5 DEF NoLater
  <2>4. QED
    BY <2>1, <2>2, <2>3 DEF NoLater
<1>6. ASSUME NEW c, Absent(c, q, r, y) PROVE NoLater(c, p, r, y)
  <2>1. ASSUME NEW i \in DOMAIN p, NEW k \in DOMAIN p, p[i].call = c, i < k PROVE FALSE
    BY <1>1, <1>2, <1>3, <1>6, <2>1 DEF Absent
  <2>2. QED
    BY <1>6, <2>1 DEF NoLater, Absent
<1>7. QED
  BY <1>2, <1>4, <1>5, <1>6

\* The first job goes to the thread, or is refused; e is what it answers.
LEMMA DrawBegin ==
  ASSUME NEW q \in Seq(Queued), NEW y \in Seq(Entries), q # <<>>
  PROVE  /\ NoDraw(q, None) => NoDraw(Tail(q), q[1]) /\ NoDraw(Tail(q), None)
         /\ \A c : NoLater(c, q, None, y) => NoLater(c, Tail(q), q[1], y)
         /\ \A c \in Calls : \A e \in Entries : e.call = q[1].call /\ NoLater(c, q, None, y) => NoLater(c, Tail(q), None, Append(y, e))
<1>1. /\ Len(q) \in Nat /\ DOMAIN q = 1..Len(q) /\ 1 \in DOMAIN q /\ DOMAIN Tail(q) = 1..(Len(q) - 1)
      /\ \A i \in 1..(Len(q) - 1) : Tail(q)[i] = q[i + 1]
  BY TailIs, Members
<1>2. PICK z : z = Tail(q)
  OBVIOUS
<1>3. \A i \in DOMAIN z : i + 1 \in DOMAIN q /\ z[i] = q[i + 1] /\ 1 < i + 1
  BY <1>1, <1>2
<1>4. \A i, j \in DOMAIN z : i < j => i + 1 < j + 1
  BY <1>1, <1>2
<1>5. NoDraw(q, None) => NoDraw(z, q[1]) /\ NoDraw(z, None)
  BY <1>1, <1>3 DEF NoDraw
<1>6. ASSUME NEW c, NoLater(c, q, None, y) PROVE NoLater(c, z, q[1], y)
  <2>1. \A i, j \in DOMAIN z : z[i].call = c /\ i < j => z[j].does # "draw"
    BY <1>3, <1>4, <1>6 DEF NoLater
  <2>2. q[1].call = c => \A j \in DOMAIN z : z[j].does # "draw"
    BY <1>1, <1>3, <1>6 DEF NoLater
  <2>3. \A k \in DOMAIN y : y[k].call = c => NoDraw(z, q[1])
    BY <1>5, <1>6 DEF NoLater
  <2>4. QED
    BY <2>1, <2>2, <2>3 DEF NoLater
<1>7. ASSUME NEW c, NEW e \in Entries, e.call = q[1].call, NoLater(c, q, None, y)
      PROVE  NoLater(c, z, None, Append(y, e))
  <2>1. \A i, j \in DOMAIN z : z[i].call = c /\ i < j => z[j].does # "draw"
    BY <1>3, <1>4, <1>7 DEF NoLater
  <2>2. /\ Len(y) \in Nat /\ DOMAIN y = 1..Len(y)
        /\ DOMAIN Append(y, e) = 1..(Len(y) + 1)
        /\ \A i \in 1..Len(y) : Append(y, e)[i] = y[i]
        /\ Append(y, e)[Len(y) + 1] = e
    BY Members, Appended
  <2>3. PICK w : w = Append(y, e)
    OBVIOUS
  <2>4. \A k \in DOMAIN w : \/ k \in DOMAIN y /\ w[k] = y[k]
                            \/ k = Len(y) + 1 /\ w[k] = e
    BY <2>2, <2>3
  <2>5. e.call = c => NoDraw(z, None)
    BY <1>1, <1>3, <1>7 DEF NoLater, NoDraw
  <2>6. \A k \in DOMAIN w : w[k].call = c => NoDraw(z, None)
    BY <1>5, <1>7, <2>4, <2>5 DEF NoLater
  <2>7. QED
    BY <2>1, <2>3, <2>6 DEF NoLater
<1>8. QED
  BY <1>2, <1>5, <1>6, <1>7

\* A job ends.
LEMMA DrawEnd ==
  ASSUME NEW q, NEW r, NEW y \in Seq(Entries), r # None
  PROVE  /\ NoDraw(q, r) => NoDraw(q, None)
         /\ \A c : NoLater(c, q, r, y) => NoLater(c, q, None, y)
         /\ \A c \in Calls : \A e \in Entries : e.call = r.call /\ NoLater(c, q, r, y) => NoLater(c, q, None, Append(y, e))
<1>1. ASSUME NEW c, NEW e \in Entries, e.call = r.call, NoLater(c, q, r, y)
      PROVE  NoLater(c, q, None, Append(y, e))
  <2>2. /\ Len(y) \in Nat /\ DOMAIN y = 1..Len(y)
        /\ DOMAIN Append(y, e) = 1..(Len(y) + 1)
        /\ \A i \in 1..Len(y) : Append(y, e)[i] = y[i]
        /\ Append(y, e)[Len(y) + 1] = e
    BY Members, Appended
  <2>3. PICK w : w = Append(y, e)
    OBVIOUS
  <2>4. \A k \in DOMAIN w : \/ k \in DOMAIN y /\ w[k] = y[k]
                            \/ k = Len(y) + 1 /\ w[k] = e
    BY <2>2, <2>3
  <2>5. QED
    BY <1>1, <2>3, <2>4 DEF NoLater, NoDraw
<1>2. QED
  BY <1>1 DEF NoLater, NoDraw

\* The loop takes an answer, or a call is cancelled.
LEMMA DrawLess ==
  ASSUME NEW q, NEW r, NEW y, NEW p, NEW s, NEW z, NEW m, NEW n, Sub(p, q, m), Sub(z, y, n),
         s # None => r # None /\ s.does = r.does /\ s.call \in {r.call, None}
  PROVE  /\ NoDraw(q, r) => NoDraw(p, s)
         /\ \A c \in Calls : NoLater(c, q, r, y) => NoLater(c, p, s, z)
<1>1. \A i \in DOMAIN p : m[i] \in DOMAIN q /\ p[i] = q[m[i]]
  BY DEF Sub
<1>2. \A i, j \in DOMAIN p : i < j => m[i] < m[j]
  BY DEF Sub
<1>3. \A k \in DOMAIN z : n[k] \in DOMAIN y /\ z[k] = y[n[k]]
  BY DEF Sub
<1>4. NoDraw(q, r) => NoDraw(p, s)
  BY <1>1 DEF NoDraw
<1>5. ASSUME NEW c \in Calls, NoLater(c, q, r, y) PROVE NoLater(c, p, s, z)
  <2>1. \A i, j \in DOMAIN p : p[i].call = c /\ i < j => p[j].does # "draw"
    BY <1>1, <1>2, <1>5 DEF NoLater
  <2>2. s # None /\ s.call = c => \A j \in DOMAIN p : p[j].does # "draw"
    BY <1>1, <1>5, NoneIs DEF NoLater
  <2>3. \A k \in DOMAIN z : z[k].call = c => NoDraw(p, s)
    BY <1>3, <1>4, <1>5 DEF NoLater
  <2>4. QED
    BY <2>1, <2>2, <2>3 DEF NoLater
<1>6. QED
  BY <1>4, <1>5

LEMMA SameSub ==
  ASSUME NEW S, NEW s \in Seq(S)
  PROVE  \E m : Sub(s, s, m)
<1> DEFINE m == [i \in DOMAIN s |-> i]
<1>1. Sub(s, s, m)
  BY DEF Sub
<1>2. QED
  BY <1>1

\* Nothing is stored, and nothing under way may be.
LEMMA CacheGone ==
  ASSUME cache' = None, \A c \in Calls : ~call'[c].valid
  PROVE  CacheInv'
BY DEF CacheInv

\* A step of the line that draws nothing keeps what may be stored.
DrawsNot ==
  /\ NoDraw(Queue, Running) => NoDraw(Queue', Running')
  /\ \A c \in Calls : NoLater(c, Queue, Running, ready) => NoLater(c, Queue', Running', ready')
  /\ \A k \in DOMAIN ready' : \/ \E i \in DOMAIN ready : ready[i] = ready'[k]
                              \/ call[ready'[k].call].at # "export"
                              \/ ready'[k].result = "ok" => Clean(ready'[k].seen, bound', content')
StaysValid(c) ==
  call'[c].valid =>
    \/ call[c].valid /\ call'[c].at = call[c].at /\ call'[c].seen = call[c].seen
    \/ Kept(c, call', Queue', Running', ready', bound', content')
StaysClean == \A s \in Seens : Clean(s, bound, content) => Clean(s, bound', content')

LEMMA CacheStays ==
  ASSUME TypeInv, LineInv, CacheInv, DrawsNot, StaysClean,
         cache' = cache \/ cache' = None,
         \A c \in Calls : StaysValid(c)
  PROVE  CacheInv'
<1>0. /\ cache # None => cache.seen \in Seens
      /\ \A c \in Calls : call[c].seen \in Seens
      /\ \A k \in DOMAIN ready : ready[k].seen \in Seens
  <2>1. ready \in Seq(Entries)
    BY DEF TypeInv, ThreadTypes
  <2>2. \A k \in DOMAIN ready : ready[k] \in Entries
    BY <2>1, Members
  <2>3. QED
    BY <2>2, CallIs DEF TypeInv, MemoryTypes, Entries
<1>1. ASSUME NEW c \in Calls, call'[c].valid
      PROVE  Kept(c, call', Queue', Running', ready', bound', content')
  <2>1. CASE Kept(c, call', Queue', Running', ready', bound', content')
    BY <2>1 DEF Kept
  <2>2. CASE call[c].valid /\ call'[c].at = call[c].at /\ call'[c].seen = call[c].seen
    <3>1. Kept(c, call, Queue, Running, ready, bound, content)
      BY <2>2 DEF CacheInv
    <3>2. call'[c].at \in {"export", "parse"}
      BY <2>2, <3>1 DEF Kept
    <3>3. call'[c].at = "parse" => Clean(call'[c].seen, bound', content') /\ NoDraw(Queue', Running')
      BY <1>0, <2>2, <3>1 DEF Kept, DrawsNot, StaysClean
    <3>4. call'[c].at = "export" => NoLater(c, Queue', Running', ready')
      BY <2>2, <3>1 DEF Kept, DrawsNot
    <3>5. ASSUME call'[c].at = "export", NEW k \in DOMAIN ready', ready'[k].call = c, ready'[k].result = "ok"
          PROVE  Clean(ready'[k].seen, bound', content')
      <4>1. \A i \in DOMAIN ready : ready[i].call = c /\ ready[i].result = "ok" => Clean(ready[i].seen, bound, content)
        BY <2>2, <3>1, <3>5 DEF Kept
      <4>2. CASE \E i \in DOMAIN ready : ready[i] = ready'[k]
        <5>1. PICK i \in DOMAIN ready : ready[i] = ready'[k]
          BY <4>2
        <5>2. Clean(ready[i].seen, bound, content)
          BY <3>5, <4>1, <5>1
        <5>3. Clean(ready[i].seen, bound', content')
          BY <1>0, <5>2 DEF StaysClean
        <5>4. QED
          BY <5>1, <5>3
      <4>3. QED
        BY <2>2, <3>5, <4>2 DEF DrawsNot
    <3>6. QED
      BY <3>2, <3>3, <3>4, <3>5 DEF Kept
  <2>3. QED
    BY <1>1, <2>1, <2>2 DEF StaysValid
<1>2. cache' # None => Clean(cache'.seen, bound', content') /\ NoDraw(Queue', Running')
  BY <1>0 DEF CacheInv, DrawsNot, StaysClean
<1>3. QED
  BY <1>1, <1>2 DEF CacheInv

\* A call in any other place has no export under way.
LEMMA NotValid ==
  ASSUME CacheInv, NEW c \in Calls, call[c].at \notin {"export", "parse"}
  PROVE  ~call[c].valid
BY DEF CacheInv, Kept

LEMMA StartCache ==
  ASSUME TypeInv, LineInv, CacheInv, NEW c \in Calls,
         \/ \E jobs \in 1..Slices : StartWrite(c, jobs)
         \/ \E kind \in Kinds : StartRead(c, kind)
         \/ \E d \in Docs : StartChoose(c, d)
  PROVE  CacheInv'
<1>1. CASE \E jobs \in 1..Slices : StartWrite(c, jobs)
  <2>1. PICK jobs \in 1..Slices : StartWrite(c, jobs)
    BY <1>1
  <2>2. /\ call'[c] = Rec("write", "draw", None, jobs, jobs, FALSE, FALSE, Unseen, None)
        /\ \A d \in Calls \ {c} : call'[d] = Retired[d]
    BY <2>1, StartWriteLine
  <2>3. ~call'[c].valid
    BY <2>2 DEF Rec
  <2>4. \A d \in Calls : ~call'[d].valid
    BY <2>2, <2>3, RetiredIs
  <2>5. QED
    BY <2>1, <2>4, CacheGone DEF StartWrite
<1>2. ASSUME NEW j \in Queued, j.does # "draw", Submitted(j), ready' = ready, UNCHANGED <<content, bound, cache>>,
             ~call'[c].valid, \A d \in Calls \ {c} : call'[d] = call[d]
      PROVE  CacheInv'
  <2>1. Queue \in Seq(Queued)
    BY OneIs DEF LineInv
  <2>2. /\ NoDraw(Queue, Running) => NoDraw(Queue', Running')
        /\ \A d \in Calls : NoLater(d, Queue, Running, ready) => NoLater(d, Queue', Running', ready')
    BY <1>2, <2>1, DrawSubmit DEF Submitted
  <2>3. DrawsNot
    BY <1>2, <2>2 DEF DrawsNot
  <2>4. StaysClean
    BY <1>2 DEF StaysClean
  <2>5. \A d \in Calls : StaysValid(d)
    BY <1>2 DEF StaysValid
  <2>6. QED
    BY <1>2, <2>3, <2>4, <2>5, CacheStays
<1>3. CASE \E kind \in Kinds : StartRead(c, kind)
  <2>1. PICK kind \in Kinds : StartRead(c, kind)
    BY <1>3
  <2>2. Job(c, "read") \in Queued /\ Job(c, "read").does # "draw"
    BY JobIs DEF Works
  <2>3. ~call'[c].valid
    <3>1. call'[c] = Rec(kind, "read", None, 0, 0, FALSE, FALSE, Unseen, IF kind = "check" THEN promised ELSE None)
      BY <2>1, StartReadLine
    <3>2. QED
      BY <3>1 DEF Rec
  <2>4. QED
    BY <1>2, <2>1, <2>2, <2>3, StartReadLine DEF StartRead, Start, seat, session
<1>4. CASE \E d \in Docs : StartChoose(c, d)
  <2>1. PICK d \in Docs : StartChoose(c, d)
    BY <1>4
  <2>2. PICK j \in Queued : j.does = "select" /\ Submitted(j)
    BY <2>1, StartChooseLine
  <2>3. ~call'[c].valid
    <3>1. call'[c] = Rec("choose", "select", d, 0, 0, FALSE, FALSE, Unseen, None)
      BY <2>1, StartChooseLine
    <3>2. QED
      BY <3>1 DEF Rec
  <2>4. QED
    BY <1>2, <2>1, <2>2, <2>3, StartChooseLine DEF StartChoose, Start, seat, session
<1>5. QED
  BY <1>1, <1>3, <1>4

\* The answer that is taken had nothing to say to the other calls.
LEMMA TailCache ==
  ASSUME NEW y \in Seq(Entries), y # <<>>, NEW q \in Seq(Queued), NEW r
  PROVE  /\ \A k \in DOMAIN Tail(y) : \E i \in DOMAIN y : y[i] = Tail(y)[k]
         /\ \A d \in Calls : NoLater(d, q, r, y) => NoLater(d, q, r, Tail(y))
<1>1. PICK n : Sub(Tail(y), y, n)
  BY TailSub
<1>2. PICK m : Sub(q, q, m)
  BY SameSub
<1>3. \A d \in Calls : NoLater(d, q, r, y) => NoLater(d, q, r, Tail(y))
  BY <1>1, <1>2, DrawLess
<1>4. \A k \in DOMAIN Tail(y) : \E i \in DOMAIN y : y[i] = Tail(y)[k]
  BY <1>1 DEF Sub
<1>5. QED
  BY <1>3, <1>4

\* What the step leaves of the line and of the documents.
LEMMA StillDraws ==
  ASSUME TypeInv, LineInv, NEW j \in Queued, j.does # "draw", Submitted(j),
         ready' = ready \/ (ready # <<>> /\ ready' = Tail(ready))
  PROVE  DrawsNot
<1>1. Queue \in Seq(Queued) /\ ready \in Seq(Entries)
  BY OneIs DEF LineInv
<1>2. PICK q : q = Append(Queue, j)
  OBVIOUS
<1>3. /\ NoDraw(Queue, Running) => NoDraw(q, Running)
      /\ \A d \in Calls : NoLater(d, Queue, Running, ready) => NoLater(d, q, Running, ready)
      /\ q \in Seq(Queued)
  BY <1>1, <1>2, DrawSubmit, Appended
<1>4. Queue' = q /\ Running' = Running
  BY <1>2 DEF Submitted
<1>5. CASE ready' = ready
  BY <1>3, <1>4, <1>5 DEF DrawsNot
<1>6. CASE ready # <<>> /\ ready' = Tail(ready)
  <2>1. /\ \A k \in DOMAIN Tail(ready) : \E i \in DOMAIN ready : ready[i] = Tail(ready)[k]
        /\ \A d \in Calls : NoLater(d, q, Running, ready) => NoLater(d, q, Running, Tail(ready))
    BY <1>1, <1>3, <1>6, TailCache
  <2>2. QED
    BY <1>3, <1>4, <1>6, <2>1 DEF DrawsNot
<1>7. QED
  BY <1>5, <1>6

LEMMA StillRests ==
  ASSUME TypeInv, LineInv, Untouched,
         ready' = ready \/ (ready # <<>> /\ ready' = Tail(ready))
  PROVE  DrawsNot
<1>1. Queue \in Seq(Queued) /\ ready \in Seq(Entries)
  BY OneIs DEF LineInv
<1>2. Queue' = Queue /\ Running' = Running
  BY DEF Untouched
<1>3. CASE ready' = ready
  BY <1>2, <1>3 DEF DrawsNot
<1>4. CASE ready # <<>> /\ ready' = Tail(ready)
  <2>1. /\ \A k \in DOMAIN Tail(ready) : \E i \in DOMAIN ready : ready[i] = Tail(ready)[k]
        /\ \A d \in Calls : NoLater(d, Queue, Running, ready) => NoLater(d, Queue, Running, Tail(ready))
    BY <1>1, <1>4, TailCache
  <2>2. QED
    BY <1>2, <1>4, <2>1 DEF DrawsNot
<1>5. QED
  BY <1>3, <1>4

LEMMA StillClean ==
  ASSUME UNCHANGED <<seat, bound>>
  PROVE  StaysClean
BY DEF StaysClean, seat

\* A call is resumed: its next job, or its answer.
LEMMA NextSliceCache ==
  ASSUME TypeInv, LineInv, CacheInv, NEW c \in Calls, NextSlice(c)
  PROVE  CacheInv'
<1>1. cache' = None /\ call[c].at = "draw" /\ call[c] \in CallRecs
  BY CallIs, ResumesIs DEF NextSlice
<1>2. ~call[c].valid
  BY <1>1, NotValid
<1>3. call'[c] = [call[c] EXCEPT !.left = @ - 1] /\ \A d \in Calls \ {c} : call'[d] = Retired[d]
  BY NextSliceLine
<1>4. ~call'[c].valid
  BY <1>1, <1>2, <1>3 DEF CallRecs
<1>5. \A d \in Calls : ~call'[d].valid
  BY <1>3, <1>4, RetiredIs
<1>6. QED
  BY <1>1, <1>5, CacheGone

LEMMA OnwardCache ==
  ASSUME TypeInv, LineInv, CacheInv, NEW c \in Calls, Rebind(c) \/ Refresh(c)
  PROVE  CacheInv'
<1>1. /\ ready # <<>> /\ ready' = Tail(ready) /\ UNCHANGED <<seat, bound>> /\ cache' = cache
      /\ call[c].at \in {"select", "read"}
  BY ResumesIs DEF Rebind, Refresh, memory
<1>2. ~call[c].valid /\ call[c] \in CallRecs
  BY <1>1, NotValid, CallIs
<1>3. \A d \in Calls \ {c} : call'[d] = call[d]
  BY RebindLine, RefreshLine
<1>4. ~call'[c].valid
  <2>1. CASE Rebind(c)
    <3>1. call'[c] = [call[c] EXCEPT !.at = "rebind"]
      BY <2>1, RebindLine
    <3>2. QED
      BY <1>2, <3>1 DEF CallRecs
  <2>2. CASE Refresh(c)
    <3>1. call'[c] = Rec(call[c].kind, "refresh", call[c].to, call[c].jobs, call[c].left,
                           call[c].force, call[c].valid, Report, call[c].given)
      BY <2>2, RefreshLine
    <3>2. call'[c].valid = call[c].valid
      BY <3>1 DEF Rec
    <3>3. QED
      BY <1>2, <3>2
  <2>3. QED
    BY <2>1, <2>2
<1>5. PICK j \in Queued : j.does # "draw" /\ Submitted(j)
  <2>1. /\ Job(c, "rebind") \in Queued /\ Job(c, "rebind").does = "rebind"
        /\ Job(c, "read") \in Queued /\ Job(c, "read").does = "read"
    BY JobIs DEF Works
  <2>2. QED
    BY <2>1, RebindLine, RefreshLine
<1>6. DrawsNot /\ StaysClean
  BY <1>1, <1>5, StillDraws, StillClean
<1>7. \A d \in Calls : StaysValid(d)
  BY <1>3, <1>4 DEF StaysValid
<1>8. QED
  BY <1>1, <1>6, <1>7, CacheStays

LEMMA ReturnCache ==
  ASSUME TypeInv, LineInv, CacheInv, NEW c \in Calls,
         \/ WriteReturns(c) \/ RefusalReturns(c) \/ ChooseReturns(c) \/ LookReturns(c)
         \/ IdentityReturns(c)
  PROVE  CacheInv'
<1>1. UNCHANGED <<seat, bound>> /\ cache' = cache
  BY ResumesIs DEF WriteReturns, RefusalReturns, ChooseReturns, LookReturns, IdentityReturns, IdentityRead
<1>2. /\ Untouched /\ ready # <<>> /\ ready' = Tail(ready)
      /\ call'[c] = Idle /\ \A d \in Calls \ {c} : call'[d] = call[d]
  BY ReturnLine
<1>3. ~call'[c].valid
  BY <1>2 DEF Idle
<1>4. DrawsNot /\ StaysClean
  BY <1>1, <1>2, StillRests, StillClean
<1>5. \A d \in Calls : StaysValid(d)
  BY <1>2, <1>3 DEF StaysValid
<1>6. QED
  BY <1>1, <1>4, <1>5, CacheStays

LEMMA DetailCache ==
  ASSUME TypeInv, LineInv, CacheInv, NEW c \in Calls, Detail(c)
  PROVE  CacheInv'
<1>1. /\ Resumes(c, "read", "ok") /\ call' = [call EXCEPT ![c].at = "gate", ![c].seen = Report]
      /\ executors' = executors /\ cache' = cache
  BY DEF Detail, memory
<1>2. /\ ready # <<>> /\ ready' = Tail(ready) /\ UNCHANGED <<seat, bound>> /\ call[c].at = "read"
  BY <1>1, ResumesIs
<1>3. ~call[c].valid
  BY <1>2, NotValid
<1>4. /\ Untouched
      /\ call'[c] = Rec(call[c].kind, "gate", call[c].to, call[c].jobs, call[c].left,
                           call[c].force, call[c].valid, Report, call[c].given)
      /\ \A d \in Calls \ {c} : call'[d] = call[d]
  BY <1>1, DetailLine
<1>5. call'[c].valid = call[c].valid
  BY <1>4 DEF Rec
<1>6. DrawsNot /\ StaysClean
  BY <1>2, <1>4, StillRests, StillClean
<1>7. \A d \in Calls : StaysValid(d)
  BY <1>3, <1>4, <1>5 DEF StaysValid
<1>8. QED
  BY <1>1, <1>6, <1>7, CacheStays

LEMMA ParseCache ==
  ASSUME TypeInv, LineInv, CacheInv, NEW c \in Calls, Parse(c)
  PROVE  CacheInv'
<1>1. /\ Resumes(c, "export", "ok") /\ call' = [call EXCEPT ![c].at = "parse", ![c].seen = Report]
      /\ executors' = executors /\ cache' = cache
  BY DEF Parse, memory
<1>2. /\ ready # <<>> /\ ready' = Tail(ready) /\ UNCHANGED <<seat, bound>> /\ call[c].at = "export"
      /\ 1 \in DOMAIN ready /\ ready[1].call = c /\ ready[1].result = "ok" /\ ready[1].seen = Report
  BY <1>1, ResumesIs
<1>3. /\ Untouched
      /\ call'[c] = Rec(call[c].kind, "parse", call[c].to, call[c].jobs, call[c].left,
                           call[c].force, call[c].valid, Report, call[c].given)
      /\ \A d \in Calls \ {c} : call'[d] = call[d]
  BY <1>1, DetailLine
<1>4. call'[c].valid = call[c].valid /\ call'[c].at = "parse" /\ call'[c].seen = Report
  BY <1>3 DEF Rec
<1>5. DrawsNot /\ StaysClean
  BY <1>2, <1>3, StillRests, StillClean
<1>6. ASSUME call'[c].valid PROVE Kept(c, call', Queue', Running', ready', bound', content')
  <2>1. Kept(c, call, Queue, Running, ready, bound, content)
    BY <1>4, <1>6 DEF CacheInv
  <2>2. Clean(Report, bound, content) /\ NoDraw(Queue, Running)
    BY <1>2, <2>1 DEF Kept, NoLater
  <2>3. Report \in Seens
    BY <1>1, ResumesIs
  <2>4. Clean(Report, bound', content') /\ NoDraw(Queue', Running')
    BY <1>5, <2>2, <2>3 DEF StaysClean, DrawsNot
  <2>5. QED
    BY <1>4, <2>4 DEF Kept
<1>7. \A d \in Calls : StaysValid(d)
  BY <1>3, <1>6 DEF StaysValid
<1>8. QED
  BY <1>1, <1>5, <1>7, CacheStays

LEMMA ReuseCache ==
  ASSUME TypeInv, LineInv, CacheInv, NEW c \in Calls, Reuse(c)
  PROVE  CacheInv'
<1>1. /\ UNCHANGED <<seat, session, ready, cache>> /\ call[c].at = "gate"
      /\ Ends(c) \/ call' = [call EXCEPT ![c].force = TRUE]
  BY DEF Reuse, Enters
<1>2. Untouched /\ \A d \in Calls \ {c} : call'[d] = call[d]
  BY ReuseLine
<1>3. ~call[c].valid /\ call[c] \in CallRecs /\ call \in [Calls -> CallRecs]
  BY <1>1, NotValid, CallIs DEF TypeInv, CallTypes
<1>4. ~call'[c].valid
  <2>1. CASE Ends(c)
    <3>1. call'[c] = Idle
      BY <2>1, EndsTypes
    <3>2. QED
      BY <3>1 DEF Idle
  <2>2. CASE call' = [call EXCEPT ![c].force = TRUE]
    BY <1>3, <2>2 DEF CallRecs
  <2>3. QED
    BY <1>1, <2>1, <2>2
<1>5. DrawsNot /\ StaysClean
  BY <1>1, <1>2, StillRests, StillClean DEF session
<1>6. \A d \in Calls : StaysValid(d)
  BY <1>2, <1>4 DEF StaysValid
<1>7. QED
  BY <1>1, <1>5, <1>6, CacheStays

LEMMA ExportCache ==
  ASSUME TypeInv, LineInv, CacheInv, NEW c \in Calls, Export(c)
  PROVE  CacheInv'
<1>1. UNCHANGED <<seat, session, ready>> /\ cache' = None
  BY DEF Export, Enters
<1>2. /\ Submitted(Job(c, "read")) /\ Absent(c, Queue, Running, ready)
      /\ call'[c].at = "export" /\ \A d \in Calls \ {c} : call'[d] = call[d]
  BY ExportLine
<1>3. Job(c, "read") \in Queued /\ Job(c, "read").does = "read"
  BY JobIs DEF Works
<1>4. DrawsNot /\ StaysClean
  BY <1>1, <1>2, <1>3, StillDraws, StillClean DEF session
<1>5. NoLater(c, Queue', Running', ready')
  <2>1. Queue \in Seq(Queued)
    BY OneIs DEF LineInv
  <2>2. NoLater(c, Append(Queue, Job(c, "read")), Running, ready)
    BY <1>2, <1>3, <2>1, DrawSubmit
  <2>3. QED
    BY <1>1, <1>2, <2>2 DEF Submitted
<1>6. Kept(c, call', Queue', Running', ready', bound', content')
  BY <1>1, <1>2, <1>5 DEF Kept, Absent
<1>7. \A d \in Calls : StaysValid(d)
  BY <1>2, <1>6 DEF StaysValid
<1>8. QED
  BY <1>1, <1>4, <1>7, CacheStays

LEMMA ParsedCache ==
  ASSUME TypeInv, LineInv, CacheInv, NEW c \in Calls, Parsed(c)
  PROVE  CacheInv'
<1>1. /\ Ends(c) /\ UNCHANGED <<seat, session, executors, ready>> /\ call[c].at = "parse"
      /\ cache' = IF call[c].valid THEN [key |-> Key, seen |-> call[c].seen] ELSE cache
  BY DEF Parsed, MayStore
<1>2. Untouched /\ \A d \in Calls \ {c} : call'[d] = call[d]
  BY ReuseLine
<1>3. call'[c] = Idle
  BY <1>1, EndsTypes
<1>4. ~call'[c].valid
  BY <1>3 DEF Idle
<1>5. DrawsNot /\ StaysClean
  BY <1>1, <1>2, StillRests, StillClean DEF session
<1>6. \A d \in Calls : StaysValid(d)
  BY <1>2, <1>4 DEF StaysValid
<1>7. CASE ~call[c].valid
  BY <1>1, <1>5, <1>6, <1>7, CacheStays
<1>8. CASE call[c].valid
  <2>1. Clean(call[c].seen, bound, content) /\ NoDraw(Queue, Running)
    BY <1>1, <1>8 DEF CacheInv, Kept
  <2>2. cache'.seen = call[c].seen
    BY <1>1, <1>8
  <2>3. Clean(cache'.seen, bound', content') /\ NoDraw(Queue', Running')
    BY <1>5, <2>1, <2>2, CallIs DEF StaysClean, DrawsNot
  <2>4. ASSUME NEW d \in Calls, call'[d].valid PROVE FALSE
    <3>1. d # c /\ call[d].valid
      BY <1>2, <1>4, <2>4
    <3>2. call[d].at \in {"export", "parse"}
      BY <3>1 DEF CacheInv, Kept
    <3>3. QED
      BY <1>1, <3>1, <3>2 DEF TypeInv, GateIs
  <2>5. QED
    BY <2>3, <2>4 DEF CacheInv
<1>9. QED
  BY <1>7, <1>8

LEMMA CancelCache ==
  ASSUME TypeInv, LineInv, CacheInv, NEW c \in Calls, Cancel(c)
  PROVE  CacheInv'
<1>1. Ends(c) /\ executors' = Left(c) /\ ready' = Without(ready, c) /\ UNCHANGED <<seat, bound, cache>>
  BY DEF Cancel
<1>2. call'[c] = Idle /\ \A d \in Calls \ {c} : call'[d] = call[d]
  BY <1>1, EndsTypes
<1>3. /\ Queue' = Without(Queue, c)
      /\ IF Running # None /\ Running.call = c
         THEN Running'.call = None /\ Running'.does = Running.does
         ELSE Running' = Running
  BY <1>1, OneCancels DEF LineInv
<1>4. PICK m : Sub(Queue', Queue, m)
  BY <1>3, OneIs, WithoutIs DEF LineInv
<1>5. PICK n : Sub(ready', ready, n)
  BY <1>1, OneIs, WithoutIs DEF LineInv
<1>6. Running' # None => Running # None /\ Running'.does = Running.does /\ Running'.call \in {Running.call, None}
  BY <1>3
<1>7. /\ NoDraw(Queue, Running) => NoDraw(Queue', Running')
      /\ \A d \in Calls : NoLater(d, Queue, Running, ready) => NoLater(d, Queue', Running', ready')
  <2>1. PICK p : p = Queue'
    OBVIOUS
  <2>2. PICK s : s = Running'
    OBVIOUS
  <2>3. PICK z : z = ready'
    OBVIOUS
  <2>4. /\ NoDraw(Queue, Running) => NoDraw(p, s)
        /\ \A d \in Calls : NoLater(d, Queue, Running, ready) => NoLater(d, p, s, z)
    <3>1. PICK q : q = Queue
      OBVIOUS
    <3>2. PICK r : r = Running
      OBVIOUS
    <3>3. PICK y : y = ready
      OBVIOUS
    <3>4. Sub(p, q, m) /\ Sub(z, y, n) /\ (s # None => r # None /\ s.does = r.does /\ s.call \in {r.call, None})
      BY <1>4, <1>5, <1>6, <2>1, <2>2, <2>3, <3>1, <3>2, <3>3
    <3>5. QED
      BY <3>1, <3>2, <3>3, <3>4, DrawLess
  <2>5. QED
    BY <2>1, <2>2, <2>3, <2>4
<1>8. DrawsNot
  BY <1>5, <1>7 DEF DrawsNot, Sub
<1>9. StaysClean /\ \A d \in Calls : StaysValid(d)
  BY <1>1, <1>2, StillClean DEF StaysValid, Idle
<1>10. QED
  BY <1>1, <1>8, <1>9, CacheStays

\* A job starts or is refused.
LEMMA BeginsCache ==
  ASSUME TypeInv, LineInv, CacheInv, NEW x \in DOMAIN executors, BeginUnguarded(x) \/ Refuse(x) \/ Guard(x)
  PROVE  CacheInv'
<1>1. CASE Guard(x) /\ bound = None
  <2>1. cache' = None /\ call' = Retired
    BY <1>1 DEF Guard
  <2>2. QED
    BY <2>1, RetiredIs, CacheGone
<1>2. CASE ~(Guard(x) /\ bound = None)
  <2>1. UNCHANGED <<seat, bound, call, cache>>
    BY <1>2 DEF Guard, BeginUnguarded, Refuse, session, memory
  <2>2. Queue \in Seq(Queued) /\ ready \in Seq(Entries)
    BY OneIs DEF LineInv
  <2>3. CASE BeginUnguarded(x) \/ Guard(x)
    <3>1. /\ Running = None /\ Queue # <<>> /\ Queue' = Tail(Queue) /\ Running' = Queue[1] /\ ready' = ready
      BY <2>3, BeginUnguardedLine, GuardLine DEF Started
    <3>2. DrawsNot
      BY <2>2, <3>1, DrawBegin DEF DrawsNot
    <3>3. StaysClean /\ \A d \in Calls : StaysValid(d)
      BY <2>1, StillClean DEF StaysValid
    <3>4. QED
      BY <2>1, <3>2, <3>3, CacheStays
  <2>4. CASE Refuse(x)
    <3>1. PICK e \in Entries :
            /\ Running = None /\ Queue # <<>> /\ Queue' = Tail(Queue) /\ Running' = None
            /\ e.call = Queue[1].call /\ e.result = "refused" /\ ready' = Append(ready, e)
      BY <2>4, RefuseLine
    <3>2. /\ DOMAIN ready = 1..Len(ready) /\ DOMAIN Append(ready, e) = 1..(Len(ready) + 1)
          /\ \A i \in 1..Len(ready) : Append(ready, e)[i] = ready[i]
          /\ Append(ready, e)[Len(ready) + 1] = e /\ Len(ready) \in Nat
      BY <2>2, Members, Appended
    <3>3. \A k \in DOMAIN ready' : (\E i \in DOMAIN ready : ready[i] = ready'[k]) \/ ready'[k].result # "ok"
      BY <3>1, <3>2
    <3>4. DrawsNot
      <4>1. NoDraw(Queue, Running) => NoDraw(Queue', Running')
        BY <2>2, <3>1, DrawBegin
      <4>2. \A c \in Calls : NoLater(c, Queue, Running, ready) => NoLater(c, Queue', Running', ready')
        BY <2>2, <3>1, DrawBegin
      <4>3. QED
        BY <3>3, <4>1, <4>2 DEF DrawsNot
    <3>5. StaysClean /\ \A d \in Calls : StaysValid(d)
      BY <2>1, StillClean DEF StaysValid
    <3>6. QED
      BY <2>1, <3>4, <3>5, CacheStays
  <2>5. QED
    BY <2>3, <2>4
<1>3. QED
  BY <1>1, <1>2

\* The line after an end, and the answer.
LEMMA EndDraws ==
  ASSUME TypeInv, LineInv, Finished, NEW s, Answered(s),
         Running.call = None \/ call[Running.call].at # "export" \/ Clean(s, bound', content')
  PROVE  DrawsNot
<1>1. /\ Running # None /\ Queue' = Queue /\ Running' = None /\ ready \in Seq(Entries)
  BY OneIs DEF Finished, LineInv
<1>2. CASE Running.call = None
  <2>1. ready' = ready
    BY <1>2 DEF Answered
  <2>2. QED
    BY <1>1, <2>1, DrawEnd DEF DrawsNot
<1>3. CASE Running.call # None
  <2>1. PICK e \in Entries : e.call = Running.call /\ e.seen = s /\ ready' = Append(ready, e)
    BY <1>3 DEF Answered
  <2>2. /\ DOMAIN ready = 1..Len(ready) /\ DOMAIN Append(ready, e) = 1..(Len(ready) + 1)
        /\ \A i \in 1..Len(ready) : Append(ready, e)[i] = ready[i]
        /\ Append(ready, e)[Len(ready) + 1] = e /\ Len(ready) \in Nat
    BY <1>1, <2>1, Members, Appended
  <2>3. \A k \in DOMAIN ready' : (\E i \in DOMAIN ready : ready[i] = ready'[k]) \/ ready'[k] = e
    BY <2>1, <2>2
  <2>4. \A c \in Calls : NoLater(c, Queue, Running, ready) => NoLater(c, Queue', Running', ready')
    BY <1>1, <2>1, DrawEnd
  <2>5. NoDraw(Queue, Running) => NoDraw(Queue', Running')
    BY <1>1, DrawEnd
  <2>6. ASSUME NEW k \in DOMAIN ready'
        PROVE  \/ \E i \in DOMAIN ready : ready[i] = ready'[k]
               \/ call[ready'[k].call].at # "export"
               \/ ready'[k].result = "ok" => Clean(ready'[k].seen, bound', content')
    <3>1. call[e.call].at # "export" \/ Clean(e.seen, bound', content')
      BY <1>3, <2>1
    <3>2. CASE ready'[k] = e
      BY <3>1, <3>2
    <3>3. QED
      BY <2>3, <3>2
  <2>7. QED
    BY <2>4, <2>5, <2>6 DEF DrawsNot
<1>4. QED
  BY <1>2, <1>3

LEMMA EndReadCache ==
  ASSUME OneThread', TypeInv, LineInv, RunInv, CacheInv, NEW x \in DOMAIN executors,
         NEW counted \in BOOLEAN, EndRead(x, counted)
  PROVE  CacheInv'
<1>1. UNCHANGED <<seat, bound, call, cache>>
  BY DEF EndRead
<1>2. Finished /\ Running.does = "read" /\ Answered(Seen(Thread.doc))
  BY EndReadLine
<1>3. Thread.doc = bound /\ bound \in Docs
  BY <1>2 DEF RunInv, Guarded, Finished
<1>4. Clean(Seen(Thread.doc), bound', content')
  BY <1>1, <1>3 DEF Clean, Seen, seat
<1>5. DrawsNot
  <2>1. PICK s : s = Seen(Thread.doc)
    OBVIOUS
  <2>2. Answered(s) /\ Clean(s, bound', content')
    BY <1>2, <1>4, <2>1
  <2>3. QED
    BY <1>2, <2>2, EndDraws
<1>6. StaysClean /\ \A d \in Calls : StaysValid(d)
  BY <1>1, StillClean DEF StaysValid
<1>7. QED
  BY <1>1, <1>5, <1>6, CacheStays

LEMMA EndSelectCache ==
  ASSUME OneThread', TypeInv, LineInv, CacheInv, NEW x \in DOMAIN executors, EndSelect(x)
  PROVE  CacheInv'
<1>1. UNCHANGED <<content, bound, call, cache>>
  BY DEF EndSelect
<1>2. Finished /\ Running.does = "select" /\ Answered(Unseen)
  BY EndSelectLine
<1>3. Running.call = None \/ call[Running.call].at # "export"
  BY <1>2 DEF LineInv, Held, Fit, WorkOf, Finished
<1>4. DrawsNot
  BY <1>2, <1>3, EndDraws
<1>5. StaysClean /\ \A d \in Calls : StaysValid(d)
  BY <1>1 DEF StaysClean, StaysValid
<1>6. QED
  BY <1>1, <1>4, <1>5, CacheStays

LEMMA EndRebindCache ==
  ASSUME TypeInv, NEW x \in DOMAIN executors, EndRebind(x)
  PROVE  CacheInv'
BY RetiredIs, CacheGone DEF EndRebind

\* While a draw runs nothing is stored, and no export has answered yet.
LEMMA EndDrawCache ==
  ASSUME OneThread', TypeInv, LineInv, CacheInv, NEW x \in DOMAIN executors,
         NEW counted \in BOOLEAN, EndDraw(x, counted)
  PROVE  CacheInv'
<1>1. UNCHANGED <<call, cache>>
  BY DEF EndDraw
<1>2. Finished /\ Running.does = "draw" /\ Answered(Unseen)
  BY EndDrawLine
<1>3. ~NoDraw(Queue, Running)
  BY <1>2 DEF NoDraw, Finished
<1>4. Running.call = None \/ call[Running.call].at # "export"
  BY <1>2 DEF LineInv, Held, Fit, WorkOf, Finished
<1>5. DrawsNot
  BY <1>2, <1>4, EndDraws
<1>6. cache' = None
  BY <1>1, <1>3 DEF CacheInv
<1>7. ASSUME NEW c \in Calls, call'[c].valid PROVE Kept(c, call', Queue', Running', ready', bound', content')
  <2>1. /\ call[c].at = "export" /\ NoLater(c, Queue, Running, ready)
    BY <1>1, <1>3, <1>7 DEF CacheInv, Kept
  <2>2. \A k \in DOMAIN ready : ready[k].call # c
    BY <1>3, <2>1 DEF NoLater
  <2>3. \A k \in DOMAIN ready' : ready'[k].call # c
    <3>1. CASE Running.call = None
      BY <1>2, <2>2, <3>1 DEF Answered
    <3>2. CASE Running.call # None
      <4>1. PICK e \in Entries : e.call = Running.call /\ ready' = Append(ready, e)
        BY <1>2, <3>2 DEF Answered
      <4>2. /\ DOMAIN ready = 1..Len(ready) /\ DOMAIN Append(ready, e) = 1..(Len(ready) + 1)
            /\ \A i \in 1..Len(ready) : Append(ready, e)[i] = ready[i]
            /\ Append(ready, e)[Len(ready) + 1] = e /\ Len(ready) \in Nat
        BY OneIs, Members, Appended DEF LineInv
      <4>3. e.call # c
        BY <1>4, <2>1, <3>2, <4>1
      <4>4. QED
        BY <2>2, <4>1, <4>2, <4>3
    <3>3. QED
      BY <3>1, <3>2
  <2>4. NoLater(c, Queue', Running', ready')
    BY <1>5, <2>1 DEF DrawsNot
  <2>5. QED
    BY <1>1, <2>1, <2>3, <2>4 DEF Kept
<1>8. QED
  BY <1>6, <1>7 DEF CacheInv

LEMMA OperatorCache ==
  ASSUME TypeInv, LineInv, CacheInv, Operator
  PROVE  CacheInv'
<1>1. UNCHANGED <<bound, executors, ready, call, cache>>
  BY DEF Operator, Click, Edit, session, memory
<1>2. \A d \in Docs : content'[d]["drawn"] = content[d]["drawn"]
  <2>1. CASE \E d \in Docs : Click(d)
    BY <2>1 DEF Click
  <2>2. CASE \E p \in Parts : Edit(p)
    <3>1. PICK p \in Parts : p \in {"listed", "other"} /\ content' = [content EXCEPT ![active][p] = @ + 1]
      BY <2>2 DEF Edit
    <3>2. PICK a \in Docs : a = active
      BY DEF TypeInv, SeatTypes
    <3>3. content' = [content EXCEPT ![a][p] = @ + 1]
      BY <3>1, <3>2
    <3>4. /\ \A e \in Docs \ {a} : content'[e] = content[e]
          /\ \A o \in Parts \ {p} : content'[a][o] = content[a][o]
      BY <3>3, ChangesGrow
    <3>5. "drawn" \in Parts \ {p}
      BY <3>1 DEF Parts
    <3>6. QED
      BY <3>4, <3>5
  <2>3. QED
    BY <2>1, <2>2 DEF Operator
<1>3. StaysClean
  BY <1>1, <1>2 DEF StaysClean, Clean
<1>4. DrawsNot
  BY <1>1, OneUntouched, StillRests
<1>5. \A d \in Calls : StaysValid(d)
  BY <1>1 DEF StaysValid
<1>6. QED
  BY <1>1, <1>3, <1>4, <1>5, CacheStays

LEMMA RestCache ==
  ASSUME TypeInv, LineInv, CacheInv, Expire \/ UNCHANGED vars
  PROVE  CacheInv'
<1>1. UNCHANGED <<seat, bound, executors, ready, call>> /\ cache' \in {cache, None}
  BY DEF Expire, vars, session, memory
<1>2. DrawsNot /\ StaysClean /\ \A d \in Calls : StaysValid(d)
  BY <1>1, OneUntouched, StillRests, StillClean DEF StaysValid
<1>3. QED
  BY <1>1, <1>2, CacheStays

LEMMA CacheNext ==
  ASSUME OneThread', TypeInv, LineInv, RunInv, CacheInv, [Next]_vars
  PROVE  CacheInv'
<1>1. CASE \E c \in Calls : Client(c)
  <2>1. PICK c \in Calls : Client(c)
    BY <1>1
  <2>2. QED
    BY <2>1, StartCache, CancelCache DEF Client
<1>2. CASE \E c \in Calls : Loop(c)
  <2>1. PICK c \in Calls : Loop(c)
    BY <1>2
  <2>2. QED
    BY <2>1, NextSliceCache, ReturnCache, OnwardCache, DetailCache, ReuseCache, ExportCache, ParseCache,
       ParsedCache DEF Loop
<1>3. CASE \E x \in DOMAIN executors : ComThread(x)
  <2>1. PICK x \in DOMAIN executors : ComThread(x)
    BY <1>3
  <2>2. QED
    BY <2>1, BeginsCache, EndReadCache, EndDrawCache, EndSelectCache, EndRebindCache DEF ComThread
<1>4. CASE Timer
  <2>1. Expire
    BY <1>4, NoneReplaced DEF Timer, Deadline, RefreshOverruns
  <2>2. QED
    BY <2>1, RestCache
<1>5. CASE Operator
  BY <1>5, OperatorCache
<1>6. QED
  BY <1>1, <1>2, <1>3, <1>4, <1>5, RestCache DEF Next

\* All that holds with one thread.
OneInv == TypeInv /\ LineInv /\ RunInv /\ CountInv /\ CacheInv

LEMMA OneNext ==
  ASSUME OneInv, [Next]_vars, OneThread'
  PROVE  OneInv'
BY TypeNext, LineNext, RunNext, CountNext, CacheNext DEF OneInv

LEMMA OneAlways == Spec => [](OneThread => OneInv)
<1>1. Init => OneInv
  <2>1. SUFFICES ASSUME Init PROVE OneInv
    OBVIOUS
  <2>2. /\ edits = [d \in Docs |-> None] /\ executors = <<NewExecutor>>
        /\ call = [c \in Calls |-> Idle] /\ cache = None
    BY <2>1 DEF Init
  <2>3. Running = None /\ \A d \in Docs : edits[d] = None
    <3>1. executors[1] = NewExecutor
      BY <2>2
    <3>2. QED
      BY <2>2, <3>1 DEF Running, Thread, NewExecutor
  <2>4. \A c \in Calls : ~call[c].valid
    <3>1. Idle.valid = FALSE
      BY DEF Idle
    <3>2. QED
      BY <2>2, <3>1
  <2>5. QED
    BY <2>1, <2>2, <2>3, <2>4, TypeInit, LineInit DEF Init, OneInv, RunInv, CountInv, CacheInv
<1>2. TypeInv /\ TypeInv' /\ (OneThread => OneInv) /\ [Next]_vars => (OneThread' => OneInv')
  BY ThreadsGrow, OneNext
<1>3. QED
  BY <1>1, <1>2, TypeAlways, PTL DEF Spec

\* Until a deadline replaces the COM thread, whatever else the calls and the operator
\* do, a reused export is of the bound document and holds everything the server
\* drew: each draw and each binding retires it (_retire_snapshot, _snapshot_epoch).
THEOREM ReusedHoldsOurWritesHolds == Spec => []ReusedHoldsOurWrites
<1>1. Init => ReusedHoldsOurWrites
  BY DEF Init, ReusedHoldsOurWrites
<1>2. TypeInv /\ TypeInv' /\ (OneThread => OneInv) /\ ReusedHoldsOurWrites /\ [Next]_vars => ReusedHoldsOurWrites'
  <2>1. SUFFICES ASSUME TypeInv, TypeInv', OneThread => OneInv, ReusedHoldsOurWrites, [Next]_vars, OneThread',
                        answer' # None, answer'.told = "reused"
                 PROVE  /\ answer'.was.doc = answer'.is.doc
                        /\ answer'.was.holds["drawn"] = answer'.is.holds["drawn"]
    BY DEF ReusedHoldsOurWrites
  <2>0. OneThread /\ OneInv
    BY <2>1, ThreadsGrow
  <2>2. CASE \E c \in Calls : Reuse(c)
    <3>1. PICK c \in Calls : Reuse(c)
      BY <2>2
    <3>2. cache # None /\ answer'.was = cache.seen /\ answer'.is = Seen(bound)
      BY <3>1 DEF Reuse, Fresh
    <3>3. Clean(cache.seen, bound, content)
      BY <2>0, <3>2 DEF OneInv, CacheInv
    <3>4. QED
      BY <3>2, <3>3 DEF Clean, Seen
  <2>3. CASE UNCHANGED vars
    BY <2>0, <2>1, <2>3 DEF vars, client, ReusedHoldsOurWrites
  <2>4. CASE ~(\E c \in Calls : Reuse(c)) /\ Next
    <3>1. CASE \E c \in Calls : Client(c)
      BY <2>1, <3>1 DEF Client, StartWrite, StartChoose, StartRead, Start, Cancel
    <3>2. CASE \E c \in Calls : Loop(c)
      BY <2>1, <2>4, <3>2 DEF Loop, NextSlice, WriteReturns, RefusalReturns, Rebind, ChooseReturns, LookReturns,
         Refresh, IdentityReturns, IdentityRead, Detail, Export, Parse, Parsed
    <3>3. CASE \E x \in DOMAIN executors : ComThread(x)
      BY <2>1, <3>3 DEF ComThread, BeginUnguarded, Refuse, Guard, EndRead, EndDraw, EndSelect, EndRebind, Ended
    <3>4. CASE Timer \/ Operator
      BY <2>1, <3>4, NoneReplaced DEF Timer, Operator, Expire, Deadline, RefreshOverruns, Click, Edit
    <3>5. QED
      BY <2>4, <3>1, <3>2, <3>3, <3>4 DEF Next
  <2>5. QED
    BY <2>1, <2>2, <2>3, <2>4
<1>3. QED
  BY <1>1, <1>2, TypeAlways, OneAlways, PTL DEF Spec

-------------------------------------------------------------------------------
(* Calls that run alone, and what the answers say *)

\* What the proofs below assume: calls that choose a document run alone, and so do
\* bulk writes of several jobs.
Orderly == Apart /\ ~Disturbed

\* A call that is to run alone has the line for itself.
ToBeAlone(c, f, a) == f[c].at # "idle" /\ (a = c \/ f[c].jobs >= 2 \/ f[c].kind = "choose")
Sole(c, f, r) == (\A d \in Calls \ {c} : f[d].at = "idle") /\ (r # None => r.call = c)
AloneInv == \A c \in Calls : ToBeAlone(c, call, alone) => Sole(c, call, Running)

\* A job that chooses or binds a document, left by its call, has nothing around it.
OrphanInv ==
  Running # None /\ Running.call = None /\ Running.does \notin Guarded =>
    ready = <<>> /\ \A c \in Calls : call[c].left = call[c].jobs

\* A write of which a job has drawn, and whose client does not know yet.
Drew(c, f, y) ==
  f[c].at = "draw" /\ (f[c].left < f[c].jobs \/ \E k \in DOMAIN y : y[k].call = c /\ y[k].result = "ok")

\* Between the jobs of a bulk write the operator stays on its document, so none of
\* the later ones is refused.
DrewInv == \A c \in Calls : call[c].jobs >= 2 /\ Drew(c, call, ready) => bound = active
RefusedInv ==
  \A k \in DOMAIN ready : ready[k].result = "refused" => call[ready[k].call].left = call[ready[k].call].jobs

\* An answer that waits for the loop, with what a read saw: the bound document.
IsRead(k, f, y) == y[k].result = "ok" /\ f[y[k].call].at \in {"read", "refresh", "export"}
ReadInv == \A k \in DOMAIN ready : IsRead(k, call, ready) => ready[k].seen.doc = bound /\ bound \in Docs

SoleInv == AloneInv /\ OrphanInv /\ DrewInv /\ RefusedInv /\ ReadInv

\* The steps of one call: the others stay as they are, and so do their answers.
Steady(d) ==
  /\ call'[d].at = call[d].at /\ call'[d].kind = call[d].kind /\ call'[d].given = call[d].given
  /\ call'[d].jobs = call[d].jobs /\ call'[d].left = call[d].left
Shed(c) ==
  \E m : /\ Sub(ready', ready, m)
         /\ \A j \in DOMAIN ready : ready[j].call # c => \E i \in DOMAIN ready' : m[i] = j
         /\ \A i \in DOMAIN ready' : ready'[i].call # c
Moves(c) == (\A d \in Calls \ {c} : Steady(d)) /\ Shed(c) /\ UNCHANGED <<content, bound, edits, active>>

LEMMA ShedNone ==
  ASSUME TypeInv, NEW c \in Calls, Absent(c, Queue, Running, ready), ready' = ready
  PROVE  Shed(c)
<1> DEFINE m == [i \in DOMAIN ready |-> i]
<1>1. Sub(ready', ready, m) /\ \A j \in DOMAIN ready : m[j] = j
  BY DEF Sub
<1>2. \A i \in DOMAIN ready' : ready'[i].call # c
  BY DEF Absent
<1> HIDE DEF m
<1>3. QED
  BY <1>1, <1>2 DEF Shed

LEMMA ShedFirst ==
  ASSUME TypeInv, NEW c \in Calls, ready # <<>>, ready[1].call = c, ready' = Tail(ready),
         Absent(c, Queue, Running, ready')
  PROVE  Shed(c)
<1>1. ready \in Seq(Entries)
  BY DEF TypeInv, ThreadTypes
<1>2. PICK m : Sub(Tail(ready), ready, m) /\ \A j \in DOMAIN ready : j # 1 => \E i \in DOMAIN Tail(ready) : m[i] = j
  BY <1>1, TailSub
<1>3. \A i \in DOMAIN ready' : ready'[i].call # c
  BY DEF Absent
<1>4. Sub(ready', ready, m) /\ \A j \in DOMAIN ready : ready[j].call # c => \E i \in DOMAIN ready' : m[i] = j
  BY <1>2
<1>5. QED
  BY <1>3, <1>4 DEF Shed

\* A call that starts.
Begins(c) ==
  /\ call[c].at = "idle" /\ call'[c].at \in Waiting /\ call'[c].left = call'[c].jobs
  /\ call'[c].given \in {promised, None}
  /\ alone' \in {c, None} /\ Running' = Running /\ Thread.doc' = Thread.doc /\ ready' = ready
  /\ \A k \in DOMAIN ready : ready[k].call # c

LEMMA StartMoves ==
  ASSUME TypeInv, LineInv, NEW c \in Calls,
         \/ \E jobs \in 1..Slices : StartWrite(c, jobs)
         \/ \E d \in Docs : StartChoose(c, d)
         \/ \E kind \in Kinds : StartRead(c, kind)
  PROVE  /\ Moves(c) /\ Begins(c) /\ UNCHANGED <<rev, promised, names>> /\ answer' = None
         /\ \E kind : /\ Start(c, kind) /\ call'[c].kind = kind
                      /\ call'[c].jobs >= 2 => Disturbed \/ Quiet
<1>1. PICK kind : Start(c, kind)
  BY DEF StartWrite, StartChoose, StartRead
<1>2. /\ call[c].at = "idle" /\ ready' = ready /\ UNCHANGED <<content, bound, edits, active>>
      /\ UNCHANGED <<rev, promised, names>> /\ answer' = None /\ alone' \in {c, None}
  BY <1>1 DEF Start, seat, session, InFlight
<1>3. Absent(c, Queue, Running, ready)
  BY <1>2, AbsentIs DEF LineInv, Waiting
<1>4. Shed(c)
  BY <1>2, <1>3, ShedNone
<1>5. CASE \E jobs \in 1..Slices : StartWrite(c, jobs)
  <2>1. PICK jobs \in 1..Slices : StartWrite(c, jobs)
    BY <1>5
  <2>2. /\ call'[c] = Rec("write", "draw", None, jobs, jobs, FALSE, FALSE, Unseen, None)
        /\ \A d \in Calls \ {c} : call'[d] = Retired[d]
        /\ Submitted(Job(c, "draw"))
    BY <2>1, StartWriteLine
  <2>3. \A d \in Calls \ {c} : Steady(d)
    BY <2>2, RetiredIs DEF Steady
  <2>4. /\ call'[c].at = "draw" /\ call'[c].left = jobs /\ call'[c].jobs = jobs /\ call'[c].given = None
        /\ call'[c].kind = "write"
    BY <2>2 DEF Rec
  <2>5. Start(c, "write") /\ (jobs = 1 \/ Disturbed \/ Quiet)
    BY <2>1 DEF StartWrite
  <2>6. Begins(c)
    BY <1>2, <1>3, <2>2, <2>4 DEF Begins, Waiting, Submitted, Absent
  <2>7. QED
    BY <1>2, <1>4, <2>3, <2>4, <2>5, <2>6 DEF Moves
<1>6. CASE \E d \in Docs : StartChoose(c, d)
  <2>1. PICK d \in Docs : StartChoose(c, d)
    BY <1>6
  <2>2. /\ call'[c] = Rec("choose", "select", d, 0, 0, FALSE, FALSE, Unseen, None)
        /\ \A e \in Calls \ {c} : call'[e] = call[e]
        /\ \E j \in Queued : Submitted(j)
    BY <2>1, StartChooseLine
  <2>3. \A e \in Calls \ {c} : Steady(e)
    BY <2>2 DEF Steady
  <2>4. /\ call'[c].at = "select" /\ call'[c].left = 0 /\ call'[c].jobs = 0 /\ call'[c].given = None
        /\ call'[c].kind = "choose"
    BY <2>2 DEF Rec
  <2>5. Start(c, "choose")
    BY <2>1 DEF StartChoose
  <2>6. Begins(c)
    BY <1>2, <1>3, <2>2, <2>4 DEF Begins, Waiting, Submitted, Absent
  <2>7. QED
    BY <1>2, <1>4, <2>3, <2>4, <2>5, <2>6 DEF Moves
<1>7. CASE \E k \in Kinds : StartRead(c, k)
  <2>1. PICK k \in Kinds : StartRead(c, k)
    BY <1>7
  <2>2. /\ call'[c] = Rec(k, "read", None, 0, 0, FALSE, FALSE, Unseen, IF k = "check" THEN promised ELSE None)
        /\ \A e \in Calls \ {c} : call'[e] = call[e]
        /\ Submitted(Job(c, "read"))
    BY <2>1, StartReadLine
  <2>3. \A e \in Calls \ {c} : Steady(e)
    BY <2>2 DEF Steady
  <2>4. /\ call'[c].at = "read" /\ call'[c].left = 0 /\ call'[c].jobs = 0 /\ call'[c].given \in {promised, None}
        /\ call'[c].kind = k
    BY <2>2 DEF Rec
  <2>5. Start(c, k)
    BY <2>1 DEF StartRead
  <2>6. Begins(c)
    BY <1>2, <1>3, <2>2, <2>4 DEF Begins, Waiting, Submitted, Absent
  <2>7. QED
    BY <1>2, <1>4, <2>3, <2>4, <2>5, <2>6 DEF Moves
<1>8. QED
  BY <1>5, <1>6, <1>7

\* A call that goes on, or ends.
GoesOn(c) ==
  /\ call[c].at # "idle" /\ alone' = alone /\ Running' = Running /\ Thread.doc' = Thread.doc
  /\ \/ call'[c] = Idle
     \/ /\ call'[c].at # "idle" /\ call'[c].kind = call[c].kind /\ call'[c].jobs = call[c].jobs
        /\ call'[c].given = call[c].given
        /\ call'[c].at = "draw" => NextSlice(c)
        /\ NextSlice(c) \/ call'[c].left = call[c].left

LEMMA NextSliceMoves ==
  ASSUME TypeInv, LineInv, NEW c \in Calls, NextSlice(c)
  PROVE  /\ Moves(c) /\ GoesOn(c) /\ ready # <<>> /\ ready[1].call = c /\ ready[1].result = "ok" /\ ready' = Tail(ready)
         /\ call[c].left > 1 /\ call'[c].left = call[c].left - 1 /\ call[c].at = "draw" /\ call'[c].at = "draw"
         /\ call'[c].jobs = call[c].jobs /\ rev' = rev
<1>1. Resumes(c, "draw", "ok") /\ call[c].left > 1 /\ rev' = rev
  BY DEF NextSlice
<1>2. /\ ready # <<>> /\ ready' = Tail(ready) /\ ready[1].call = c /\ call[c].at = "draw" /\ ready[1].result = "ok"
      /\ UNCHANGED <<content, bound, edits, active, alone>>
  BY <1>1, ResumesIs DEF seat
<1>3. /\ Submitted(Job(c, "draw")) /\ Absent(c, Queue, Running, ready')
      /\ call'[c] = [call[c] EXCEPT !.left = @ - 1] /\ \A d \in Calls \ {c} : call'[d] = Retired[d]
  BY NextSliceLine
<1>4. Shed(c)
  BY <1>2, <1>3, ShedFirst
<1>5. \A d \in Calls \ {c} : Steady(d)
  BY <1>3, RetiredIs DEF Steady
<1>6. /\ call'[c].at = "draw" /\ call'[c].kind = call[c].kind /\ call'[c].jobs = call[c].jobs
      /\ call'[c].given = call[c].given /\ call'[c].left = call[c].left - 1
  BY <1>2, <1>3, CallIs DEF CallRecs
<1>7. GoesOn(c)
  BY <1>2, <1>3, <1>6 DEF GoesOn, Submitted
<1>8. QED
  BY <1>1, <1>2, <1>4, <1>5, <1>6, <1>7 DEF Moves

LEMMA ReturnMoves ==
  ASSUME TypeInv, LineInv, NEW c \in Calls,
         \/ WriteReturns(c) \/ RefusalReturns(c) \/ ChooseReturns(c) \/ LookReturns(c)
         \/ IdentityReturns(c)
  PROVE  /\ Moves(c) /\ GoesOn(c) /\ ready # <<>> /\ ready[1].call = c /\ ready' = Tail(ready) /\ call'[c] = Idle
<1>1. /\ Untouched /\ Absent(c, Queue, Running, ready') /\ ready # <<>> /\ ready' = Tail(ready)
      /\ ready[1].call = c /\ call'[c] = Idle /\ \A d \in Calls \ {c} : call'[d] = call[d]
  BY ReturnLine
<1>2. Shed(c)
  BY <1>1, ShedFirst
<1>3. PICK at \in {"draw", "read", "export", "rebind", "refresh"}, result \in {"ok", "refused"} : Resumes(c, at, result)
  BY DEF WriteReturns, RefusalReturns, ChooseReturns, LookReturns, IdentityReturns
<1>4. call[c].at # "idle" /\ UNCHANGED <<content, bound, edits, active, alone>>
  BY <1>3, ResumesIs DEF seat
<1>5. \A d \in Calls \ {c} : Steady(d)
  BY <1>1 DEF Steady
<1>6. GoesOn(c)
  BY <1>1, <1>4 DEF GoesOn, Untouched
<1>7. QED
  BY <1>1, <1>2, <1>4, <1>5, <1>6 DEF Moves

LEMMA OnwardMoves ==
  ASSUME TypeInv, LineInv, NEW c \in Calls, Rebind(c) \/ Refresh(c) \/ Detail(c) \/ Parse(c)
  PROVE  Moves(c) /\ GoesOn(c) /\ ready # <<>> /\ ready[1].call = c /\ ready' = Tail(ready) /\ rev' = rev
<1>1. PICK at \in {"select", "read", "export"} : Resumes(c, at, "ok")
  BY DEF Rebind, Refresh, Detail, Parse
<1>2. /\ ready # <<>> /\ ready' = Tail(ready) /\ ready[1].call = c /\ call[c].at = at
      /\ UNCHANGED <<content, bound, edits, active, alone>>
  BY <1>1, ResumesIs DEF seat
<1>3. rev' = rev
  BY DEF Rebind, Refresh, Detail, Parse
<1>4. /\ Running' = Running /\ Thread.doc' = Thread.doc /\ Absent(c, Queue, Running, ready')
      /\ \A d \in Calls \ {c} : call'[d] = call[d]
      /\ call'[c].at \in {"rebind", "refresh", "gate", "parse"}
      /\ call'[c].kind = call[c].kind /\ call'[c].jobs = call[c].jobs /\ call'[c].left = call[c].left
      /\ call'[c].given = call[c].given
  <2>1. CASE Rebind(c)
    <3>1. /\ Submitted(Job(c, "rebind")) /\ Absent(c, Queue, Running, ready')
          /\ call'[c] = [call[c] EXCEPT !.at = "rebind"] /\ \A d \in Calls \ {c} : call'[d] = call[d]
      BY <2>1, RebindLine
    <3>2. /\ call'[c].at = "rebind" /\ call'[c].kind = call[c].kind /\ call'[c].jobs = call[c].jobs
          /\ call'[c].left = call[c].left /\ call'[c].given = call[c].given
      BY <3>1, CallIs DEF CallRecs
    <3>3. QED
      BY <3>1, <3>2 DEF Submitted
  <2>2. CASE Refresh(c)
    <3>1. /\ Submitted(Job(c, "read")) /\ Absent(c, Queue, Running, ready')
          /\ call'[c] = Rec(call[c].kind, "refresh", call[c].to, call[c].jobs, call[c].left,
                            call[c].force, call[c].valid, Report, call[c].given)
          /\ \A d \in Calls \ {c} : call'[d] = call[d]
      BY <2>2, RefreshLine
    <3>2. /\ call'[c].at = "refresh" /\ call'[c].kind = call[c].kind /\ call'[c].jobs = call[c].jobs
          /\ call'[c].left = call[c].left /\ call'[c].given = call[c].given
      BY <3>1 DEF Rec
    <3>3. QED
      BY <3>1, <3>2 DEF Submitted
  <2>3. CASE Detail(c) \/ Parse(c)
    <3>1. PICK to \in {"gate", "parse"} : call' = [call EXCEPT ![c].at = to, ![c].seen = Report] /\ executors' = executors
      BY <2>3 DEF Detail, Parse
    <3>2. /\ Untouched /\ Absent(c, Queue, Running, ready')
          /\ call'[c] = Rec(call[c].kind, to, call[c].to, call[c].jobs, call[c].left,
                            call[c].force, call[c].valid, Report, call[c].given)
          /\ \A d \in Calls \ {c} : call'[d] = call[d]
      BY <1>1, <3>1, DetailLine
    <3>3. /\ call'[c].at = to /\ call'[c].kind = call[c].kind /\ call'[c].jobs = call[c].jobs
          /\ call'[c].left = call[c].left /\ call'[c].given = call[c].given
      BY <3>2 DEF Rec
    <3>4. QED
      BY <3>2, <3>3 DEF Untouched
  <2>4. QED
    BY <2>1, <2>2, <2>3
<1>5. Shed(c)
  BY <1>2, <1>4, ShedFirst
<1>6. \A d \in Calls \ {c} : Steady(d)
  BY <1>4 DEF Steady
<1>7. GoesOn(c)
  BY <1>2, <1>4 DEF GoesOn
<1>8. QED
  BY <1>2, <1>3, <1>5, <1>6, <1>7 DEF Moves

\* A call at the gate, or behind it, waits for nothing in the line.
LEMMA GateMoves ==
  ASSUME TypeInv, LineInv, NEW c \in Calls, Reuse(c) \/ Export(c) \/ Parsed(c)
  PROVE  /\ Moves(c) /\ GoesOn(c) /\ ready' = ready /\ call[c].at \notin Waiting
         /\ rev' = rev /\ ~NextSlice(c)
<1>1. /\ call[c].at \in {"gate", "parse"} /\ ready' = ready /\ rev' = rev
      /\ UNCHANGED <<content, bound, edits, active, alone>>
  BY DEF Reuse, Export, Parsed, Enters, seat, session
<1>2. Absent(c, Queue, Running, ready)
  BY <1>1, AbsentIs DEF LineInv, Waiting
<1>3. Shed(c)
  BY <1>1, <1>2, ShedNone
<1>4. ~NextSlice(c)
  BY <1>1 DEF NextSlice, Resumes
<1>5. /\ Running' = Running /\ Thread.doc' = Thread.doc /\ \A d \in Calls \ {c} : call'[d] = call[d]
      /\ \/ call'[c] = Idle
         \/ /\ call'[c].at \in {"gate", "export"} /\ call'[c].kind = call[c].kind /\ call'[c].jobs = call[c].jobs
            /\ call'[c].given = call[c].given /\ call'[c].left = call[c].left
  <2>1. CASE Export(c)
    <3>1. Submitted(Job(c, "read")) /\ \A d \in Calls \ {c} : call'[d] = call[d]
      BY <2>1, ExportLine
    <3>2. call' = [call EXCEPT ![c].at = "export", ![c].valid = TRUE] /\ "export" \in Places /\ TRUE \in BOOLEAN
      BY <2>1 DEF Export, Places, Waiting
    <3>3. /\ call' = [call EXCEPT ![c] = Rec(call[c].kind, "export", call[c].to, call[c].jobs, call[c].left,
                                          call[c].force, TRUE, call[c].seen, call[c].given)]
          /\ call \in [Calls -> CallRecs]
      BY <3>2, ValidGoes DEF TypeInv, CallTypes
    <3>4. /\ call'[c].at = "export" /\ call'[c].kind = call[c].kind /\ call'[c].jobs = call[c].jobs
          /\ call'[c].given = call[c].given /\ call'[c].left = call[c].left
      BY <3>3 DEF Rec
    <3>5. QED
      BY <3>1, <3>4 DEF Submitted
  <2>2. CASE Reuse(c) \/ Parsed(c)
    <3>1. Untouched /\ \A d \in Calls \ {c} : call'[d] = call[d]
      BY <2>2, ReuseLine
    <3>2. CASE Ends(c)
      BY <3>1, <3>2, EndsTypes DEF Untouched
    <3>3. CASE ~Ends(c)
      <4>1. call[c].at = "gate" /\ call' = [call EXCEPT ![c].force = TRUE]
        BY <2>2, <3>3 DEF Reuse, Parsed, Enters
      <4>2. call'[c] = [call[c] EXCEPT !.force = TRUE]
        BY <4>1 DEF TypeInv, CallTypes
      <4>3. /\ call'[c].at = "gate" /\ call'[c].kind = call[c].kind /\ call'[c].jobs = call[c].jobs
            /\ call'[c].given = call[c].given /\ call'[c].left = call[c].left
        BY <4>1, <4>2, CallIs DEF CallRecs
      <4>4. QED
        BY <3>1, <4>3 DEF Untouched
    <3>4. QED
      BY <3>2, <3>3
  <2>3. QED
    BY <2>1, <2>2
<1>6. \A d \in Calls \ {c} : Steady(d)
  BY <1>5 DEF Steady
<1>7. GoesOn(c)
  <2>1. Idle.at = "idle"
    BY Idles
  <2>2. QED
    BY <1>1, <1>5 DEF GoesOn
<1>8. QED
  BY <1>1, <1>3, <1>4, <1>6, <1>7 DEF Moves, Waiting

LEMMA CancelMoves ==
  ASSUME TypeInv, LineInv, NEW c \in Calls, Cancel(c)
  PROVE  /\ Moves(c) /\ call[c].at # "idle" /\ call'[c] = Idle /\ alone' = alone /\ Thread.doc' = Thread.doc
         /\ IF Running # None /\ Running.call = c
            THEN Running'.call = None /\ Running'.does = Running.does
            ELSE Running' = Running
<1>1. /\ Ends(c) /\ executors' = Left(c) /\ ready' = Without(ready, c) /\ call[c].at # "idle"
      /\ UNCHANGED <<content, bound, edits, active, alone>>
  BY DEF Cancel, InFlight, seat
<1>2. call'[c] = Idle /\ \A d \in Calls \ {c} : call'[d] = call[d]
  BY <1>1, EndsTypes
<1>3. ready \in Seq(Entries) /\ Distinct(Queue, Running, ready)
  BY DEF TypeInv, ThreadTypes, LineInv
<1>4. Shed(c)
  <2>1. PICK m : /\ Sub(Without(ready, c), ready, m)
                 /\ \A j \in DOMAIN ready : ready[j].call # c => \E i \in DOMAIN Without(ready, c) : m[i] = j
    BY <1>3, WithoutIs
  <2>2. \A i \in DOMAIN Without(ready, c) : Without(ready, c)[i].call # c
    BY <1>3, WithoutIs DEF Distinct
  <2>3. QED
    BY <1>1, <2>1, <2>2 DEF Shed
<1>5. /\ Thread.doc' = Thread.doc
      /\ IF Running # None /\ Running.call = c
         THEN Running'.call = None /\ Running'.does = Running.does
         ELSE Running' = Running
  BY <1>1, OneCancels DEF LineInv
<1>6. \A d \in Calls \ {c} : Steady(d)
  BY <1>2 DEF Steady
<1>7. QED
  BY <1>1, <1>2, <1>4, <1>5, <1>6 DEF Moves

\* Where an answer comes from.
LEMMA ShedFrom ==
  ASSUME TypeInv, NEW c \in Calls, Shed(c), NEW i \in DOMAIN ready'
  PROVE  \E k \in DOMAIN ready : ready[k] = ready'[i] /\ ready[k].call \in Calls \ {c}
<1>1. PICK m : Sub(ready', ready, m) /\ ready'[i].call # c
  BY DEF Shed
<1>2. m[i] \in DOMAIN ready /\ ready'[i] = ready[m[i]]
  BY <1>1 DEF Sub
<1>3. ready[m[i]] \in Entries
  BY <1>2, Members DEF TypeInv, ThreadTypes
<1>4. QED
  BY <1>1, <1>2, <1>3 DEF Entries

\* Whose answers stay has drawn as before.
LEMMA DrewBack ==
  ASSUME TypeInv, NEW c \in Calls, Moves(c), NEW d \in Calls \ {c}, Drew(d, call', ready')
  PROVE  Drew(d, call, ready)
<1>1. Steady(d) /\ Shed(c)
  BY DEF Moves
<1>2. CASE call'[d].left < call'[d].jobs
  BY <1>1, <1>2 DEF Steady, Drew
<1>3. CASE \E k \in DOMAIN ready' : ready'[k].call = d /\ ready'[k].result = "ok"
  <2>1. PICK k \in DOMAIN ready' : ready'[k].call = d /\ ready'[k].result = "ok"
    BY <1>3
  <2>2. PICK i \in DOMAIN ready : ready[i] = ready'[k]
    BY <1>1, ShedFrom
  <2>3. QED
    BY <1>1, <2>1, <2>2 DEF Steady, Drew
<1>4. QED
  BY <1>2, <1>3 DEF Drew

LEMMA SoleMoves ==
  ASSUME TypeInv, SoleInv, NEW c \in Calls, Moves(c), AloneInv', OrphanInv',
         Drew(c, call', ready') => Drew(c, call, ready) /\ call'[c].jobs = call[c].jobs
  PROVE  SoleInv'
<1>1. /\ \A d \in Calls \ {c} : Steady(d)
      /\ Shed(c) /\ bound' = bound /\ active' = active
  BY DEF Moves
<1>2. ASSUME NEW d \in Calls, call'[d].jobs >= 2, Drew(d, call', ready') PROVE bound' = active'
  <2>1. Drew(d, call, ready) /\ call'[d].jobs = call[d].jobs
    BY <1>1, <1>2, DrewBack DEF Steady
  <2>2. QED
    BY <1>1, <1>2, <2>1 DEF SoleInv, DrewInv
<1>3. ASSUME NEW k \in DOMAIN ready', ready'[k].result = "refused"
      PROVE  call'[ready'[k].call].left = call'[ready'[k].call].jobs
  <2>1. PICK i \in DOMAIN ready : ready[i] = ready'[k] /\ ready[i].call \in Calls \ {c}
    BY <1>1, ShedFrom
  <2>2. QED
    BY <1>1, <1>3, <2>1 DEF SoleInv, RefusedInv, Steady
<1>4. ASSUME NEW k \in DOMAIN ready', IsRead(k, call', ready')
      PROVE  ready'[k].seen.doc = bound' /\ bound' \in Docs
  <2>1. PICK i \in DOMAIN ready : ready[i] = ready'[k] /\ ready[i].call \in Calls \ {c}
    BY <1>1, ShedFrom
  <2>2. IsRead(i, call, ready)
    BY <1>1, <1>4, <2>1 DEF IsRead, Steady
  <2>3. QED
    BY <1>1, <2>1, <2>2 DEF SoleInv, ReadInv
<1>5. QED
  BY <1>2, <1>3, <1>4 DEF SoleInv, DrewInv, RefusedInv, ReadInv

\* With a queue or a running job of another call nothing is quiet.
LEMMA QuietIs ==
  ASSUME LineInv, TypeInv, Quiet
  PROVE  Running = None /\ \A d \in Calls : call[d].at = "idle"
<1>1. 1 \in DOMAIN executors
  BY OneIs DEF LineInv
<1>2. QED
  BY <1>1 DEF Quiet, InFlight, Running, Thread

LEMMA StartSole ==
  ASSUME Apart, ~Disturbed, TypeInv, LineInv, SoleInv, NEW c \in Calls,
         \/ \E jobs \in 1..Slices : StartWrite(c, jobs)
         \/ \E d \in Docs : StartChoose(c, d)
         \/ \E kind \in Kinds : StartRead(c, kind)
  PROVE  SoleInv'
<1>1. Moves(c) /\ Begins(c)
  BY StartMoves
<1>2. PICK kind : Start(c, kind) /\ call'[c].kind = kind /\ (call'[c].jobs >= 2 => Disturbed \/ Quiet)
  BY StartMoves
<1>3. ASSUME NEW d \in Calls, ToBeAlone(d, call', alone') PROVE Sole(d, call', Running')
  <2>1. CASE d = c
    <3>1. Quiet
      BY <1>2, <1>3, <2>1, NoneIs DEF ToBeAlone, Start, Admitted
    <3>2. QED
      BY <1>1, <2>1, <3>1, QuietIs DEF Sole, Moves, Steady, Begins
  <2>2. CASE d # c
    <3>1. Steady(d) /\ alone' # d
      BY <1>1, <2>2, NoneIs DEF Moves, Begins
    <3>2. call[d].jobs >= 2 \/ call[d].kind = "choose"
      BY <1>3, <3>1 DEF ToBeAlone, Steady
    <3>3. Calm /\ Admitted(kind)
      BY <1>2 DEF Start
    <3>4. call[d].jobs < 2 /\ call[d].kind # "choose"
      BY <3>3 DEF Calm, Admitted
    <3>5. call[d].jobs \in Nat
      BY CallIs
    <3>6. QED
      BY <3>2, <3>4, <3>5
  <2>3. QED
    BY <2>1, <2>2
<1>4. OrphanInv'
  BY <1>1 DEF SoleInv, OrphanInv, Moves, Steady, Begins
<1>5. ~Drew(c, call', ready')
  <2>1. call'[c].left = call'[c].jobs /\ call'[c].jobs \in Nat
    <3>1. TypeInv'
      BY StartWriteTypes, StartReadTypes, StartChooseTypes
    <3>2. \A d \in Calls : call'[d].jobs \in Nat
      BY <3>1 DEF TypeInv, CallTypes, CallRecs
    <3>3. QED
      BY <1>1, <3>2 DEF Begins
  <2>2. QED
    BY <1>1, <2>1 DEF Drew, Begins
<1>6. QED
  BY <1>1, <1>3, <1>4, <1>5, SoleMoves DEF AloneInv

LEMMA LoopSole ==
  ASSUME TypeInv, LineInv, SoleInv, NEW c \in Calls, Loop(c)
  PROVE  SoleInv'
<1>1. /\ Moves(c) /\ GoesOn(c)
      /\ ready' = ready => ~NextSlice(c)
  <2>1. CASE NextSlice(c)
    <3>1. Moves(c) /\ GoesOn(c) /\ ready # <<>> /\ ready' = Tail(ready)
      BY <2>1, NextSliceMoves
    <3>2. Tail(ready) # ready
      <4>1. Len(Tail(ready)) = Len(ready) - 1 /\ Len(ready) \in Nat
        BY <3>1, TailIs, Members DEF TypeInv, ThreadTypes
      <4>2. Len(Tail(ready)) # Len(ready)
        BY <4>1
      <4>3. QED
        BY <4>2
    <3>3. QED
      BY <3>1, <3>2
  <2>2. CASE ~NextSlice(c)
    BY <2>2, ReturnMoves, OnwardMoves, GateMoves DEF Loop
  <2>3. QED
    BY <2>1, <2>2
<1>2. Idle.at = "idle" /\ Idle.left = Idle.jobs
  BY Idles DEF Idle
<1>3. ASSUME NEW d \in Calls, ToBeAlone(d, call', alone') PROVE Sole(d, call', Running')
  <2>1. CASE d = c
    <3>1. ToBeAlone(c, call, alone)
      BY <1>1, <1>2, <1>3, <2>1 DEF ToBeAlone, GoesOn
    <3>2. Sole(c, call, Running)
      BY <3>1 DEF SoleInv, AloneInv
    <3>3. QED
      BY <1>1, <2>1, <3>2 DEF Sole, Moves, Steady, GoesOn
  <2>2. CASE d # c
    <3>1. ToBeAlone(d, call, alone)
      BY <1>1, <1>3, <2>2 DEF ToBeAlone, Moves, Steady, GoesOn
    <3>2. Sole(d, call, Running)
      BY <3>1 DEF SoleInv, AloneInv
    <3>3. QED
      BY <1>1, <2>2, <3>2 DEF Sole, GoesOn
  <2>3. QED
    BY <2>1, <2>2
<1>4. OrphanInv'
  <2>1. SUFFICES ASSUME Running' # None, Running'.call = None, Running'.does \notin Guarded
                 PROVE  ready' = <<>> /\ \A d \in Calls : call'[d].left = call'[d].jobs
    BY DEF OrphanInv
  <2>2. ready = <<>> /\ \A d \in Calls : call[d].left = call[d].jobs
    BY <1>1, <2>1 DEF SoleInv, OrphanInv, GoesOn
  <2>3. ready' = ready
    BY <2>2, NextSliceMoves, ReturnMoves, OnwardMoves, GateMoves DEF Loop
  <2>4. QED
    BY <1>1, <1>2, <2>2, <2>3 DEF Moves, Steady, GoesOn
<1>5. ASSUME Drew(c, call', ready') PROVE Drew(c, call, ready) /\ call'[c].jobs = call[c].jobs
  <2>1. NextSlice(c)
    BY <1>1, <1>2, <1>5 DEF Drew, GoesOn
  <2>2. /\ ready # <<>> /\ ready[1].call = c /\ ready[1].result = "ok"
        /\ call[c].at = "draw" /\ call'[c].jobs = call[c].jobs
    BY <2>1, NextSliceMoves
  <2>3. 1 \in DOMAIN ready
    BY <2>2, TailIs DEF TypeInv, ThreadTypes
  <2>4. QED
    BY <2>2, <2>3 DEF Drew
<1>6. QED
  BY <1>1, <1>3, <1>4, <1>5, SoleMoves DEF AloneInv

LEMMA CancelSole ==
  ASSUME TypeInv, LineInv, SoleInv, NEW c \in Calls, Cancel(c)
  PROVE  SoleInv'
<1>1. /\ Moves(c) /\ call[c].at # "idle" /\ call'[c] = Idle /\ alone' = alone
      /\ IF Running # None /\ Running.call = c
         THEN Running'.call = None /\ Running'.does = Running.does
         ELSE Running' = Running
  BY CancelMoves
<1>2. Idle.at = "idle" /\ Idle.left = Idle.jobs
  BY Idles DEF Idle
<1>3. ASSUME NEW d \in Calls, ToBeAlone(d, call', alone') PROVE Sole(d, call', Running')
  <2>1. d # c
    BY <1>1, <1>2, <1>3 DEF ToBeAlone
  <2>2. ToBeAlone(d, call, alone)
    BY <1>1, <1>3, <2>1 DEF ToBeAlone, Moves, Steady
  <2>3. Sole(d, call, Running)
    BY <2>2 DEF SoleInv, AloneInv
  <2>4. QED
    BY <1>1, <2>1, <2>3 DEF Sole
<1>4. OrphanInv'
  <2>1. SUFFICES ASSUME Running' # None, Running'.call = None, Running'.does \notin Guarded
                 PROVE  ready' = <<>> /\ \A d \in Calls : call'[d].left = call'[d].jobs
    BY DEF OrphanInv
  <2>2. ready = <<>> /\ \A d \in Calls \ {c} : call[d].left = call[d].jobs
    <3>1. CASE Running # None /\ Running.call = c
      <4>1. Fit(Running, call[c].at)
        BY <3>1, NoneIs DEF LineInv, Held
      <4>2. call[c].at \in {"select", "rebind"}
        BY <1>1, <2>1, <3>1, <4>1 DEF Fit, WorkOf, Guarded
      <4>3. ToBeAlone(c, call, alone)
        BY <4>2, CallIs DEF Fits, ToBeAlone
      <4>4. \A d \in Calls \ {c} : call[d].at = "idle"
        BY <4>3 DEF SoleInv, AloneInv, Sole
      <4>5. \A d \in Calls \ {c} : call[d].left = call[d].jobs
        BY <4>4, CallIs, NoneIs DEF Fits, ToolKinds
      <4>6. ASSUME ready # <<>> PROVE FALSE
        <5>1. 1 \in DOMAIN ready /\ ready[1] \in Entries
          BY <4>6, TailIs DEF TypeInv, ThreadTypes
        <5>2. ready[1].call \in Calls /\ ready[1].call # c /\ call[ready[1].call].at \in Waiting
          BY <3>1, <5>1 DEF LineInv, Held, Distinct, Entries
        <5>3. QED
          BY <4>4, <5>2 DEF Waiting
      <4>7. QED
        BY <4>5, <4>6
    <3>2. CASE ~(Running # None /\ Running.call = c)
      BY <1>1, <2>1, <3>2 DEF SoleInv, OrphanInv
    <3>3. QED
      BY <3>1, <3>2
  <2>3. ready' = <<>>
    <3>1. PICK m : Sub(ready', ready, m)
      BY <1>1 DEF Moves, Shed
    <3>2. DOMAIN ready' = {}
      BY <2>2, <3>1 DEF Sub
    <3>3. ready' \in Seq(Entries)
      BY CancelTypes DEF TypeInv, ThreadTypes
    <3>4. QED
      BY <3>2, <3>3, Members
  <2>4. QED
    BY <1>1, <1>2, <2>2, <2>3 DEF Moves, Steady
<1>5. ~Drew(c, call', ready')
  BY <1>1, <1>2 DEF Drew
<1>6. QED
  BY <1>1, <1>3, <1>4, <1>5, SoleMoves DEF AloneInv

\* The steps of the COM thread: every call stays where it is, and one answer comes at
\* most.
Stays == alone' = alone /\ \A d \in Calls : Steady(d)
Comes(E) ==
  /\ \A k \in DOMAIN ready' : \/ k \in DOMAIN ready /\ ready'[k] = ready[k]
                              \/ ready'[k] \in E /\ k = Len(ready) + 1
  /\ \A k \in DOMAIN ready : k \in DOMAIN ready' /\ ready'[k] = ready[k] /\ k < Len(ready) + 1

LEMMA ComesNone ==
  ASSUME TypeInv, ready' = ready
  PROVE  Comes({})
<1>1. /\ Len(ready) \in Nat /\ DOMAIN ready = 1..Len(ready)
  BY Members DEF TypeInv, ThreadTypes
<1>2. QED
  BY <1>1 DEF Comes

LEMMA ComesIs ==
  ASSUME TypeInv, NEW e \in Entries, ready' = Append(ready, e)
  PROVE  Comes({e})
<1>1. /\ Len(ready) \in Nat /\ DOMAIN ready = 1..Len(ready) /\ ready \in Seq(Entries)
  BY Members DEF TypeInv, ThreadTypes
<1>2. /\ DOMAIN Append(ready, e) = 1..(Len(ready) + 1)
      /\ \A i \in 1..Len(ready) : Append(ready, e)[i] = ready[i]
      /\ Append(ready, e)[Len(ready) + 1] = e
  BY <1>1, Appended
<1>3. QED
  BY <1>1, <1>2 DEF Comes

\* What begins is a call's that is in flight; what ends leaves the thread free.
Takes == Running' = None \/ (Running'.call \in Calls /\ call[Running'.call].at # "idle")

\* What the new answers must be.
Proper(E) ==
  \A e \in E :
    /\ e.call \in Calls
    /\ e.result = "refused" => call[e.call].left = call[e.call].jobs
    /\ e.result = "ok" /\ call[e.call].at \in {"read", "refresh", "export"} =>
         e.seen.doc = bound' /\ bound' \in Docs
DrewStays == \A d \in Calls : call[d].jobs >= 2 /\ Drew(d, call, ready') => bound' = active'

LEMMA ThreadSole ==
  ASSUME TypeInv, SoleInv, Stays, Takes, NEW E, Comes(E), Proper(E), DrewStays,
         ready = <<>> \/ bound' = bound \/ bound = None
  PROVE  SoleInv'
<1>0. \A k \in DOMAIN ready' : ready'[k].call \in Calls
  <2>1. \A k \in DOMAIN ready : ready[k] \in Entries
    BY Members DEF TypeInv, ThreadTypes
  <2>2. \A e \in E : e.call \in Calls
    BY DEF Proper
  <2>3. \A k \in DOMAIN ready' : ready'[k] \in E \/ (k \in DOMAIN ready /\ ready'[k] = ready[k])
    BY DEF Comes
  <2>4. QED
    BY <2>1, <2>2, <2>3 DEF Entries
<1>1. ASSUME NEW d \in Calls, ToBeAlone(d, call', alone') PROVE Sole(d, call', Running')
  <2>1. Sole(d, call, Running)
    BY <1>1 DEF SoleInv, AloneInv, ToBeAlone, Stays, Steady
  <2>2. QED
    BY <1>1, <2>1 DEF Sole, Takes, Stays, Steady
<1>2. OrphanInv'
  BY NoneIs DEF OrphanInv, Takes
<1>3. ASSUME NEW d \in Calls, call'[d].jobs >= 2, Drew(d, call', ready') PROVE bound' = active'
  <2>1. call[d].jobs >= 2 /\ Drew(d, call, ready')
    BY <1>3 DEF Drew, Stays, Steady
  <2>2. QED
    BY <2>1 DEF DrewStays
<1>4. ASSUME NEW k \in DOMAIN ready', ready'[k].result = "refused"
      PROVE  call'[ready'[k].call].left = call'[ready'[k].call].jobs
  <2>1. call[ready'[k].call].left = call[ready'[k].call].jobs
    <3>1. PICK e : e = ready'[k]
      OBVIOUS
    <3>2. e \in E \/ (k \in DOMAIN ready /\ e = ready[k])
      BY <3>1 DEF Comes
    <3>3. QED
      BY <1>4, <3>1, <3>2 DEF SoleInv, RefusedInv, Proper
  <2>2. QED
    BY <1>0, <2>1 DEF Stays, Steady
<1>5. ASSUME NEW k \in DOMAIN ready', IsRead(k, call', ready')
      PROVE  ready'[k].seen.doc = bound' /\ bound' \in Docs
  <2>1. ready'[k].result = "ok" /\ call[ready'[k].call].at \in {"read", "refresh", "export"}
    BY <1>0, <1>5 DEF IsRead, Stays, Steady
  <2>2. CASE ready'[k] \in E
    <3>1. PICK e \in E : e = ready'[k]
      BY <2>2
    <3>2. e.seen.doc = bound' /\ bound' \in Docs
      BY <2>1, <3>1 DEF Proper
    <3>3. QED
      BY <3>1, <3>2
  <2>3. CASE k \in DOMAIN ready /\ ready'[k] = ready[k]
    <3>1. IsRead(k, call, ready)
      BY <2>1, <2>3 DEF IsRead
    <3>2. ready[k].seen.doc = bound /\ bound \in Docs
      BY <2>3, <3>1 DEF SoleInv, ReadInv
    <3>3. ready # <<>>
      BY <2>3
    <3>4. QED
      BY <2>3, <3>2, <3>3, NoneIs
  <2>4. QED
    BY <2>2, <2>3 DEF Comes
<1>6. QED
  BY <1>1, <1>2, <1>3, <1>4, <1>5 DEF SoleInv, AloneInv, DrewInv, RefusedInv, ReadInv

\* The next job is of a call in flight.
LEMMA NextIs ==
  ASSUME TypeInv, LineInv, Queue # <<>>
  PROVE  Queue[1].call \in Calls /\ call[Queue[1].call].at \in Waiting /\ Fit(Queue[1], call[Queue[1].call].at)
<1>1. Queue \in Seq(Queued) /\ 1 \in DOMAIN Queue
  BY OneIs, TailIs DEF LineInv
<1>2. QED
  BY <1>1, Members DEF LineInv, Held, Fit, Queued

LEMMA BeginSole ==
  ASSUME TypeInv, LineInv, SoleInv, NEW x \in DOMAIN executors, BeginUnguarded(x) \/ Guard(x)
  PROVE  SoleInv'
<1>1. /\ Queue # <<>> /\ Running' = Queue[1] /\ ready' = ready
  BY BeginUnguardedLine, GuardLine DEF Started
<1>2. Takes
  BY <1>1, NextIs DEF Takes, Waiting
<1>3. alone' = alone /\ call' \in {call, Retired} /\ active' = active /\ (bound' = bound \/ bound' = active)
      /\ (bound' = bound \/ bound = None)
  BY DEF BeginUnguarded, Guard, seat, session
<1>4. Stays
  BY <1>3, RetiredIs DEF Stays, Steady
<1>5. Comes({}) /\ Proper({})
  BY <1>1, ComesNone DEF Proper
<1>6. DrewStays
  <2>1. CASE bound' = bound
    BY <1>1, <1>3, <2>1 DEF SoleInv, DrewInv, DrewStays
  <2>2. CASE bound' = active
    BY <1>3, <2>2 DEF DrewStays
  <2>3. QED
    BY <1>3, <2>1, <2>2
<1>7. QED
  BY <1>2, <1>3, <1>4, <1>5, <1>6, ThreadSole

LEMMA RefuseSole ==
  ASSUME TypeInv, LineInv, SoleInv, NEW x \in DOMAIN executors, Refuse(x)
  PROVE  SoleInv'
<1>1. /\ Queue # <<>> /\ Running' = None
      /\ \E e \in Entries : e.call = Queue[1].call /\ e.result = "refused" /\ ready' = Append(ready, e)
  BY RefuseLine
<1>2. PICK e \in Entries : e.call = Queue[1].call /\ e.result = "refused" /\ ready' = Append(ready, e)
  BY <1>1
<1>3. alone' = alone /\ call' = call /\ active' = active /\ bound' = bound /\ bound # active
  BY DEF Refuse, seat, session
<1>4. Stays /\ Takes
  BY <1>1, <1>3 DEF Stays, Steady, Takes
<1>5. Comes({e})
  BY <1>2, ComesIs
<1>6. ASSUME NEW d \in Calls, Drew(d, call, ready') PROVE Drew(d, call, ready)
  BY <1>2, <1>5, <1>6 DEF Drew, Comes
<1>7. DrewStays
  BY <1>3, <1>6 DEF DrewStays, SoleInv, DrewInv
<1>8. Proper({e})
  <2>1. e.call \in Calls
    BY <1>1, <1>2, NextIs
  <2>2. call[e.call].left = call[e.call].jobs
    <3>1. PICK c \in Calls : c = e.call
      BY <2>1
    <3>2. Fits(call[c]) /\ call[c].jobs \in Nat /\ call[c].left \in Nat /\ call[c].kind \in Kinds \cup {"none"}
      BY CallIs
    <3>3. ASSUME call[c].left # call[c].jobs PROVE FALSE
      <4>1. call[c].kind = "write" /\ call[c].left \in 1..call[c].jobs
        BY <3>2, <3>3 DEF Fits
      <4>2. call[c].jobs >= 2 /\ Drew(c, call, ready)
        BY <3>2, <3>3, <4>1 DEF Drew, Fits
      <4>3. QED
        BY <1>3, <4>2 DEF SoleInv, DrewInv
    <3>4. QED
      BY <3>1, <3>3
  <2>3. QED
    BY <1>2, <2>1, <2>2 DEF Proper
<1>9. QED
  BY <1>3, <1>4, <1>5, <1>7, <1>8, ThreadSole

\* What an end tells the call of the job.
LEMMA EndComes ==
  ASSUME TypeInv, LineInv, Finished, NEW s, Answered(s)
  PROVE  /\ Takes
         /\ \E E : /\ Comes(E)
                   /\ \A e \in E : /\ e.call = Running.call /\ e.call \in Calls /\ e.result = "ok" /\ e.seen = s
                                   /\ Fit(Running, call[e.call].at)
                   /\ Running.call = None => E = {}
                   /\ Running.call # None => \E k \in DOMAIN ready' : ready'[k].call = Running.call /\ ready'[k].result = "ok"
<1>1. Running # None /\ Running' = None
  BY DEF Finished
<1>2. CASE Running.call = None
  BY <1>1, <1>2, ComesNone DEF Answered, Takes
<1>3. CASE Running.call # None
  <2>1. PICK e \in Entries : e.call = Running.call /\ e.result = "ok" /\ e.seen = s /\ ready' = Append(ready, e)
    BY <1>3 DEF Answered
  <2>2. Comes({e})
    BY <2>1, ComesIs
  <2>3. e.call \in Calls /\ Fit(Running, call[e.call].at)
    BY <1>1, <1>3, <2>1 DEF Answered, LineInv, Held
  <2>4. ready'[Len(ready) + 1] = e /\ Len(ready) + 1 \in DOMAIN ready'
    <3>1. ready \in Seq(Entries)
      BY DEF TypeInv, ThreadTypes
    <3>2. /\ DOMAIN Append(ready, e) = 1..(Len(ready) + 1) /\ Append(ready, e)[Len(ready) + 1] = e /\ Len(ready) \in Nat
      BY <3>1, Appended, Members
    <3>3. QED
      BY <2>1, <3>2
  <2>5. QED
    BY <1>1, <1>3, <2>1, <2>2, <2>3, <2>4 DEF Takes
<1>4. QED
  BY <1>2, <1>3

LEMMA EndReadSole ==
  ASSUME OneThread', TypeInv, LineInv, RunInv, SoleInv, NEW x \in DOMAIN executors,
         NEW counted \in BOOLEAN, EndRead(x, counted)
  PROVE  SoleInv'
<1>1. Finished /\ Running.does = "read" /\ Answered(Seen(Thread.doc))
  BY EndReadLine
<1>2. alone' = alone /\ call' = call /\ active' = active /\ bound' = bound
  BY DEF EndRead, Ended, seat
<1>3. Thread.doc = bound /\ bound \in Docs
  BY <1>1 DEF RunInv, Guarded, Finished
<1>4. PICK s : s = Seen(Thread.doc)
  OBVIOUS
<1>5. Takes /\ \E E : /\ Comes(E)
                      /\ \A e \in E : /\ e.call = Running.call /\ e.call \in Calls /\ e.result = "ok" /\ e.seen = s
                                      /\ Fit(Running, call[e.call].at)
  BY <1>1, <1>4, EndComes
<1>6. PICK E : /\ Comes(E)
               /\ \A e \in E : /\ e.call = Running.call /\ e.call \in Calls /\ e.result = "ok" /\ e.seen = s
                               /\ Fit(Running, call[e.call].at)
  BY <1>5
<1>7. Proper(E)
  BY <1>2, <1>3, <1>4, <1>6 DEF Proper, Seen
<1>8. Stays
  BY <1>2 DEF Stays, Steady
<1>9. ASSUME NEW d \in Calls, Drew(d, call, ready') PROVE Drew(d, call, ready)
  <2>1. CASE call[d].left < call[d].jobs
    BY <1>9, <2>1 DEF Drew
  <2>2. CASE \E k \in DOMAIN ready' : ready'[k].call = d /\ ready'[k].result = "ok"
    <3>1. PICK k \in DOMAIN ready' : ready'[k].call = d /\ ready'[k].result = "ok"
      BY <2>2
    <3>2. \A e \in E : e.call # d
      BY <1>1, <1>6, <1>9 DEF Fit, WorkOf, Drew
    <3>3. k \in DOMAIN ready /\ ready'[k] = ready[k]
      BY <1>6, <3>1, <3>2 DEF Comes
    <3>4. QED
      BY <1>9, <3>1, <3>3 DEF Drew
  <2>3. QED
    BY <1>9, <2>1, <2>2 DEF Drew
<1>10. DrewStays
  BY <1>2, <1>9 DEF DrewStays, SoleInv, DrewInv
<1>11. QED
  BY <1>2, <1>5, <1>6, <1>7, <1>8, <1>10, ThreadSole

LEMMA EndDrawSole ==
  ASSUME OneThread', TypeInv, LineInv, RunInv, SoleInv, NEW x \in DOMAIN executors,
         NEW counted \in BOOLEAN, EndDraw(x, counted)
  PROVE  SoleInv'
<1>1. Finished /\ Running.does = "draw" /\ Answered(Unseen)
  BY EndDrawLine
<1>2. alone' = alone /\ call' = call /\ active' = active /\ bound' = bound
  BY DEF EndDraw, Ended
<1>3. bound = active
  BY <1>1 DEF RunInv, Guarded, Finished
<1>5. Takes /\ \E E : /\ Comes(E)
                      /\ \A e \in E : /\ e.call = Running.call /\ e.call \in Calls /\ e.result = "ok" /\ e.seen = Unseen
                                      /\ Fit(Running, call[e.call].at)
  BY <1>1, EndComes
<1>6. PICK E : /\ Comes(E)
               /\ \A e \in E : /\ e.call = Running.call /\ e.call \in Calls /\ e.result = "ok" /\ e.seen = Unseen
                               /\ Fit(Running, call[e.call].at)
  BY <1>5
<1>7. Proper(E)
  BY <1>1, <1>6 DEF Proper, Fit, WorkOf
<1>8. Stays
  BY <1>2 DEF Stays, Steady
<1>9. DrewStays
  BY <1>2, <1>3 DEF DrewStays
<1>10. QED
  BY <1>2, <1>5, <1>6, <1>7, <1>8, <1>9, ThreadSole

\* When a document is chosen or bound, nothing of a bulk write is under way.
LEMMA Unbulky ==
  ASSUME TypeInv, LineInv, SoleInv, Running # None, Running.does \in Unguarded, NEW d \in Calls, call[d].at = "draw"
  PROVE  call[d].jobs < 2
<1>1. SUFFICES ASSUME call[d].jobs >= 2 PROVE FALSE
  BY CallIs
<1>2. Running.call = d
  BY <1>1 DEF SoleInv, AloneInv, ToBeAlone, Sole
<1>3. Fit(Running, "draw")
  BY <1>2, NoneIs DEF LineInv, Held
<1>4. QED
  BY <1>3 DEF Fit, WorkOf, Unguarded

LEMMA EndSelectSole ==
  ASSUME TypeInv, LineInv, SoleInv, NEW x \in DOMAIN executors, EndSelect(x)
  PROVE  SoleInv'
<1>1. Finished /\ Running.does = "select" /\ Answered(Unseen)
  BY EndSelectLine
<1>2. alone' = alone /\ call' = call /\ bound' = bound
  BY DEF EndSelect, Ended
<1>3. Takes /\ \E E : /\ Comes(E)
                      /\ \A e \in E : /\ e.call = Running.call /\ e.call \in Calls /\ e.result = "ok" /\ e.seen = Unseen
                                      /\ Fit(Running, call[e.call].at)
  BY <1>1, EndComes
<1>4. PICK E : /\ Comes(E)
               /\ \A e \in E : /\ e.call = Running.call /\ e.call \in Calls /\ e.result = "ok" /\ e.seen = Unseen
                               /\ Fit(Running, call[e.call].at)
  BY <1>3
<1>5. Proper(E)
  BY <1>1, <1>4 DEF Proper, Fit, WorkOf
<1>6. Stays
  BY <1>2 DEF Stays, Steady
<1>7. DrewStays
  <2>1. \A d \in Calls : call[d].at = "draw" => call[d].jobs < 2
    BY <1>1, Unbulky DEF Unguarded, Finished
  <2>2. \A d \in Calls : call[d].jobs \in Nat
    BY CallIs
  <2>3. QED
    BY <2>1, <2>2 DEF DrewStays, Drew
<1>8. QED
  BY <1>2, <1>3, <1>4, <1>5, <1>6, <1>7, ThreadSole

\* When a document is bound nothing else is being answered, and nothing has drawn.
LEMMA BindsAlone ==
  ASSUME TypeInv, LineInv, SoleInv, Running # None, Running.does = "rebind"
  PROVE  ready = <<>> /\ \A c \in Calls : ~Drew(c, call, ready)
<1>1. CASE Running.call = None
  <2>1. ready = <<>> /\ \A c \in Calls : call[c].left = call[c].jobs
    BY <1>1 DEF SoleInv, OrphanInv, Guarded
  <2>2. \A c \in Calls : call[c].jobs \in Nat
    BY CallIs
  <2>3. QED
    BY <2>1, <2>2 DEF Drew
<1>2. CASE Running.call # None
  <2>1. PICK c : c = Running.call
    OBVIOUS
  <2>2. c \in Calls /\ Fit(Running, call[c].at)
    BY <1>2, <2>1, OneIs DEF LineInv, Held
  <2>3. call[c].at = "rebind"
    BY <2>2 DEF Fit, WorkOf
  <2>4. \A d \in Calls \ {c} : call[d].at = "idle"
    <3>1. ToBeAlone(c, call, alone)
      BY <2>2, <2>3, CallIs DEF Fits, ToBeAlone
    <3>2. QED
      BY <2>2, <3>1 DEF SoleInv, AloneInv, Sole
  <2>5. ASSUME ready # <<>> PROVE FALSE
    <3>1. 1 \in DOMAIN ready /\ ready[1] \in Entries
      BY <2>5, TailIs DEF TypeInv, ThreadTypes
    <3>2. ready[1].call \in Calls /\ ready[1].call # c /\ call[ready[1].call].at \in Waiting
      BY <2>1, <3>1 DEF LineInv, Held, Distinct, Entries
    <3>3. QED
      BY <2>4, <3>2 DEF Waiting
  <2>6. QED
    BY <2>2, <2>3, <2>4, <2>5 DEF Drew
<1>3. QED
  BY <1>1, <1>2

LEMMA EndRebindSole ==
  ASSUME TypeInv, LineInv, SoleInv, NEW x \in DOMAIN executors, EndRebind(x)
  PROVE  SoleInv'
<1>1. Finished /\ Running.does = "rebind" /\ Answered(Unseen)
  BY EndRebindLine
<1>2. alone' = alone /\ call' = Retired
  BY DEF EndRebind, Ended
<1>3. Takes /\ \E E : /\ Comes(E)
                      /\ \A e \in E : /\ e.call = Running.call /\ e.call \in Calls /\ e.result = "ok" /\ e.seen = Unseen
                                      /\ Fit(Running, call[e.call].at)
  BY <1>1, EndComes
<1>4. PICK E : /\ Comes(E)
               /\ \A e \in E : /\ e.call = Running.call /\ e.call \in Calls /\ e.result = "ok" /\ e.seen = Unseen
                               /\ Fit(Running, call[e.call].at)
  BY <1>3
<1>5. Proper(E)
  BY <1>1, <1>4 DEF Proper, Fit, WorkOf
<1>6. Stays
  BY <1>2, RetiredIs DEF Stays, Steady
<1>7. DrewStays
  <2>1. \A d \in Calls : call[d].at = "draw" => call[d].jobs < 2
    BY <1>1, Unbulky DEF Unguarded, Finished
  <2>2. \A d \in Calls : call[d].jobs \in Nat
    BY CallIs
  <2>3. QED
    BY <2>1, <2>2 DEF DrewStays, Drew
<1>8. ready = <<>>
  BY <1>1, BindsAlone DEF Finished
<1>9. QED
  BY <1>3, <1>4, <1>5, <1>6, <1>7, <1>8, ThreadSole

LEMMA SoleNext ==
  ASSUME Orderly, OneThread', TypeInv, LineInv, RunInv, SoleInv, [Next]_vars
  PROVE  SoleInv'
<1>0. Apart /\ ~Disturbed
  BY DEF Orderly
<1>1. CASE \E c \in Calls : Client(c)
  BY <1>0, <1>1, StartSole, CancelSole DEF Client
<1>2. CASE \E c \in Calls : Loop(c)
  BY <1>2, LoopSole
<1>3. CASE \E x \in DOMAIN executors : ComThread(x)
  BY <1>0, <1>3, BeginSole, RefuseSole, EndReadSole, EndDrawSole, EndSelectSole, EndRebindSole DEF ComThread
<1>4. CASE Operator
  <2>1. executors' = executors /\ UNCHANGED <<bound, ready, call, alone>>
    BY <1>4 DEF Operator, Click, Edit, session
  <2>2. Running' = Running
    BY <2>1 DEF Running, Thread
  <2>3. active' = active \/ \A c \in Calls : call[c].jobs < 2
    BY <1>0, <1>4 DEF Operator, Click, Edit, Calm
  <2>4. DrewInv'
    <3>1. ASSUME NEW c \in Calls, call[c].jobs >= 2, Drew(c, call, ready) PROVE bound = active'
      <4>1. call[c].jobs \in Nat
        BY CallIs
      <4>2. QED
        BY <2>3, <3>1, <4>1 DEF SoleInv, DrewInv
    <3>2. QED
      BY <2>1, <3>1 DEF DrewInv
  <2>5. QED
    BY <2>1, <2>2, <2>4 DEF SoleInv, AloneInv, OrphanInv, RefusedInv, ReadInv
<1>5. CASE Timer \/ UNCHANGED vars
  <2>1. executors' = executors /\ UNCHANGED <<bound, active, ready, call, alone>>
    BY <1>0, <1>5, NoneReplaced DEF Timer, Expire, Deadline, RefreshOverruns, vars, session, seat, client
  <2>2. Running' = Running
    BY <2>1 DEF Running, Thread
  <2>3. QED
    BY <2>1, <2>2 DEF SoleInv, AloneInv, OrphanInv, DrewInv, RefusedInv, ReadInv
<1>6. QED
  BY <1>1, <1>2, <1>3, <1>4, <1>5 DEF Next

LEMMA SoleInit ==
  ASSUME Init
  PROVE  SoleInv
<1>1. /\ executors = <<NewExecutor>> /\ ready = <<>> /\ call = [c \in Calls |-> Idle]
  BY DEF Init
<1>2. executors[1] = NewExecutor /\ DOMAIN <<>> = {}
  BY <1>1
<1>3. Running = None
  BY <1>2 DEF Running, Thread, NewExecutor
<1>4. Idle.at = "idle"
  BY Idles
<1>5. \A c \in Calls : call[c].at = "idle"
  BY <1>1, <1>4
<1>6. QED
  BY <1>1, <1>2, <1>3, <1>5 DEF SoleInv, AloneInv, OrphanInv, DrewInv, RefusedInv, ReadInv, ToBeAlone, Drew

-------------------------------------------------------------------------------
(* What a revision names *)

\* AutoCAD's count has gone on since the last job.
Behind(d, ed, held) == ed[d] # held[d]["drawn"] + (held[d]["listed"] + held[d]["other"])

\* The bound document has what a write drew, and the write's return is still to come.
OwedTo(d, b, f, y) == b = d /\ \E c \in Calls : Drew(c, f, y)
DrewBefore(k, f, y) == \E j \in DOMAIN y : j < k /\ y[j].result = "ok" /\ f[y[j].call].at = "draw"

\* A write whose call is gone draws.
Orphaned(d, r, t) == r # None /\ r.call = None /\ r.does = "draw" /\ t = d

\* What was told of a document under a revision: while that is still the revision, the
\* document holds it, or has changed in a way that moves the revision before anyone can
\* be told more.  A read that is to be answered saw it, or is answered after a write's
\* return.
Known(n, rv, ed, held, b, f, y, r, t) ==
  /\ n.doc \in Docs /\ n.rev \in Nat /\ n.rev <= rv[n.doc] /\ ed[n.doc] # None
  /\ n.rev = rv[n.doc] =>
       /\ Behind(n.doc, ed, held) \/ held[n.doc] = n.holds \/ OwedTo(n.doc, b, f, y)
       /\ \A k \in DOMAIN y : IsRead(k, f, y) /\ y[k].seen.doc = n.doc =>
            y[k].seen.holds = n.holds \/ DrewBefore(k, f, y)
       /\ ~Orphaned(n.doc, r, t)
StillKnown ==
  \A n : Known(n, rev, edits, content, bound, call, ready, Running, Thread.doc)
    => Known(n, rev', edits', content', bound', call', ready', Running', Thread.doc')

\* The steps of one call: what it drew is owed still, or counted.
Settles(c) ==
  \/ ~Drew(c, call, ready)
  \/ rev' = Bumped
  \/ ready' = <<>> /\ Drew(c, call', ready')
Leaves == Running' = Running \/ (Running # None /\ Running'.does = Running.does /\ (Running.does = "draw" => rev' = Bumped))

LEMMA DrewForward ==
  ASSUME TypeInv, NEW c \in Calls, Moves(c), NEW d \in Calls \ {c}, Drew(d, call, ready)
  PROVE  Drew(d, call', ready')
<1>1. Steady(d)
  BY DEF Moves
<1>2. CASE call[d].left < call[d].jobs
  BY <1>1, <1>2 DEF Steady, Drew
<1>3. CASE \E k \in DOMAIN ready : ready[k].call = d /\ ready[k].result = "ok"
  <2>1. PICK k \in DOMAIN ready : ready[k].call = d /\ ready[k].result = "ok"
    BY <1>3
  <2>2. PICK m : /\ Sub(ready', ready, m)
                 /\ \A j \in DOMAIN ready : ready[j].call # c => \E i \in DOMAIN ready' : m[i] = j
    BY DEF Moves, Shed
  <2>3. PICK i \in DOMAIN ready' : m[i] = k
    BY <2>1, <2>2
  <2>4. ready'[i] = ready[k]
    BY <2>2, <2>3 DEF Sub
  <2>5. QED
    BY <1>1, <2>1, <2>4 DEF Steady, Drew
<1>4. QED
  BY <1>2, <1>3 DEF Drew

LEMMA ReadBack ==
  ASSUME TypeInv, TypeInv', NEW c \in Calls, Moves(c), ~Drew(c, call, ready), NEW k \in DOMAIN ready', IsRead(k, call', ready')
  PROVE  \E i \in DOMAIN ready : /\ ready[i] = ready'[k] /\ IsRead(i, call, ready)
                                 /\ DrewBefore(i, call, ready) => DrewBefore(k, call', ready')
<1>1. PICK m : /\ Sub(ready', ready, m)
               /\ \A j \in DOMAIN ready : ready[j].call # c => \E i \in DOMAIN ready' : m[i] = j
               /\ \A i \in DOMAIN ready' : ready'[i].call # c
  BY DEF Moves, Shed
<1>2. ready \in Seq(Entries) /\ \A j \in DOMAIN ready : ready[j].call \in Calls
  <2>1. ready \in Seq(Entries)
    BY DEF TypeInv, ThreadTypes
  <2>2. QED
    BY <2>1, Members DEF Entries
<1>3. m[k] \in DOMAIN ready /\ ready[m[k]] = ready'[k] /\ ready'[k].call \in Calls \ {c}
  BY <1>1, <1>2 DEF Sub
<1>4. IsRead(m[k], call, ready)
  BY <1>3 DEF IsRead, Moves, Steady
<1>5. ASSUME DrewBefore(m[k], call, ready) PROVE DrewBefore(k, call', ready')
  <2>1. PICK j \in DOMAIN ready : j < m[k] /\ ready[j].result = "ok" /\ call[ready[j].call].at = "draw"
    BY <1>5 DEF DrewBefore
  <2>2. ready[j].call \in Calls \ {c}
    BY <1>2, <2>1 DEF Drew
  <2>3. PICK i \in DOMAIN ready' : m[i] = j
    BY <1>1, <2>2
  <2>4. ready'[i] = ready[j]
    BY <1>1, <2>3 DEF Sub
  <2>5. i < k
    <3>1. DOMAIN ready = 1..Len(ready) /\ Len(ready) \in Nat
      BY <1>2, Members
    <3>2. j \in Nat /\ m[k] \in Nat
      BY <1>3, <3>1
    <3>3. ready' \in Seq(Entries)
      BY DEF TypeInv, ThreadTypes
    <3>4. DOMAIN ready' = 1..Len(ready') /\ Len(ready') \in Nat
      BY <3>3, Members
    <3>5. i \in Nat /\ k \in Nat
      BY <3>4
    <3>6. i # k /\ ~(k < i)
      BY <1>1, <2>1, <2>3, <3>2 DEF Sub
    <3>7. QED
      BY <3>5, <3>6
  <2>6. QED
    BY <2>1, <2>2, <2>4, <2>5 DEF DrewBefore, Moves, Steady
<1>6. QED
  BY <1>3, <1>4, <1>5

LEMMA KnownMoves ==
  ASSUME TypeInv, TypeInv', RunInv, SoleInv, NEW c \in Calls, Moves(c), Settles(c), Leaves,
         rev' = rev \/ rev' = Bumped, Thread.doc' = Thread.doc
  PROVE  StillKnown
<1>1. SUFFICES ASSUME NEW n, Known(n, rev, edits, content, bound, call, ready, Running, Thread.doc)
               PROVE  Known(n, rev', edits', content', bound', call', ready', Running', Thread.doc')
  BY DEF StillKnown
<1>2. n.doc \in Docs /\ n.rev \in Nat /\ n.rev <= rev[n.doc] /\ edits[n.doc] # None
  BY <1>1 DEF Known
<1>3. UNCHANGED <<content, bound, edits>>
  BY DEF Moves
<1>4. /\ rev[n.doc] \in Nat /\ rev'[n.doc] \in Nat /\ rev[n.doc] <= rev'[n.doc]
      /\ rev' = Bumped /\ bound = n.doc => rev'[n.doc] = rev[n.doc] + 1
  BY <1>2, BumpedIs DEF TypeInv, SeatTypes
<1>5. n.rev <= rev'[n.doc]
  BY <1>2, <1>4
<1>6. SUFFICES ASSUME n.rev = rev'[n.doc]
               PROVE  /\ Behind(n.doc, edits, content) \/ content[n.doc] = n.holds \/ OwedTo(n.doc, bound, call', ready')
                      /\ \A k \in DOMAIN ready' : IsRead(k, call', ready') /\ ready'[k].seen.doc = n.doc =>
                           ready'[k].seen.holds = n.holds \/ DrewBefore(k, call', ready')
                      /\ ~Orphaned(n.doc, Running', Thread.doc')
  BY <1>2, <1>3, <1>5 DEF Known
<1>7. n.rev = rev[n.doc] /\ ~(rev' = Bumped /\ bound = n.doc)
  BY <1>2, <1>4, <1>6
<1>8. /\ Behind(n.doc, edits, content) \/ content[n.doc] = n.holds \/ OwedTo(n.doc, bound, call, ready)
      /\ \A k \in DOMAIN ready : IsRead(k, call, ready) /\ ready[k].seen.doc = n.doc =>
           ready[k].seen.holds = n.holds \/ DrewBefore(k, call, ready)
      /\ ~Orphaned(n.doc, Running, Thread.doc)
  BY <1>1, <1>7 DEF Known
<1>9. OwedTo(n.doc, bound, call, ready) => OwedTo(n.doc, bound, call', ready')
  <2>1. SUFFICES ASSUME bound = n.doc, NEW d \in Calls, Drew(d, call, ready) PROVE \E e \in Calls : Drew(e, call', ready')
    BY DEF OwedTo
  <2>2. CASE d = c
    BY <1>7, <2>1, <2>2 DEF Settles
  <2>3. CASE d # c
    BY <2>1, <2>3, DrewForward
  <2>4. QED
    BY <2>2, <2>3
<1>10. ASSUME NEW k \in DOMAIN ready', IsRead(k, call', ready'), ready'[k].seen.doc = n.doc
       PROVE  ready'[k].seen.holds = n.holds \/ DrewBefore(k, call', ready')
  <2>1. Shed(c) /\ \A d \in Calls \ {c} : Steady(d)
    BY DEF Moves
  <2>2. PICK j \in DOMAIN ready : ready[j] = ready'[k] /\ ready[j].call \in Calls \ {c}
    BY <2>1, ShedFrom
  <2>3. IsRead(j, call, ready)
    BY <1>10, <2>1, <2>2 DEF IsRead, Steady
  <2>4. bound = n.doc
    BY <1>10, <2>2, <2>3 DEF SoleInv, ReadInv
  <2>5. ready' # <<>>
    OBVIOUS
  <2>6. ~Drew(c, call, ready)
    BY <1>7, <2>4, <2>5 DEF Settles
  <2>7. PICK i \in DOMAIN ready : /\ ready[i] = ready'[k] /\ IsRead(i, call, ready)
                                  /\ DrewBefore(i, call, ready) => DrewBefore(k, call', ready')
    BY <1>10, <2>6, ReadBack
  <2>8. ready[i].seen.holds = n.holds \/ DrewBefore(i, call, ready)
    BY <1>8, <1>10, <2>7
  <2>9. QED
    BY <2>7, <2>8
<1>11. ~Orphaned(n.doc, Running', Thread.doc')
  <2>1. SUFFICES ASSUME Orphaned(n.doc, Running', Thread.doc') PROVE FALSE
    OBVIOUS
  <2>2. Running' # Running
    BY <1>8, <2>1 DEF Orphaned
  <2>3. Running # None /\ Running.does = "draw" /\ rev' = Bumped /\ Thread.doc = n.doc
    BY <2>1, <2>2 DEF Orphaned, Leaves
  <2>4. Thread.doc = bound
    BY <2>3 DEF RunInv, Guarded
  <2>5. QED
    BY <1>7, <2>3, <2>4
<1>12. QED
  BY <1>8, <1>9, <1>10, <1>11

\* What the steps of the COM thread leave of a fact.
StillHolds(n) ==
  Behind(n.doc, edits', content') \/ content'[n.doc] = n.holds \/ OwedTo(n.doc, bound', call', ready')
SawThat(E, n) ==
  \A e \in E : e.result = "ok" /\ call[e.call].at \in {"read", "refresh", "export"} /\ e.seen.doc = n.doc =>
    \/ e.seen.holds = n.holds
    \/ \E j \in DOMAIN ready : ready[j].result = "ok" /\ call[ready[j].call].at = "draw"

LEMMA KnownThread ==
  ASSUME TypeInv, Stays, Takes, NEW E, Comes(E), Proper(E), NEW n,
         Known(n, rev, edits, content, bound, call, ready, Running, Thread.doc),
         n.rev <= rev'[n.doc], edits'[n.doc] # None,
         n.rev = rev'[n.doc] => n.rev = rev[n.doc] /\ StillHolds(n) /\ SawThat(E, n)
  PROVE  Known(n, rev', edits', content', bound', call', ready', Running', Thread.doc')
<1>1. n.doc \in Docs /\ n.rev \in Nat
  BY DEF Known
<1>2. SUFFICES ASSUME n.rev = rev'[n.doc]
               PROVE  /\ StillHolds(n)
                      /\ \A k \in DOMAIN ready' : IsRead(k, call', ready') /\ ready'[k].seen.doc = n.doc =>
                           ready'[k].seen.holds = n.holds \/ DrewBefore(k, call', ready')
                      /\ ~Orphaned(n.doc, Running', Thread.doc')
  BY <1>1 DEF Known, StillHolds
<1>3. n.rev = rev[n.doc] /\ StillHolds(n) /\ SawThat(E, n)
  BY <1>2
<1>4. ~Orphaned(n.doc, Running', Thread.doc')
  BY NoneIs DEF Orphaned, Takes
<1>5. \A j \in DOMAIN ready : ready[j].call \in Calls
  BY Members DEF TypeInv, ThreadTypes, Entries
<1>6. ASSUME NEW k \in DOMAIN ready', IsRead(k, call', ready'), ready'[k].seen.doc = n.doc
      PROVE  ready'[k].seen.holds = n.holds \/ DrewBefore(k, call', ready')
  <2>1. CASE k \in DOMAIN ready /\ ready'[k] = ready[k]
    <3>1. IsRead(k, call, ready)
      BY <1>5, <1>6, <2>1 DEF IsRead, Stays, Steady
    <3>2. ready[k].seen.holds = n.holds \/ DrewBefore(k, call, ready)
      BY <1>3, <1>6, <2>1, <3>1 DEF Known
    <3>3. ASSUME DrewBefore(k, call, ready) PROVE DrewBefore(k, call', ready')
      <4>1. PICK j \in DOMAIN ready : j < k /\ ready[j].result = "ok" /\ call[ready[j].call].at = "draw"
        BY <3>3 DEF DrewBefore
      <4>2. j \in DOMAIN ready' /\ ready'[j] = ready[j] /\ Steady(ready[j].call)
        BY <1>5 DEF Comes, Stays
      <4>3. QED
        BY <4>1, <4>2 DEF DrewBefore, Steady
    <3>4. QED
      BY <2>1, <3>2, <3>3
  <2>2. CASE ready'[k] \in E /\ k = Len(ready) + 1
    <3>1. PICK e \in E : e = ready'[k]
      BY <2>2
    <3>2. e.result = "ok" /\ call[e.call].at \in {"read", "refresh", "export"} /\ e.seen.doc = n.doc
      <4>1. e.call \in Calls
        BY DEF Proper
      <4>2. QED
        BY <1>6, <3>1, <4>1 DEF IsRead, Stays, Steady
    <3>3. \/ e.seen.holds = n.holds
          \/ \E j \in DOMAIN ready : ready[j].result = "ok" /\ call[ready[j].call].at = "draw"
      BY <1>3, <3>2 DEF SawThat
    <3>4. ASSUME NEW j \in DOMAIN ready, ready[j].result = "ok", call[ready[j].call].at = "draw"
          PROVE  DrewBefore(k, call', ready')
      <4>1. j \in DOMAIN ready' /\ ready'[j] = ready[j] /\ Steady(ready[j].call) /\ j < k
        BY <1>5, <2>2 DEF Comes, Stays
      <4>2. QED
        BY <3>4, <4>1 DEF DrewBefore, Steady
    <3>5. QED
      BY <3>1, <3>3, <3>4
  <2>3. QED
    BY <2>1, <2>2 DEF Comes
<1>7. QED
  BY <1>3, <1>4, <1>6

\* What was owed is owed still.
LEMMA OwedStays ==
  ASSUME Stays, NEW E, Comes(E), NEW d, OwedTo(d, bound, call, ready), bound' = bound
  PROVE  OwedTo(d, bound', call', ready')
<1>1. PICK c \in Calls : Drew(c, call, ready)
  BY DEF OwedTo
<1>2. Drew(c, call', ready')
  BY <1>1 DEF Drew, Stays, Steady, Comes
<1>3. QED
  BY <1>2 DEF OwedTo

LEMMA KnownStart ==
  ASSUME TypeInv, TypeInv', LineInv, RunInv, SoleInv, NEW c \in Calls,
         \/ \E jobs \in 1..Slices : StartWrite(c, jobs)
         \/ \E d \in Docs : StartChoose(c, d)
         \/ \E kind \in Kinds : StartRead(c, kind)
  PROVE  StillKnown
<1>1. Moves(c) /\ Begins(c) /\ rev' = rev
  BY StartMoves
<1>2. Settles(c) /\ Leaves /\ Thread.doc' = Thread.doc
  BY <1>1 DEF Settles, Drew, Leaves, Begins
<1>3. QED
  BY <1>1, <1>2, KnownMoves

LEMMA KnownSlice ==
  ASSUME TypeInv, TypeInv', LineInv, RunInv, SoleInv, NEW c \in Calls, NextSlice(c)
  PROVE  StillKnown
<1>1. /\ Moves(c) /\ GoesOn(c) /\ call[c].left > 1 /\ call'[c].left = call[c].left - 1 /\ call[c].at = "draw"
      /\ call'[c].at = "draw" /\ call'[c].jobs = call[c].jobs /\ rev' = rev
  BY NextSliceMoves
<1>2. call[c].jobs \in Nat /\ call[c].left \in 1..call[c].jobs
  BY <1>1, CallIs DEF Fits
<1>3. call[c].jobs >= 2 /\ call'[c].left < call'[c].jobs
  BY <1>1, <1>2
<1>4. \A d \in Calls \ {c} : call[d].at = "idle"
  BY <1>1, <1>3 DEF SoleInv, AloneInv, ToBeAlone, Sole
<1>5. DOMAIN ready' = {}
  <2>1. SUFFICES ASSUME NEW k \in DOMAIN ready' PROVE FALSE
    OBVIOUS
  <2>2. PICK i \in DOMAIN ready : ready[i].call \in Calls \ {c}
    BY <1>1, ShedFrom DEF Moves
  <2>3. call[ready[i].call].at \in Waiting
    BY DEF LineInv, Held
  <2>4. QED
    BY <1>4, <2>2, <2>3 DEF Waiting
<1>6. ready' = <<>>
  <2>1. ready' \in Seq(Entries)
    BY DEF TypeInv, ThreadTypes
  <2>2. QED
    BY <1>5, <2>1, Members
<1>7. Settles(c) /\ Leaves /\ Thread.doc' = Thread.doc
  BY <1>1, <1>3, <1>6 DEF Settles, Drew, Leaves, GoesOn
<1>8. QED
  BY <1>1, <1>7, KnownMoves

LEMMA KnownReturn ==
  ASSUME TypeInv, TypeInv', LineInv, RunInv, SoleInv, NEW c \in Calls,
         \/ WriteReturns(c) \/ RefusalReturns(c) \/ ChooseReturns(c) \/ LookReturns(c)
         \/ IdentityReturns(c)
  PROVE  StillKnown
<1>1. Moves(c) /\ GoesOn(c) /\ ready # <<>> /\ ready[1].call = c
  BY ReturnMoves
<1>2. CASE WriteReturns(c)
  <2>1. rev' = Bumped
    BY <1>2 DEF WriteReturns
  <2>2. Settles(c) /\ Leaves /\ Thread.doc' = Thread.doc
    BY <1>1, <2>1 DEF Settles, Leaves, GoesOn
  <2>3. QED
    BY <1>1, <2>1, <2>2, KnownMoves
<1>3. CASE ~WriteReturns(c)
  <2>1. rev' = rev
    BY <1>3 DEF RefusalReturns, ChooseReturns, LookReturns, IdentityReturns, IdentityRead
  <2>2. ~Drew(c, call, ready)
    <3>1. CASE RefusalReturns(c)
      <4>1. PICK at : Resumes(c, at, "refused")
        BY <3>1 DEF RefusalReturns
      <4>2. 1 \in DOMAIN ready /\ ready[1].result = "refused"
        BY <4>1, ResumesIs
      <4>3. call[c].left = call[c].jobs /\ call[c].jobs \in Nat
        BY <1>1, <4>2, CallIs DEF SoleInv, RefusedInv
      <4>4. \A k \in DOMAIN ready : ready[k].call = c => k = 1
        BY <1>1, <4>2 DEF LineInv, Distinct
      <4>5. QED
        BY <4>2, <4>3, <4>4 DEF Drew
    <3>2. CASE ~RefusalReturns(c)
      <4>1. call[c].at # "draw"
        BY <1>3, <3>2 DEF ChooseReturns, LookReturns, IdentityReturns, Resumes
      <4>2. QED
        BY <4>1 DEF Drew
    <3>3. QED
      BY <3>1, <3>2
  <2>3. Settles(c) /\ Leaves /\ Thread.doc' = Thread.doc
    BY <1>1, <2>2 DEF Settles, Leaves, GoesOn
  <2>4. QED
    BY <1>1, <2>1, <2>3, KnownMoves
<1>4. QED
  BY <1>2, <1>3

LEMMA KnownLoop ==
  ASSUME TypeInv, TypeInv', LineInv, RunInv, SoleInv, NEW c \in Calls, Loop(c)
  PROVE  StillKnown
<1>1. CASE Rebind(c) \/ Refresh(c) \/ Detail(c) \/ Parse(c) \/ Reuse(c) \/ Export(c) \/ Parsed(c)
  <2>1. Moves(c) /\ GoesOn(c) /\ rev' = rev
    BY <1>1, OnwardMoves, GateMoves
  <2>2. call[c].at # "draw"
    BY <1>1 DEF Rebind, Refresh, Detail, Parse, Reuse, Export, Parsed, Resumes, Enters
  <2>3. Settles(c) /\ Leaves /\ Thread.doc' = Thread.doc
    BY <2>1, <2>2 DEF Settles, Drew, Leaves, GoesOn
  <2>4. QED
    BY <2>1, <2>3, KnownMoves
<1>2. QED
  BY <1>1, KnownSlice, KnownReturn DEF Loop

LEMMA KnownCancel ==
  ASSUME TypeInv, TypeInv', LineInv, RunInv, SoleInv, NEW c \in Calls, Cancel(c)
  PROVE  StillKnown
<1>1. /\ Moves(c) /\ Thread.doc' = Thread.doc
      /\ IF Running # None /\ Running.call = c
         THEN Running'.call = None /\ Running'.does = Running.does
         ELSE Running' = Running
  BY CancelMoves
<1>2. rev' = IF call[c].kind = "write" THEN Bumped ELSE rev
  BY DEF Cancel, LeftRevision
<1>3. call[c].at = "draw" => rev' = Bumped
  BY <1>2, CallIs DEF Fits
<1>4. Settles(c)
  BY <1>3 DEF Settles, Drew
<1>5. Leaves
  <2>1. CASE Running # None /\ Running.call = c
    <3>1. Fit(Running, call[c].at)
      BY <2>1, NoneIs DEF LineInv, Held
    <3>2. Running.does = "draw" => call[c].at = "draw"
      BY <3>1 DEF Fit, WorkOf
    <3>3. QED
      BY <1>1, <1>3, <2>1, <3>2 DEF Leaves
  <2>2. CASE ~(Running # None /\ Running.call = c)
    BY <1>1, <2>2 DEF Leaves
  <2>3. QED
    BY <2>1, <2>2
<1>6. QED
  BY <1>1, <1>2, <1>4, <1>5, KnownMoves

\* The thread takes up a job, or refuses it.
LEMMA KnownBegin ==
  ASSUME TypeInv, LineInv, SoleInv, NEW x \in DOMAIN executors, BeginUnguarded(x) \/ Refuse(x)
  PROVE  StillKnown
<1>1. UNCHANGED <<rev, edits, content, bound, call, alone>>
  BY DEF BeginUnguarded, Refuse, seat, session
<1>2. Stays
  BY <1>1 DEF Stays, Steady
<1>3. Takes
  <2>1. CASE BeginUnguarded(x)
    BY <2>1, BeginUnguardedLine, NextIs DEF Started, Takes, Waiting
  <2>2. CASE Refuse(x)
    BY <2>2, RefuseLine DEF Takes
  <2>3. QED
    BY <2>1, <2>2
<1>4. PICK E : Comes(E) /\ \A e \in E : e.call \in Calls /\ e.result = "refused" /\ call[e.call].left = call[e.call].jobs
  <2>1. CASE BeginUnguarded(x)
    <3>1. ready' = ready
      BY <2>1, BeginUnguardedLine
    <3>2. QED
      BY <3>1, ComesNone
  <2>2. CASE Refuse(x)
    <3>1. PICK e \in Entries : e.call = Queue[1].call /\ e.result = "refused" /\ ready' = Append(ready, e)
      BY <2>2, RefuseLine
    <3>2. Comes({e})
      BY <3>1, ComesIs
    <3>3. SoleInv'
      BY <2>2, RefuseSole
    <3>4. ready'[Len(ready) + 1] = e /\ Len(ready) + 1 \in DOMAIN ready'
      <4>1. ready \in Seq(Entries)
        BY DEF TypeInv, ThreadTypes
      <4>2. /\ DOMAIN Append(ready, e) = 1..(Len(ready) + 1) /\ Append(ready, e)[Len(ready) + 1] = e /\ Len(ready) \in Nat
        BY <4>1, Appended, Members
      <4>3. QED
        BY <3>1, <4>2
    <3>5. call'[e.call].left = call'[e.call].jobs
      BY <3>1, <3>3, <3>4 DEF SoleInv, RefusedInv
    <3>6. e.call \in Calls
      BY DEF Entries
    <3>7. QED
      BY <1>1, <3>1, <3>2, <3>5, <3>6
  <2>3. QED
    BY <2>1, <2>2
<1>5. Proper(E)
  BY <1>4 DEF Proper
<1>6. ASSUME NEW n, Known(n, rev, edits, content, bound, call, ready, Running, Thread.doc)
      PROVE  Known(n, rev', edits', content', bound', call', ready', Running', Thread.doc')
  <2>1. n.rev <= rev'[n.doc] /\ edits'[n.doc] # None
    BY <1>1, <1>6 DEF Known
  <2>2. SawThat(E, n)
    BY <1>4 DEF SawThat
  <2>3. n.rev = rev[n.doc] => StillHolds(n)
    <3>1. OwedTo(n.doc, bound, call, ready) => OwedTo(n.doc, bound', call', ready')
      BY <1>1, <1>2, <1>4, OwedStays
    <3>2. QED
      BY <1>1, <1>6, <3>1 DEF Known, StillHolds
  <2>4. QED
    BY <1>1, <1>2, <1>3, <1>4, <1>5, <1>6, <2>1, <2>2, <2>3, KnownThread
<1>7. QED
  BY <1>6 DEF StillKnown

\* A guard that lets a job run counts what came from outside as one more revision.
LEMMA KnownGuard ==
  ASSUME TypeInv, LineInv, SoleInv, NEW x \in DOMAIN executors, Guard(x)
  PROVE  StillKnown
<1>1. /\ UNCHANGED <<content, active, alone>> /\ bound \in {None, active} /\ bound' = active /\ active \in Docs
      /\ call' \in {call, Retired} /\ edits' = [edits EXCEPT ![active] = Changes(active)]
      /\ rev' = IF Outside(active) THEN [rev EXCEPT ![active] = @ + 1] ELSE rev
  BY DEF Guard, seat, TypeInv, SeatTypes
<1>2. Stays
  BY <1>1, RetiredIs DEF Stays, Steady
<1>3. /\ Queue # <<>> /\ Running' = Queue[1] /\ ready' = ready
  BY GuardLine DEF Started
<1>4. Takes
  BY <1>3, NextIs DEF Takes, Waiting
<1>5. Comes({}) /\ Proper({})
  BY <1>3, ComesNone DEF Proper
<1>6. /\ rev \in [Docs -> Nat] /\ edits \in [Docs -> Nat \cup {None}] /\ None \notin Nat /\ None \notin Docs
      /\ Changes(active) \in Nat
  BY <1>1, SeatAssumption DEF TypeInv, SeatTypes, Changes, OperatorEdits, Parts
<1>7. ASSUME NEW n, Known(n, rev, edits, content, bound, call, ready, Running, Thread.doc)
      PROVE  Known(n, rev', edits', content', bound', call', ready', Running', Thread.doc')
  <2>1. /\ n.doc \in Docs /\ n.rev \in Nat /\ n.rev <= rev[n.doc] /\ edits[n.doc] # None
        /\ n.rev = rev[n.doc] =>
             Behind(n.doc, edits, content) \/ content[n.doc] = n.holds \/ OwedTo(n.doc, bound, call, ready)
    BY <1>7 DEF Known
  <2>2. rev[n.doc] \in Nat /\ SawThat({}, n)
    BY <1>6, <2>1 DEF SawThat
  <2>3. CASE n.doc = active
    <3>1. edits'[n.doc] = Changes(active)
      BY <1>1, <1>6, <2>3
    <3>2. CASE Outside(active)
      <4>1. rev'[n.doc] = rev[n.doc] + 1
        BY <1>1, <1>6, <2>3, <3>2
      <4>2. n.rev <= rev'[n.doc] /\ n.rev # rev'[n.doc]
        BY <2>1, <2>2, <4>1
      <4>3. QED
        BY <1>2, <1>4, <1>5, <1>6, <1>7, <3>1, <4>2, KnownThread
    <3>3. CASE ~Outside(active)
      <4>1. rev' = rev /\ edits[n.doc] = Changes(active)
        BY <1>1, <2>1, <2>3, <3>3 DEF Outside
      <4>2. ~Behind(n.doc, edits, content)
        BY <2>3, <4>1 DEF Behind, Changes, OperatorEdits
      <4>3. n.rev = rev[n.doc] => StillHolds(n)
        <5>1. ASSUME OwedTo(n.doc, bound, call, ready) PROVE OwedTo(n.doc, bound', call', ready')
          <6>1. bound' = bound
            BY <1>1, <2>3, <5>1 DEF OwedTo
          <6>2. QED
            BY <1>2, <1>5, <5>1, <6>1, OwedStays
        <5>2. QED
          BY <1>1, <2>1, <4>2, <5>1 DEF StillHolds
      <4>4. QED
        BY <1>2, <1>4, <1>5, <1>6, <1>7, <2>1, <2>2, <3>1, <4>1, <4>3, KnownThread
    <3>4. QED
      BY <3>2, <3>3
  <2>4. CASE n.doc # active
    <3>1. rev'[n.doc] = rev[n.doc] /\ edits'[n.doc] = edits[n.doc]
      BY <1>1, <1>6, <2>1, <2>4
    <3>2. ~OwedTo(n.doc, bound, call, ready)
      BY <1>1, <1>6, <2>1, <2>4 DEF OwedTo
    <3>3. n.rev = rev[n.doc] => StillHolds(n)
      BY <1>1, <2>1, <3>1, <3>2 DEF StillHolds, Behind
    <3>4. QED
      BY <1>2, <1>4, <1>5, <1>7, <2>1, <2>2, <3>1, <3>3, KnownThread
  <2>5. QED
    BY <2>3, <2>4
<1>8. QED
  BY <1>7 DEF StillKnown

\* While a read runs, a write that has drawn has its answer in line before it.
LEMMA OwedRead ==
  ASSUME TypeInv, LineInv, SoleInv, Running # None, Running.does = "read", NEW d, OwedTo(d, bound, call, ready)
  PROVE  \E j \in DOMAIN ready : ready[j].result = "ok" /\ call[ready[j].call].at = "draw"
<1>1. PICK c \in Calls : Drew(c, call, ready)
  BY DEF OwedTo
<1>2. CASE call[c].left < call[c].jobs
  <2>1. call[c].at = "draw" /\ call[c].kind = "write" /\ call[c].left \in 1..call[c].jobs /\ call[c].jobs \in Nat
    BY <1>1, <1>2, CallIs DEF Drew, Fits
  <2>2. call[c].jobs >= 2
    BY <1>2, <2>1
  <2>3. Running.call = c
    BY <2>1, <2>2 DEF SoleInv, AloneInv, ToBeAlone, Sole
  <2>4. Fit(Running, "draw")
    BY <2>1, <2>3, NoneIs DEF LineInv, Held
  <2>5. QED
    BY <2>4 DEF Fit, WorkOf
<1>3. CASE \E k \in DOMAIN ready : ready[k].call = c /\ ready[k].result = "ok"
  BY <1>1, <1>3 DEF Drew
<1>4. QED
  BY <1>1, <1>2, <1>3 DEF Drew

LEMMA KnownEndRead ==
  ASSUME OneThread', TypeInv, LineInv, RunInv, SoleInv, NEW x \in DOMAIN executors,
         NEW counted \in BOOLEAN, EndRead(x, counted)
  PROVE  StillKnown
<1>1. Finished /\ Running.does = "read" /\ Answered(Seen(Thread.doc)) /\ Running # None
  BY EndReadLine DEF Finished
<1>2. alone' = alone /\ call' = call /\ rev' = rev /\ UNCHANGED <<content, edits, bound>>
  BY EditsStay DEF EndRead, Ended
<1>3. Thread.doc = bound /\ bound \in Docs /\ edits[bound] = Changes(bound)
  BY <1>1 DEF RunInv, Guarded
<1>4. PICK s : s = Seen(bound)
  OBVIOUS
<1>5. Takes /\ \E E : /\ Comes(E)
                      /\ \A e \in E : /\ e.call = Running.call /\ e.call \in Calls /\ e.result = "ok" /\ e.seen = s
                                      /\ Fit(Running, call[e.call].at)
  BY <1>1, <1>3, <1>4, EndComes
<1>6. PICK E : /\ Comes(E)
               /\ \A e \in E : e.call \in Calls /\ e.result = "ok" /\ e.seen = s
  BY <1>5
<1>7. Proper(E) /\ Stays
  BY <1>2, <1>3, <1>4, <1>6 DEF Proper, Seen, Stays, Steady
<1>8. ASSUME NEW n, Known(n, rev, edits, content, bound, call, ready, Running, Thread.doc)
      PROVE  Known(n, rev', edits', content', bound', call', ready', Running', Thread.doc')
  <2>1. /\ n.rev <= rev'[n.doc] /\ edits'[n.doc] # None
        /\ n.rev = rev[n.doc] =>
             Behind(n.doc, edits, content) \/ content[n.doc] = n.holds \/ OwedTo(n.doc, bound, call, ready)
    BY <1>2, <1>8 DEF Known
  <2>2. ASSUME n.rev = rev[n.doc] PROVE SawThat(E, n)
    <3>1. CASE n.doc # bound
      BY <1>4, <1>6, <3>1 DEF SawThat, Seen
    <3>2. CASE n.doc = bound
      <4>1. content[n.doc] = n.holds \/ OwedTo(n.doc, bound, call, ready)
        BY <1>3, <2>1, <2>2, <3>2 DEF Behind, Changes, OperatorEdits
      <4>2. CASE content[n.doc] = n.holds
        BY <1>4, <1>6, <3>2, <4>2 DEF SawThat, Seen
      <4>3. CASE OwedTo(n.doc, bound, call, ready)
        BY <1>1, <4>3, OwedRead DEF SawThat
      <4>4. QED
        BY <4>1, <4>2, <4>3
    <3>3. QED
      BY <3>1, <3>2
  <2>3. n.rev = rev[n.doc] => StillHolds(n)
    <3>1. OwedTo(n.doc, bound, call, ready) => OwedTo(n.doc, bound', call', ready')
      BY <1>2, <1>6, <1>7, OwedStays
    <3>2. QED
      BY <1>2, <2>1, <3>1 DEF StillHolds
  <2>4. QED
    BY <1>2, <1>5, <1>6, <1>7, <1>8, <2>1, <2>2, <2>3, KnownThread
<1>9. QED
  BY <1>8 DEF StillKnown

\* A draw's own call is owed its return; a draw that its call left is in no revision told.
LEMMA KnownEndDraw ==
  ASSUME OneThread', TypeInv, LineInv, RunInv, SoleInv, NEW x \in DOMAIN executors,
         NEW counted \in BOOLEAN, EndDraw(x, counted)
  PROVE  StillKnown
<1>1. /\ Finished /\ Running.does = "draw" /\ Answered(Unseen) /\ Running # None /\ Thread.doc \in Docs
      /\ content' = [content EXCEPT ![Thread.doc]["drawn"] = @ + 1]
  BY EndDrawLine DEF Finished
<1>2. alone' = alone /\ call' = call /\ rev' = rev /\ bound' = bound /\ Absorbed(counted)
  BY DEF EndDraw, Ended
<1>3. Thread.doc = bound /\ bound \in Docs
  BY <1>1 DEF RunInv, Guarded
<1>4. content' \in [Docs -> [Parts -> Nat]] /\ \A e \in Docs \ {bound} : content'[e] = content[e]
  BY <1>1, <1>3, DrawnIs
<1>5. \A d \in Docs : edits'[d] = IF counted /\ d = bound /\ edits[d] # None
                                  THEN content'[d]["drawn"] + (content'[d]["listed"] + content'[d]["other"])
                                  ELSE edits[d]
  BY <1>2, <1>4, AbsorbedIs
<1>6. /\ Takes
      /\ \E E : /\ Comes(E)
                /\ \A e \in E : /\ e.call = Running.call /\ e.call \in Calls /\ e.result = "ok" /\ e.seen = Unseen
                                /\ Fit(Running, call[e.call].at)
      /\ Running.call # None => \E k \in DOMAIN ready' : ready'[k].call = Running.call /\ ready'[k].result = "ok"
  BY <1>1, EndComes
<1>7. PICK E : /\ Comes(E)
               /\ \A e \in E : e.call \in Calls /\ e.result = "ok" /\ Fit(Running, call[e.call].at)
  BY <1>6
<1>8. \A e \in E : call[e.call].at \notin {"read", "refresh", "export"}
  BY <1>1, <1>7 DEF Fit, WorkOf
<1>9. Proper(E) /\ Stays /\ \A n : SawThat(E, n)
  BY <1>2, <1>7, <1>8 DEF Proper, Stays, Steady, SawThat
<1>10. ASSUME NEW n, Known(n, rev, edits, content, bound, call, ready, Running, Thread.doc)
       PROVE  Known(n, rev', edits', content', bound', call', ready', Running', Thread.doc')
  <2>1. /\ n.doc \in Docs /\ n.rev <= rev'[n.doc] /\ edits[n.doc] # None
        /\ n.rev = rev[n.doc] =>
             /\ Behind(n.doc, edits, content) \/ content[n.doc] = n.holds \/ OwedTo(n.doc, bound, call, ready)
             /\ ~Orphaned(n.doc, Running, Thread.doc)
    BY <1>2, <1>10 DEF Known
  <2>2. edits'[n.doc] # None
    <3>1. content'[n.doc]["drawn"] + (content'[n.doc]["listed"] + content'[n.doc]["other"]) \in Nat
      BY <1>4, <2>1 DEF Parts
    <3>2. QED
      BY <1>5, <2>1, <3>1, SeatAssumption
  <2>3. ASSUME n.rev = rev[n.doc] PROVE StillHolds(n)
    <3>1. CASE n.doc = bound
      <4>1. Running.call # None
        BY <1>1, <1>3, <2>1, <2>3, <3>1 DEF Orphaned
      <4>2. PICK k \in DOMAIN ready' : ready'[k].call = Running.call /\ ready'[k].result = "ok"
        BY <1>6, <4>1
      <4>3. PICK c \in Calls : c = Running.call
        BY <1>1, <4>1, OneIs DEF LineInv
      <4>4. Fit(Running, call[c].at)
        BY <1>1, <4>1, <4>3 DEF LineInv, Held
      <4>5. call[c].at = "draw"
        BY <1>1, <4>4 DEF Fit, WorkOf
      <4>6. Drew(c, call', ready')
        BY <1>2, <4>2, <4>3, <4>5 DEF Drew
      <4>7. QED
        BY <1>2, <3>1, <4>6 DEF StillHolds, OwedTo
    <3>2. CASE n.doc # bound
      <4>1. content'[n.doc] = content[n.doc] /\ edits'[n.doc] = edits[n.doc]
        BY <1>4, <1>5, <2>1, <3>2
      <4>2. Behind(n.doc, edits, content) \/ content[n.doc] = n.holds
        BY <2>1, <2>3, <3>2 DEF OwedTo
      <4>3. QED
        BY <4>1, <4>2 DEF StillHolds, Behind
    <3>3. QED
      BY <3>1, <3>2
  <2>4. QED
    BY <1>2, <1>6, <1>7, <1>9, <1>10, <2>1, <2>2, <2>3, KnownThread
<1>11. QED
  BY <1>10 DEF StillKnown

LEMMA KnownEndChoose ==
  ASSUME OneThread', TypeInv, LineInv, SoleInv, NEW x \in DOMAIN executors, EndSelect(x) \/ EndRebind(x)
  PROVE  StillKnown
<1>1. Finished /\ Running.does \in Unguarded /\ Answered(Unseen) /\ Running # None
  BY EndSelectLine, EndRebindLine DEF Finished, Unguarded
<1>2. alone' = alone /\ call' \in {call, Retired} /\ rev' = rev /\ UNCHANGED <<content, edits>>
  BY DEF EndSelect, EndRebind, Ended, seat
<1>3. /\ Takes
      /\ \E E : /\ Comes(E)
                /\ \A e \in E : /\ e.call = Running.call /\ e.call \in Calls /\ e.result = "ok" /\ e.seen = Unseen
                                /\ Fit(Running, call[e.call].at)
  BY <1>1, EndComes
<1>4. PICK E : /\ Comes(E)
               /\ \A e \in E : e.call \in Calls /\ e.result = "ok" /\ Fit(Running, call[e.call].at)
  BY <1>3
<1>5. \A e \in E : call[e.call].at \notin {"read", "refresh", "export"}
  BY <1>1, <1>4 DEF Fit, WorkOf, Unguarded
<1>6. Stays
  BY <1>2, RetiredIs DEF Stays, Steady
<1>7. Proper(E) /\ \A n : SawThat(E, n)
  BY <1>4, <1>5 DEF Proper, SawThat
<1>8. bound' = bound \/ \A c \in Calls : ~Drew(c, call, ready)
  <2>1. CASE EndSelect(x)
    BY <2>1 DEF EndSelect
  <2>2. CASE EndRebind(x)
    BY <2>2, EndRebindLine, BindsAlone DEF Finished
  <2>3. QED
    BY <2>1, <2>2
<1>9. ASSUME NEW n, Known(n, rev, edits, content, bound, call, ready, Running, Thread.doc)
      PROVE  Known(n, rev', edits', content', bound', call', ready', Running', Thread.doc')
  <2>1. /\ n.rev <= rev'[n.doc] /\ edits'[n.doc] # None
        /\ n.rev = rev[n.doc] =>
             Behind(n.doc, edits, content) \/ content[n.doc] = n.holds \/ OwedTo(n.doc, bound, call, ready)
    BY <1>2, <1>9 DEF Known
  <2>2. OwedTo(n.doc, bound, call, ready) => OwedTo(n.doc, bound', call', ready')
    <3>1. CASE bound' = bound
      BY <1>4, <1>6, <3>1, OwedStays
    <3>2. CASE \A c \in Calls : ~Drew(c, call, ready)
      BY <3>2 DEF OwedTo
    <3>3. QED
      BY <1>8, <3>1, <3>2
  <2>3. n.rev = rev[n.doc] => StillHolds(n)
    BY <1>2, <2>1, <2>2 DEF StillHolds
  <2>4. QED
    BY <1>2, <1>3, <1>4, <1>6, <1>7, <1>9, <2>1, <2>3, KnownThread
<1>10. QED
  BY <1>9 DEF StillKnown

\* What the operator edits is counted before anyone is told more of the document.
LEMMA EditBehind ==
  ASSUME TypeInv, CountInv, Operator, content' # content
  PROVE  /\ active \in Docs /\ \A e \in Docs \ {active} : content'[e] = content[e]
         /\ edits[active] # None => Behind(active, edits, content')
<1>1. PICK p \in Parts : content' = [content EXCEPT ![active][p] = @ + 1]
  BY DEF Operator, Click, Edit
<1>2. active \in Docs /\ edits \in [Docs -> Nat \cup {None}]
  BY DEF TypeInv, SeatTypes
<1>3. /\ content'[active]["drawn"] + (content'[active]["listed"] + content'[active]["other"]) = Changes(active) + 1
      /\ Changes(active) \in Nat
      /\ \A e \in Docs \ {active} : content'[e] = content[e]
  <2>1. PICK d \in Docs : d = active
    BY <1>2
  <2>2. content' = [content EXCEPT ![d][p] = @ + 1]
    BY <1>1, <2>1
  <2>3. Changes(d)' = Changes(d) + 1 /\ Changes(d) \in Nat /\ \A e \in Docs \ {d} : content'[e] = content[e]
    BY <2>2, ChangesGrow
  <2>4. \A e \in Docs \ {active} : content'[e] = content[e]
    BY <2>1, <2>3
  <2>5. content'[d]["drawn"] + (content'[d]["listed"] + content'[d]["other"]) = Changes(d) + 1
    BY <2>3 DEF Changes, OperatorEdits
  <2>6. QED
    BY <2>1, <2>3, <2>4, <2>5
<1>4. edits[active] # None => edits[active] \in Nat /\ edits[active] <= Changes(active)
  BY <1>2 DEF CountInv
<1>5. edits[active] # None => Behind(active, edits, content')
  BY <1>3, <1>4 DEF Behind
<1>6. QED
  BY <1>2, <1>3, <1>5

LEMMA KnownOperator ==
  ASSUME TypeInv, CountInv, Operator
  PROVE  StillKnown
<1>1. executors' = executors /\ UNCHANGED <<rev, edits, bound, call, ready, alone>>
  BY DEF Operator, Click, Edit, session
<1>2. Running' = Running /\ Thread.doc' = Thread.doc
  BY <1>1 DEF Running, Thread
<1>3. CASE content' = content
  BY <1>1, <1>2, <1>3 DEF StillKnown
<1>4. CASE content' # content
  <2>1. /\ active \in Docs /\ \A e \in Docs \ {active} : content'[e] = content[e]
        /\ edits[active] # None => Behind(active, edits, content')
    BY <1>4, EditBehind
  <2>2. ASSUME NEW n, Known(n, rev, edits, content, bound, call, ready, Running, Thread.doc)
        PROVE  Known(n, rev', edits', content', bound', call', ready', Running', Thread.doc')
    <3>1. CASE n.doc = active
      BY <1>1, <1>2, <2>1, <2>2, <3>1 DEF Known
    <3>2. CASE n.doc # active
      <4>1. content'[n.doc] = content[n.doc]
        BY <2>1, <2>2, <3>2 DEF Known
      <4>2. QED
        BY <1>1, <1>2, <2>2, <4>1 DEF Known, Behind
    <3>3. QED
      BY <3>1, <3>2
  <2>3. QED
    BY <2>2 DEF StillKnown
<1>5. QED
  BY <1>3, <1>4

\* Every step leaves every fact a fact.
LEMMA KnownNext ==
  ASSUME Orderly, OneThread', OneInv, OneInv', SoleInv, [Next]_vars
  PROVE  StillKnown
<1>0. TypeInv /\ TypeInv' /\ LineInv /\ RunInv /\ CountInv
  BY DEF Orderly, OneInv
<1>1. CASE \E c \in Calls : Client(c)
  BY <1>0, <1>1, KnownStart, KnownCancel DEF Client
<1>2. CASE \E c \in Calls : Loop(c)
  BY <1>0, <1>2, KnownLoop
<1>3. CASE \E x \in DOMAIN executors : ComThread(x)
  BY <1>0, <1>3, KnownBegin, KnownGuard, KnownEndRead, KnownEndDraw, KnownEndChoose DEF ComThread
<1>4. CASE Operator
  BY <1>0, <1>4, KnownOperator
<1>5. CASE Timer \/ UNCHANGED vars
  <2>1. executors' = executors /\ UNCHANGED <<rev, edits, content, bound, ready, call, alone>>
    BY <1>0, <1>5, NoneReplaced DEF Timer, Expire, Deadline, RefreshOverruns, vars, session, seat, client
  <2>2. Running' = Running /\ Thread.doc' = Thread.doc
    BY <2>1 DEF Running, Thread
  <2>3. QED
    BY <2>1, <2>2 DEF StillKnown
<1>6. QED
  BY <1>1, <1>2, <1>3, <1>4, <1>5 DEF Next

-------------------------------------------------------------------------------
(* What a read saw that had the line for itself *)

\* The document still holds it, or has changed in a way the next guard counts.
Stood(s, ed, held) ==
  s.doc \in Docs /\ ed[s.doc] # None /\ (held[s.doc] = s.holds \/ Behind(s.doc, ed, held))
AloneRead ==
  \A k \in DOMAIN ready : IsRead(k, call, ready) /\ ready[k].call = alone => Stood(ready[k].seen, edits, content)

\* While its answer waits nothing else is in the line.
LEMMA AloneQuiet ==
  ASSUME TypeInv, LineInv, SoleInv, NEW k \in DOMAIN ready, ready[k].call = alone
  PROVE  Running = None /\ Queue = <<>> /\ \A d \in Calls \ {alone} : call[d].at = "idle"
<1>1. alone \in Calls /\ call[alone].at \in Waiting
  <2>1. ready[k] \in Entries
    BY Members DEF TypeInv, ThreadTypes
  <2>2. QED
    BY <2>1 DEF LineInv, Held, Entries
<1>2. Sole(alone, call, Running)
  BY <1>1 DEF SoleInv, AloneInv, ToBeAlone, Waiting
<1>3. Running = None
  BY <1>2 DEF Sole, LineInv, Distinct
<1>4. Queue = <<>>
  <2>1. SUFFICES ASSUME Queue # <<>> PROVE FALSE
    OBVIOUS
  <2>2. Queue[1].call \in Calls /\ call[Queue[1].call].at \in Waiting
    BY <2>1, NextIs
  <2>3. Queue[1].call = alone
    BY <1>2, <2>2 DEF Sole, Waiting
  <2>4. 1 \in DOMAIN Queue
    BY <2>1, OneIs, TailIs DEF LineInv
  <2>5. QED
    BY <2>3, <2>4 DEF LineInv, Distinct
<1>5. QED
  BY <1>2, <1>3, <1>4 DEF Sole

LEMMA AloneMoves ==
  ASSUME TypeInv, AloneRead, NEW c \in Calls, Moves(c), alone' \in {alone, c, None}
  PROVE  AloneRead'
<1>1. ASSUME NEW k \in DOMAIN ready', IsRead(k, call', ready'), ready'[k].call = alone'
      PROVE  Stood(ready'[k].seen, edits', content')
  <2>1. PICK i \in DOMAIN ready : ready[i] = ready'[k] /\ ready[i].call \in Calls \ {c}
    BY ShedFrom DEF Moves
  <2>2. alone' = alone
    BY <1>1, <2>1, NoneIs
  <2>3. IsRead(i, call, ready)
    BY <1>1, <2>1 DEF IsRead, Moves, Steady
  <2>4. Stood(ready[i].seen, edits, content)
    BY <1>1, <2>1, <2>2, <2>3 DEF AloneRead
  <2>5. QED
    BY <2>1, <2>4 DEF Moves
<1>2. QED
  BY <1>1 DEF AloneRead

LEMMA AloneThread ==
  ASSUME TypeInv, LineInv, SoleInv, Stays, Running # None \/ Queue # <<>>, NEW E, Comes(E), Proper(E),
         \A e \in E : e.result = "ok" /\ call[e.call].at \in {"read", "refresh", "export"} => Stood(e.seen, edits', content')
  PROVE  AloneRead'
<1>1. ASSUME NEW k \in DOMAIN ready', IsRead(k, call', ready'), ready'[k].call = alone'
      PROVE  Stood(ready'[k].seen, edits', content')
  <2>1. alone' = alone
    BY DEF Stays
  <2>2. PICK e : e = ready'[k]
    OBVIOUS
  <2>3. ~(k \in DOMAIN ready /\ e = ready[k])
    BY <1>1, <2>1, <2>2, AloneQuiet
  <2>4. e \in E
    BY <2>2, <2>3 DEF Comes
  <2>5. e.call \in Calls
    BY <2>4 DEF Proper
  <2>6. e.result = "ok" /\ call[e.call].at \in {"read", "refresh", "export"}
    BY <1>1, <2>2, <2>5 DEF IsRead, Stays, Steady
  <2>7. QED
    BY <2>2, <2>4, <2>6
<1>2. QED
  BY <1>1 DEF AloneRead

LEMMA AloneBegin ==
  ASSUME TypeInv, LineInv, SoleInv, NEW x \in DOMAIN executors, BeginUnguarded(x) \/ Refuse(x) \/ Guard(x)
  PROVE  AloneRead'
<1>1. Queue # <<>> /\ (ready' = ready \/ \E e \in Entries : e.result = "refused" /\ ready' = Append(ready, e))
  BY BeginUnguardedLine, RefuseLine, GuardLine DEF Started
<1>2. alone' = alone /\ call' \in {call, Retired}
  BY DEF BeginUnguarded, Refuse, Guard
<1>3. ASSUME NEW k \in DOMAIN ready', IsRead(k, call', ready'), ready'[k].call = alone' PROVE FALSE
  <2>1. CASE ready' = ready
    BY <1>1, <1>2, <1>3, <2>1, AloneQuiet
  <2>2. CASE \E e \in Entries : e.result = "refused" /\ ready' = Append(ready, e)
    <3>1. PICK e \in Entries : e.result = "refused" /\ ready' = Append(ready, e)
      BY <2>2
    <3>2. Comes({e})
      BY <3>1, ComesIs
    <3>3. PICK a : a = ready'[k]
      OBVIOUS
    <3>4. a # e
      BY <1>3, <3>1, <3>3 DEF IsRead
    <3>5. k \in DOMAIN ready /\ ready'[k] = ready[k]
      BY <3>2, <3>3, <3>4 DEF Comes
    <3>6. QED
      BY <1>1, <1>2, <1>3, <3>5, AloneQuiet
  <2>3. QED
    BY <1>1, <2>1, <2>2
<1>4. QED
  BY <1>3 DEF AloneRead

LEMMA AloneEnd ==
  ASSUME OneThread', TypeInv, LineInv, RunInv, SoleInv, NEW x \in DOMAIN executors,
         \/ \E counted \in BOOLEAN : EndRead(x, counted) \/ EndDraw(x, counted)
         \/ EndSelect(x) \/ EndRebind(x)
  PROVE  AloneRead'
<1>1. PICK s : /\ Finished /\ Answered(s) /\ Running # None
               /\ Running.does # "read" \/ (s = Seen(Thread.doc) /\ \E counted \in BOOLEAN : EndRead(x, counted))
  BY EndReadLine, EndDrawLine, EndSelectLine, EndRebindLine DEF Finished
<1>2. alone' = alone /\ call' \in {call, Retired}
  BY DEF EndRead, EndDraw, EndSelect, EndRebind, Ended
<1>3. Stays
  BY <1>2, RetiredIs DEF Stays, Steady
<1>4. \E E : /\ Comes(E)
             /\ \A e \in E : /\ e.call = Running.call /\ e.call \in Calls /\ e.result = "ok" /\ e.seen = s
                             /\ Fit(Running, call[e.call].at)
  BY <1>1, EndComes
<1>5. PICK E : /\ Comes(E)
               /\ \A e \in E : e.call \in Calls /\ e.result = "ok" /\ e.seen = s /\ Fit(Running, call[e.call].at)
  BY <1>4
<1>6. CASE Running.does = "read"
  <2>1. PICK counted \in BOOLEAN : EndRead(x, counted)
    BY <1>1, <1>6
  <2>2. UNCHANGED <<content, edits, bound>>
    BY <2>1, EditsStay
  <2>3. s = Seen(bound) /\ bound \in Docs /\ edits[bound] = Changes(bound)
    BY <1>1, <1>6 DEF RunInv, Guarded
  <2>4. edits[bound] # None
    BY <2>3, SeatAssumption DEF TypeInv, SeatTypes, Changes, OperatorEdits, Parts
  <2>5. Stood(s, edits', content')
    BY <2>2, <2>3, <2>4 DEF Stood, Seen
  <2>6. Proper(E)
    BY <1>5, <2>2, <2>3 DEF Proper, Seen
  <2>7. QED
    BY <1>1, <1>3, <1>5, <2>5, <2>6, AloneThread
<1>7. CASE Running.does # "read"
  <2>1. \A e \in E : call[e.call].at \notin {"read", "refresh", "export"}
    BY <1>5, <1>7 DEF Fit, WorkOf
  <2>2. Proper(E)
    BY <1>5, <2>1 DEF Proper
  <2>3. QED
    BY <1>1, <1>3, <1>5, <2>1, <2>2, AloneThread
<1>8. QED
  BY <1>6, <1>7

LEMMA AloneNext ==
  ASSUME Orderly, OneThread', OneInv, SoleInv, AloneRead, [Next]_vars
  PROVE  AloneRead'
<1>0. TypeInv /\ LineInv /\ RunInv /\ CountInv
  BY DEF Orderly, OneInv
<1>1. CASE \E c \in Calls : Client(c) \/ Loop(c)
  <2>1. PICK c \in Calls : Client(c) \/ Loop(c)
    BY <1>1
  <2>2. Moves(c) /\ alone' \in {alone, c, None}
    <3>1. CASE Client(c)
      BY <1>0, <3>1, StartMoves, CancelMoves DEF Client, Begins
    <3>2. CASE Loop(c)
      BY <1>0, <3>2, NextSliceMoves, ReturnMoves, OnwardMoves, GateMoves DEF Loop, GoesOn
    <3>3. QED
      BY <2>1, <3>1, <3>2
  <2>3. QED
    BY <1>0, <2>2, AloneMoves
<1>2. CASE \E x \in DOMAIN executors : ComThread(x)
  BY <1>0, <1>2, AloneBegin, AloneEnd DEF ComThread
<1>3. CASE Operator
  <2>1. UNCHANGED <<edits, call, ready, alone>>
    BY <1>3 DEF Operator, Click, Edit, session
  <2>2. \A s : Stood(s, edits, content) => Stood(s, edits, content')
    <3>1. CASE content' = content
      BY <3>1
    <3>2. CASE content' # content
      BY <1>0, <1>3, <3>2, EditBehind DEF Stood, Behind
    <3>3. QED
      BY <3>1, <3>2
  <2>3. QED
    BY <2>1, <2>2 DEF AloneRead
<1>4. CASE Timer \/ UNCHANGED vars
  <2>1. UNCHANGED <<edits, content, ready, call, alone>>
    BY <1>0, <1>4, NoneReplaced DEF Timer, Expire, Deadline, RefreshOverruns, vars, session, seat, client
  <2>2. QED
    BY <2>1 DEF AloneRead
<1>5. QED
  BY <1>1, <1>2, <1>3, <1>4 DEF Next

-------------------------------------------------------------------------------
(* What the clients were told *)

\* An undisturbed preview says what its last read saw under its revision.
Told(p) == [doc |-> p.whole.doc, rev |-> p.rev, holds |-> p.whole.holds]
Undisturbed(p) == p # None /\ p.whole.doc # None
Given(pr, f) == {p \in {pr} \cup {f[c].given : c \in Calls} : Undisturbed(p)}
Facts(nm, pr, f) == nm \cup {Told(p) : p \in Given(pr, f)}
FactInv == \A n \in Facts(names, promised, call) : Known(n, rev, edits, content, bound, call, ready, Running, Thread.doc)

\* A check has a preview to compare with.
GivenInv == \A c \in Calls : call[c].kind = "check" => call[c].given # None
NamesInv == AloneRead /\ FactInv /\ GivenInv /\ RevisionNamesContent

\* What a call is given stays, or is what the client holds.
Gives == \A c \in Calls : call'[c].given \in {call[c].given, promised, None}
LEMMA FactsStay ==
  ASSUME names' = names, promised' = promised, Gives
  PROVE  Facts(names', promised', call') \subseteq Facts(names, promised, call)
<1>1. ASSUME NEW p \in Given(promised', call') PROVE p \in Given(promised, call)
  <2>1. Undisturbed(p) /\ p # None
    BY DEF Given, Undisturbed
  <2>2. CASE p = promised'
    BY <2>1, <2>2 DEF Given
  <2>3. CASE \E c \in Calls : p = call'[c].given
    <3>1. PICK c \in Calls : p = call'[c].given
      BY <2>3
    <3>2. p \in {call[c].given, promised}
      BY <2>1, <3>1 DEF Gives
    <3>3. QED
      BY <2>1, <3>2 DEF Given
  <2>4. QED
    BY <2>2, <2>3 DEF Given
<1>2. QED
  BY <1>1 DEF Facts

LEMMA FactsKept ==
  ASSUME StillKnown, FactInv, Facts(names', promised', call') \subseteq Facts(names, promised, call)
  PROVE  FactInv'
BY DEF FactInv, StillKnown

LEMMA FactsMore ==
  ASSUME StillKnown, FactInv, NEW m,
         Known(m, rev', edits', content', bound', call', ready', Running', Thread.doc'),
         Facts(names', promised', call') \subseteq Facts(names, promised, call) \cup {m}
  PROVE  FactInv'
BY DEF FactInv, StillKnown

LEMMA MovesGive ==
  ASSUME TypeInv, NEW c \in Calls, Moves(c), call'[c].given \in {call[c].given, promised, None}
  PROVE  Gives
BY DEF Moves, Steady, Gives

\* The first answer, of a read that had the line for itself, is a fact from now on.
LEMMA NewFact ==
  ASSUME TypeInv, TypeInv', LineInv, SoleInv, AloneRead, NEW c \in Calls, Moves(c), GoesOn(c),
         ready # <<>>, ready[1].call = c, alone = c, IsRead(1, call, ready), rev' = rev,
         NEW n, n.doc = ready[1].seen.doc, n.rev = rev[bound], n.holds = ready[1].seen.holds
  PROVE  Known(n, rev', edits', content', bound', call', ready', Running', Thread.doc')
<1>1. 1 \in DOMAIN ready
  BY TailIs DEF TypeInv, ThreadTypes
<1>2. Stood(ready[1].seen, edits, content) /\ ready[1].seen.doc = bound /\ bound \in Docs
  BY <1>1 DEF AloneRead, SoleInv, ReadInv
<1>3. Running = None /\ \A d \in Calls \ {c} : call[d].at = "idle"
  BY <1>1, AloneQuiet
<1>4. DOMAIN ready' = {}
  <2>1. SUFFICES ASSUME NEW k \in DOMAIN ready' PROVE FALSE
    OBVIOUS
  <2>2. PICK i \in DOMAIN ready : ready[i].call \in Calls \ {c}
    BY ShedFrom DEF Moves
  <2>3. call[ready[i].call].at \in Waiting
    BY DEF LineInv, Held
  <2>4. QED
    BY <1>3, <2>2, <2>3 DEF Waiting
<1>5. Running' = None /\ UNCHANGED <<content, bound, edits, rev>>
  BY <1>3 DEF GoesOn, Moves
<1>6. n.doc = bound /\ n.rev = rev[bound] /\ n.holds = ready[1].seen.holds
  BY <1>2
<1>7. rev[bound] \in Nat /\ rev[bound] <= rev[bound]
  BY <1>2 DEF TypeInv, SeatTypes
<1>8. ~Orphaned(n.doc, Running', Thread.doc')
  BY <1>5 DEF Orphaned
<1>9. edits[bound] # None /\ (content[bound] = n.holds \/ Behind(bound, edits, content))
  BY <1>2, <1>6 DEF Stood
<1>10. QED
  BY <1>2, <1>4, <1>5, <1>6, <1>7, <1>8, <1>9 DEF Known

\* What the first answer saw is what was told under the same revision.
LEMMA SawFirst ==
  ASSUME TypeInv, SoleInv, ready # <<>>, IsRead(1, call, ready), NEW n,
         Known(n, rev, edits, content, bound, call, ready, Running, Thread.doc), n.doc = bound, n.rev = rev[bound]
  PROVE  ready[1].seen.doc = bound /\ bound \in Docs /\ ready[1].seen.holds = n.holds
<1>1. 1 \in DOMAIN ready /\ DOMAIN ready = 1..Len(ready) /\ Len(ready) \in Nat
  BY TailIs, Members DEF TypeInv, ThreadTypes
<1>2. ready[1].seen.doc = bound /\ bound \in Docs
  BY <1>1 DEF SoleInv, ReadInv
<1>3. ~DrewBefore(1, call, ready)
  BY <1>1 DEF DrewBefore
<1>4. ready[1].seen.holds = n.holds \/ DrewBefore(1, call, ready)
  BY <1>1, <1>2 DEF Known
<1>5. QED
  BY <1>2, <1>3, <1>4

LEMMA LookNames ==
  ASSUME OneInv, OneInv', SoleInv, NamesInv, StillKnown, NEW c \in Calls, LookReturns(c)
  PROVE  FactInv' /\ RevisionNamesContent'
<1>0. TypeInv /\ TypeInv' /\ LineInv /\ AloneRead /\ FactInv /\ RevisionNamesContent
  BY DEF OneInv, NamesInv
<1>1. Moves(c) /\ GoesOn(c) /\ ready # <<>> /\ ready[1].call = c /\ call'[c] = Idle
  BY <1>0, ReturnMoves
<1>2. /\ rev' = rev /\ promised' = promised /\ Report = ready[1].seen /\ ready[1].result = "ok" /\ call[c].at = "read"
  <2>1. Resumes(c, "read", "ok") /\ rev' = rev /\ promised' = promised
    BY DEF LookReturns
  <2>2. Head(ready) = ready[1]
    BY <1>0, <1>1, TailIs DEF TypeInv, ThreadTypes
  <2>3. QED
    BY <2>1, <2>2 DEF Resumes, Report
<1>3. Gives
  BY <1>0, <1>1, MovesGive, Idles DEF Idle
<1>4. CASE names' = names
  <2>1. Facts(names', promised', call') \subseteq Facts(names, promised, call)
    BY <1>2, <1>3, <1>4, FactsStay
  <2>2. FactInv'
    BY <1>0, <2>1, FactsKept
  <2>3. QED
    BY <1>0, <1>4, <2>2 DEF RevisionNamesContent
<1>5. CASE names' # names
  <2>1. PICK m : m = [doc |-> ready[1].seen.doc, rev |-> rev[ready[1].seen.doc], holds |-> ready[1].seen.holds]
    OBVIOUS
  <2>2. alone = c /\ names' = names \cup {m}
    BY <1>2, <1>5, <2>1 DEF LookReturns
  <2>3. IsRead(1, call, ready)
    BY <1>1, <1>2 DEF IsRead
  <2>4. 1 \in DOMAIN ready
    BY <1>0, <1>1, TailIs DEF TypeInv, ThreadTypes
  <2>5. ready[1].seen.doc = bound /\ bound \in Docs
    BY <2>3, <2>4 DEF SoleInv, ReadInv
  <2>6. m.doc = ready[1].seen.doc /\ m.rev = rev[bound] /\ m.holds = ready[1].seen.holds
    BY <2>1, <2>5
  <2>7. Known(m, rev', edits', content', bound', call', ready', Running', Thread.doc')
    BY <1>0, <1>1, <1>2, <2>2, <2>3, <2>6, NewFact
  <2>8. Facts(names', promised', call') \subseteq Facts(names, promised, call) \cup {m}
    <3>1. Given(promised', call') \subseteq Given(promised, call)
      <4>1. ASSUME NEW p \in Given(promised', call') PROVE p \in Given(promised, call)
        <5>1. Undisturbed(p) /\ p # None
          BY DEF Given, Undisturbed
        <5>2. p = promised \/ \E d \in Calls : p = call[d].given
          BY <1>2, <1>3, <5>1 DEF Given, Gives
        <5>3. QED
          BY <5>1, <5>2 DEF Given
      <4>2. QED
        BY <4>1
    <3>2. QED
      BY <2>2, <3>1 DEF Facts
  <2>9. FactInv'
    BY <1>0, <2>7, <2>8, FactsMore
  <2>10. ASSUME NEW n \in names, n.doc = m.doc, n.rev = m.rev PROVE n.holds = m.holds
    <3>1. Known(n, rev, edits, content, bound, call, ready, Running, Thread.doc)
      BY <1>0 DEF FactInv, Facts
    <3>2. m.doc = bound /\ m.rev = rev[bound] /\ m.holds = ready[1].seen.holds
      BY <2>5, <2>6
    <3>3. ready[1].seen.holds = n.holds
      BY <1>0, <1>1, <2>3, <2>10, <3>1, <3>2, SawFirst
    <3>4. QED
      BY <3>2, <3>3
  <2>11. RevisionNamesContent'
    BY <1>0, <2>2, <2>10 DEF RevisionNamesContent
  <2>12. QED
    BY <2>9, <2>11
<1>6. QED
  BY <1>4, <1>5

LEMMA PreviewTold ==
  ASSUME OneInv, OneInv', SoleInv, NamesInv, StillKnown, NEW c \in Calls, IdentityReturns(c)
  PROVE  FactInv'
<1>0. TypeInv /\ TypeInv' /\ LineInv /\ AloneRead /\ FactInv
  BY DEF OneInv, NamesInv
<1>1. Moves(c) /\ GoesOn(c) /\ ready # <<>> /\ ready[1].call = c /\ call'[c] = Idle
  BY <1>0, ReturnMoves
<1>2. IdentityRead(c, Report) /\ rev' = rev /\ names' = names
  BY DEF IdentityReturns, IdentityRead
<1>3. Gives
  BY <1>0, <1>1, MovesGive, Idles DEF Idle
<1>4. CASE promised' = promised
  <2>1. Facts(names', promised', call') \subseteq Facts(names, promised, call)
    BY <1>2, <1>3, <1>4, FactsStay
  <2>2. QED
    BY <1>0, <2>1, FactsKept
<1>5. CASE promised' # promised
  <2>1. /\ promised' = [prints |-> Fingerprints(call[c].seen), rev |-> Revision,
                        whole |-> IF alone = c THEN Report ELSE Unseen]
        /\ Head(ready) = ready[1] /\ ready[1] \in Entries /\ 1 \in DOMAIN ready
    BY <1>0, <1>1, <1>2, <1>5, TailIs DEF IdentityRead, TypeInv, ThreadTypes
  <2>2. promised'.whole = (IF alone = c THEN ready[1].seen ELSE Unseen) /\ promised'.rev = Revision
    BY <2>1 DEF Report
  <2>3. \A p \in Given(promised', call') : p = promised' \/ p \in Given(promised, call)
    <3>1. ASSUME NEW p \in Given(promised', call'), p # promised' PROVE p \in Given(promised, call)
      <4>1. Undisturbed(p) /\ p # None
        BY DEF Given, Undisturbed
      <4>2. p = promised \/ \E d \in Calls : p = call[d].given
        BY <1>3, <3>1, <4>1 DEF Given, Gives
      <4>3. QED
        BY <4>1, <4>2 DEF Given
    <3>2. QED
      BY <3>1
  <2>4. CASE ~Undisturbed(promised')
    <3>1. Facts(names', promised', call') \subseteq Facts(names, promised, call)
      <4>1. \A p \in Given(promised', call') : p # promised'
        BY <2>4 DEF Given
      <4>2. QED
        BY <1>2, <2>3, <4>1 DEF Facts
    <3>2. QED
      BY <1>0, <3>1, FactsKept
  <2>5. CASE Undisturbed(promised')
    <3>1. promised'.whole.doc # None /\ Unseen.doc = None
      BY <2>5 DEF Undisturbed, Unseen
    <3>2. alone = c /\ promised'.whole = ready[1].seen /\ ready[1].seen # Unseen
      BY <2>2, <3>1
    <3>3. ready[1].result = "ok"
      BY <2>1, <3>2 DEF Entries
    <3>4. IsRead(1, call, ready)
      <4>1. call[c].at = "refresh"
        BY DEF IdentityReturns, Resumes
      <4>2. QED
        BY <1>1, <3>3, <4>1 DEF IsRead
    <3>5. ready[1].seen.doc = bound /\ bound \in Docs
      BY <2>1, <3>4 DEF SoleInv, ReadInv
    <3>6. Revision = rev[bound]
      BY <3>5, NoneIs DEF Revision
    <3>7. PICK m : m = Told(promised')
      OBVIOUS
    <3>8. m.doc = ready[1].seen.doc /\ m.rev = rev[bound] /\ m.holds = ready[1].seen.holds
      BY <2>2, <3>2, <3>6, <3>7 DEF Told
    <3>9. Known(m, rev', edits', content', bound', call', ready', Running', Thread.doc')
      BY <1>0, <1>1, <1>2, <3>2, <3>4, <3>8, NewFact
    <3>10. Facts(names', promised', call') \subseteq Facts(names, promised, call) \cup {m}
      BY <1>2, <2>3, <3>7 DEF Facts
    <3>11. QED
      BY <1>0, <3>9, <3>10, FactsMore
  <2>6. QED
    BY <2>4, <2>5
<1>6. QED
  BY <1>4, <1>5

\* Of every other step the clients learn nothing more.
LEMMA OthersGive ==
  ASSUME Orderly, OneThread', OneInv, [Next]_vars, \A c \in Calls : ~LookReturns(c) /\ ~IdentityReturns(c)
  PROVE  names' = names /\ promised' = promised /\ Gives
<1>0. TypeInv /\ LineInv /\ Idle.given = None
  BY DEF Orderly, OneInv, Idle
<1>1. CASE \E c \in Calls : Client(c) \/ Loop(c)
  <2>1. PICK c \in Calls : Client(c) \/ Loop(c)
    BY <1>1
  <2>2. names' = names /\ promised' = promised
    BY <2>1 DEF Client, StartWrite, StartChoose, StartRead, Start, Cancel, Loop, NextSlice, WriteReturns, RefusalReturns,
       Rebind, ChooseReturns, Refresh, Detail, Reuse, Export, Parse, Parsed
  <2>3. Moves(c) /\ call'[c].given \in {call[c].given, promised, None}
    <3>1. CASE Client(c)
      BY <1>0, <3>1, StartMoves, CancelMoves DEF Client, Begins
    <3>2. CASE Loop(c)
      BY <1>0, <3>2, NextSliceMoves, ReturnMoves, OnwardMoves, GateMoves DEF Loop, GoesOn
    <3>3. QED
      BY <2>1, <3>1, <3>2
  <2>4. QED
    BY <1>0, <2>2, <2>3, MovesGive
<1>2. CASE \E x \in DOMAIN executors : ComThread(x)
  <2>1. names' = names /\ promised' = promised /\ call' \in {call, Retired}
    BY <1>2 DEF ComThread, BeginUnguarded, Refuse, Guard, EndRead, EndDraw, EndSelect, EndRebind, Ended
  <2>2. QED
    BY <1>0, <2>1, RetiredIs DEF Gives
<1>3. CASE Timer \/ Operator \/ UNCHANGED vars
  BY <1>0, <1>3, NoneReplaced DEF Timer, Operator, Expire, Deadline, RefreshOverruns, Click, Edit, vars, client, Gives
<1>4. QED
  BY <1>1, <1>2, <1>3 DEF Next

LEMMA GivenNext ==
  ASSUME Orderly, OneThread', OneInv, GivenInv, [Next]_vars
  PROVE  GivenInv'
<1>0. TypeInv /\ LineInv /\ Idle.kind = "none"
  BY DEF Orderly, OneInv, Idle
<1>1. CASE \E c \in Calls : Client(c) \/ Loop(c)
  <2>1. PICK c \in Calls : Client(c) \/ Loop(c)
    BY <1>1
  <2>2. Moves(c) /\ (call'[c].kind = "check" => call'[c].given # None)
    <3>1. CASE \E kind \in Kinds : StartRead(c, kind)
      <4>1. PICK kind \in Kinds : StartRead(c, kind)
        BY <3>1
      <4>2. /\ kind = "check" => promised # None
            /\ call'[c] = Rec(kind, "read", None, 0, 0, FALSE, FALSE, Unseen, IF kind = "check" THEN promised ELSE None)
        BY <1>0, <4>1, StartReadLine DEF StartRead
      <4>3. call'[c].kind = kind /\ call'[c].given = IF kind = "check" THEN promised ELSE None
        BY <4>2 DEF Rec
      <4>4. QED
        BY <1>0, <3>1, <4>2, <4>3, StartMoves
    <3>2. CASE \E jobs \in 1..Slices : StartWrite(c, jobs)
      <4>1. PICK jobs \in 1..Slices : StartWrite(c, jobs)
        BY <3>2
      <4>2. call'[c] = Rec("write", "draw", None, jobs, jobs, FALSE, FALSE, Unseen, None)
        BY <1>0, <4>1, StartWriteLine
      <4>3. call'[c].kind = "write"
        BY <4>2 DEF Rec
      <4>4. QED
        BY <1>0, <3>2, <4>3, StartMoves
    <3>3. CASE \E d \in Docs : StartChoose(c, d)
      <4>1. PICK d \in Docs : StartChoose(c, d)
        BY <3>3
      <4>2. call'[c] = Rec("choose", "select", d, 0, 0, FALSE, FALSE, Unseen, None)
        BY <1>0, <4>1, StartChooseLine
      <4>3. call'[c].kind = "choose"
        BY <4>2 DEF Rec
      <4>4. QED
        BY <1>0, <3>3, <4>3, StartMoves
    <3>4. CASE Cancel(c)
      BY <1>0, <3>4, CancelMoves
    <3>5. CASE Loop(c)
      <4>1. Moves(c) /\ GoesOn(c)
        BY <1>0, <3>5, NextSliceMoves, ReturnMoves, OnwardMoves, GateMoves DEF Loop
      <4>2. QED
        BY <1>0, <4>1 DEF GoesOn, GivenInv
    <3>6. QED
      BY <2>1, <3>1, <3>2, <3>3, <3>4, <3>5 DEF Client
  <2>3. QED
    BY <2>2 DEF GivenInv, Moves, Steady
<1>2. CASE \E x \in DOMAIN executors : ComThread(x)
  <2>1. call' \in {call, Retired}
    BY <1>2 DEF ComThread, BeginUnguarded, Refuse, Guard, EndRead, EndDraw, EndSelect, EndRebind, Ended
  <2>2. QED
    BY <1>0, <2>1, RetiredIs DEF GivenInv
<1>3. CASE Timer \/ Operator \/ UNCHANGED vars
  BY <1>0, <1>3, NoneReplaced DEF Timer, Operator, Expire, Deadline, RefreshOverruns, Click, Edit, vars, GivenInv
<1>4. QED
  BY <1>1, <1>2, <1>3 DEF Next

LEMMA NamesNext ==
  ASSUME Orderly, OneThread', OneInv, OneInv', SoleInv, NamesInv, [Next]_vars
  PROVE  NamesInv'
<1>1. AloneRead' /\ StillKnown /\ GivenInv'
  BY AloneNext, KnownNext, GivenNext DEF NamesInv
<1>2. FactInv' /\ RevisionNamesContent'
  <2>1. CASE \E c \in Calls : LookReturns(c)
    BY <1>1, <2>1, LookNames
  <2>2. CASE \E c \in Calls : IdentityReturns(c)
    BY <1>1, <2>2, PreviewTold DEF NamesInv, RevisionNamesContent, IdentityReturns, IdentityRead
  <2>3. CASE \A c \in Calls : ~LookReturns(c) /\ ~IdentityReturns(c)
    <3>1. names' = names /\ promised' = promised /\ Gives
      BY <2>3, OthersGive
    <3>2. Facts(names', promised', call') \subseteq Facts(names, promised, call)
      BY <3>1, FactsStay
    <3>3. QED
      BY <1>1, <3>1, <3>2, FactsKept DEF NamesInv, RevisionNamesContent
  <2>4. QED
    BY <2>1, <2>2, <2>3
<1>3. QED
  BY <1>1, <1>2 DEF NamesInv

LEMMA NamesInit ==
  ASSUME Init
  PROVE  NamesInv
<1>1. ready = <<>> /\ names = {} /\ promised = None /\ call = [c \in Calls |-> Idle] /\ DOMAIN <<>> = {}
  BY DEF Init
<1>2. \A c \in Calls : call[c].given = None /\ call[c].kind = "none"
  BY <1>1 DEF Idle
<1>3. Given(promised, call) = {}
  BY <1>1, <1>2 DEF Given, Undisturbed
<1>4. Facts(names, promised, call) = {}
  BY <1>1, <1>3 DEF Facts
<1>5. QED
  BY <1>1, <1>2, <1>4 DEF NamesInv, AloneRead, FactInv, GivenInv, RevisionNamesContent

LEMMA NamesAlways ==
  ASSUME Orderly
  PROVE  Spec => [](OneThread => OneInv /\ SoleInv /\ NamesInv)
<1>1. Init => SoleInv /\ NamesInv
  BY SoleInit, NamesInit
<1>2. TypeInv /\ TypeInv' /\ (OneThread => OneInv) /\ (OneThread' => OneInv')
      /\ (OneThread => OneInv /\ SoleInv /\ NamesInv) /\ [Next]_vars
      => (OneThread' => OneInv' /\ SoleInv' /\ NamesInv')
  <2>1. SUFFICES ASSUME TypeInv, TypeInv', OneThread => OneInv /\ SoleInv /\ NamesInv, [Next]_vars,
                        OneThread', OneInv'
                 PROVE  SoleInv' /\ NamesInv'
    OBVIOUS
  <2>2. OneInv /\ SoleInv /\ NamesInv
    BY <2>1, ThreadsGrow
  <2>3. QED
    BY <2>1, <2>2, SoleNext, NamesNext DEF OneInv
<1>3. QED
  BY <1>1, <1>2, TypeAlways, OneAlways, PTL DEF Spec

\* With the calls that choose a document and the bulk writes alone, and until a
\* deadline replaces the COM thread, a client that reads undisturbed reads one content
\* under one revision, whatever else the calls and the operator do, and whoever is
\* cancelled (_mutating, _edit_counter_start and _end).
THEOREM RevisionNamesContentHolds ==
  ASSUME Orderly
  PROVE  Spec => [](OneThread => RevisionNamesContent)
<1>1. (OneThread => OneInv /\ SoleInv /\ NamesInv) => (OneThread => RevisionNamesContent)
  BY DEF NamesInv
<1>2. QED
  BY <1>1, NamesAlways, PTL

\* Under the same conditions, a check that finds the fingerprints and the revision of
\* an undisturbed preview has the content that preview had (check_preconditions).
THEOREM PassedCheckHoldsHolds ==
  ASSUME Orderly
  PROVE  Spec => [](OneThread => PassedCheckHolds)
<1>1. Init => PassedCheckHolds
  BY DEF Init, PassedCheckHolds, Unchanged
<1>2. TypeInv /\ TypeInv' /\ (OneThread => OneInv /\ SoleInv /\ NamesInv)
      /\ (OneThread => PassedCheckHolds) /\ [Next]_vars
      => (OneThread' => PassedCheckHolds')
  <2>1. SUFFICES ASSUME TypeInv, TypeInv', OneThread => OneInv /\ SoleInv /\ NamesInv, OneThread => PassedCheckHolds,
                        [Next]_vars, OneThread', answer' # None, answer'.told = "unchanged", Unseen \notin {answer'.was, answer'.is},
                        answer'.of = answer'.was.doc, answer'.is.doc = answer'.was.doc
                 PROVE  answer'.is = answer'.was
    BY DEF PassedCheckHolds, Unchanged, Unseen
  <2>2. OneThread /\ TypeInv /\ LineInv /\ OneInv /\ SoleInv /\ NamesInv
    BY <2>1, ThreadsGrow DEF OneInv
  <2>3. CASE \E c \in Calls : IdentityReturns(c)
    <3>1. PICK c \in Calls : IdentityReturns(c)
      BY <2>3
    <3>2. /\ call[c].kind = "check" /\ Holds(c) /\ call[c].at = "refresh"
          /\ answer' = [told |-> "unchanged", of |-> bound, was |-> call[c].given.whole, is |-> Report]
      BY <2>1, <3>1 DEF IdentityReturns, IdentityRead, Resumes
    <3>3. answer'.of = bound /\ answer'.was = call[c].given.whole /\ answer'.is = Report
      BY <3>2
    <3>4. /\ ready # <<>> /\ ready[1].call = c /\ Report = ready[1].seen /\ ready[1] \in Entries /\ 1 \in DOMAIN ready
      <4>1. ready # <<>> /\ ready[1].call = c
        BY <2>2, <3>1, ReturnMoves
      <4>2. QED
        BY <2>2, <4>1, TailIs DEF TypeInv, ThreadTypes, Report
    <3>5. IsRead(1, call, ready)
      BY <2>1, <3>2, <3>3, <3>4 DEF IsRead, Entries
    <3>6. ready[1].seen.doc = bound /\ bound \in Docs
      BY <2>2, <3>4, <3>5 DEF SoleInv, ReadInv
    <3>7. PICK p : p = call[c].given
      OBVIOUS
    <3>8. p # None /\ p.whole.doc = bound /\ p.rev = rev[bound] /\ p \in Promises
      <4>1. p # None
        BY <2>2, <3>2, <3>7 DEF NamesInv, GivenInv
      <4>2. p \in Promises
        BY <2>2, <3>7, <4>1, CallIs
      <4>3. Revision = rev[bound]
        BY <3>6, NoneIs DEF Revision
      <4>4. QED
        BY <2>1, <3>2, <3>3, <3>7, <4>1, <4>2, <4>3 DEF Holds
    <3>9. PICK n : n = Told(p)
      OBVIOUS
    <3>10. n \in Facts(names, promised, call)
      <4>1. p \in Given(promised, call)
        BY <3>6, <3>7, <3>8, NoneIs DEF Given, Undisturbed
      <4>2. QED
        BY <3>9, <4>1 DEF Facts
    <3>11. Known(n, rev, edits, content, bound, call, ready, Running, Thread.doc)
      BY <2>2, <3>10 DEF NamesInv, FactInv
    <3>12. n.doc = bound /\ n.rev = rev[bound] /\ n.holds = p.whole.holds
      BY <3>8, <3>9 DEF Told
    <3>13. ready[1].seen.holds = p.whole.holds
      BY <2>1, <2>2, <3>4, <3>5, <3>11, <3>12, SawFirst
    <3>14. ready[1].seen \in Seens /\ p.whole \in Seens /\ ready[1].seen.doc = p.whole.doc
      BY <3>4, <3>6, <3>8 DEF Entries, Promises
    <3>15. ready[1].seen = p.whole
      BY <3>13, <3>14 DEF Seens
    <3>16. QED
      BY <3>3, <3>4, <3>7, <3>15
  <2>4. CASE UNCHANGED vars
    BY <2>1, <2>2, <2>4 DEF vars, client, PassedCheckHolds, Unchanged, Unseen
  <2>5. CASE ~(\E c \in Calls : IdentityReturns(c)) /\ Next
    <3>1. CASE \E c \in Calls : Client(c)
      BY <2>1, <3>1 DEF Client, StartWrite, StartChoose, StartRead, Start, Cancel
    <3>2. CASE \E c \in Calls : Loop(c)
      BY <2>1, <2>5, <3>2 DEF Loop, NextSlice, WriteReturns, RefusalReturns, Rebind, ChooseReturns, LookReturns,
         Refresh, Detail, Reuse, Export, Parse, Parsed
    <3>3. CASE \E x \in DOMAIN executors : ComThread(x)
      BY <2>1, <3>3 DEF ComThread, BeginUnguarded, Refuse, Guard, EndRead, EndDraw, EndSelect, EndRebind, Ended
    <3>4. CASE Timer \/ Operator
      BY <2>1, <2>2, <3>4, NoneReplaced DEF Timer, Operator, Expire, Deadline, RefreshOverruns, Click, Edit
    <3>5. QED
      BY <2>5, <3>1, <3>2, <3>3, <3>4 DEF Next
  <2>6. QED
    BY <2>1, <2>3, <2>4, <2>5
<1>3. QED
  BY <1>1, <1>2, TypeAlways, NamesAlways, PTL DEF Spec

===============================================================================
