--------------------------- MODULE Chat2SyncProofs ---------------------------
(***************************************************************************)
(* Theorems about Chat2Sync, for every set of operations, every choice of   *)
(* rejected and oversized ones, every row limit and every budget of drops,  *)
(* restarts, wipes and quota refusals.  They assume EarlyRows = FALSE: the   *)
(* room relays live rows to a socket only once it served its backfill.      *)
(*                                                                          *)
(* SyncInv is the inductive invariant.  Its core is Cover and Flow: every   *)
(* cursor the client, the disk, a pending checkpoint or a rows request      *)
(* carries is a prefix of the log that the document beside it holds, and    *)
(* whatever the document lacks is in the frames on the way to it, in an     *)
(* order in which no row or ack is read before the rows below it.           *)
(* LeftInv, on top of it, follows the other direction: every operation of   *)
(* the document is in the room, queued, buffered, being posted or given up, *)
(* or an event or a bootstrap check is due that posts the whole document.   *)
(***************************************************************************)
EXTENDS Chat2Sync, Integers, FiniteSetTheorems, SequenceTheorems, TLAPS

-----------------------------------------------------------------------------
(* The invariant.                                                           *)

Ops     == MyOps \cup PeerOps
Post    == [there : BOOLEAN, seq : Nat, ops : SUBSET Ops, era : Nat]
Batch   == [id : Nat, ops : SUBSET Ops]
Row     == [ops : SUBSET Ops, own : BOOLEAN, id : Nat]
Room    == [rows : Seq(Row), floor : Nat, ckpt : Post]
UpFrame == [t : {"hello"}] \cup [t : {"rows_req"}, after : Nat, excludeOwn : BOOLEAN]
           \cup [t : {"push"}, id : Nat, ops : SUBSET Ops]
DownFrame == [t : {"presence"}] \cup [t : {"done"}]
             \cup [t : {"state"}, head : Nat, ckpt : Post, rowCount : Int]
             \cup [t : {"row"}, seq : Nat, ops : SUBSET Ops]
             \cup [t : {"ack"}, id : Nat, seq : Nat]
             \cup [t : {"error"}, quota : BOOLEAN, id : Nat]

\* The types, frames included.
Shape ==
    /\ doc \in SUBSET Ops
    /\ saved \in [doc : SUBSET Ops, cursor : Nat, era : Nat]
    /\ buffer \in Seq(SUBSET Ops)
    /\ cursor \in Nat /\ wanted \in Nat /\ minted \in Nat
    /\ opened \in [cursor : Nat, era : Nat]
    /\ pending \in Seq(Batch)
    /\ slot \in BOOLEAN /\ joined \in BOOLEAN /\ resumed \in BOOLEAN /\ boot \in BOOLEAN
    /\ phase \in {"down", "hello", "fetch", "backfill", "open"}
    /\ posting \in Post
    /\ up \in Seq(UpFrame) /\ down \in Seq(DownFrame) /\ relayed \in BOOLEAN
    /\ room \in Room
    /\ era \in Nat /\ wipes \in Nat /\ fooled \in BOOLEAN

\* What can be on the wire in each phase of the actor: one frame up and its answer
\* until the backfill, then rows, acks and errors in the order the room sent them.
Link ==
    /\ phase = "down" => up = <<>> /\ down = <<>>
    /\ phase = "hello" =>
         \/ up = <<[t |-> "hello"]>> /\ down = <<>>
         \/ /\ up = <<>>
            /\ \A k \in 1..Len(down) :
                 down[k].t = IF k = Len(down) THEN "state" ELSE "presence"
    /\ phase = "fetch" => up = <<>> /\ down = <<>>
    /\ phase = "backfill" =>
         \/ ~relayed /\ Len(up) = 1 /\ up[1].t = "rows_req" /\ down = <<>>
         \/ /\ relayed /\ up = <<>>
            /\ \A k \in 1..Len(down) : down[k].t \in {"row", "done"}
            /\ \A j, k \in 1..Len(down) : down[j].t = "done" /\ down[k].t = "done" => j = k
    /\ phase = "open" =>
         /\ relayed
         /\ \A k \in 1..Len(up) : up[k].t = "push"
         /\ \A k \in 1..Len(down) : down[k].t \in {"row", "ack", "error"}
    /\ phase \in {"down", "hello", "fetch"} => ~relayed

\* The client's life: installed only after the first join, resumed since; nothing is
\* queued or posted without an installed client; a session past its state frame
\* counts rows of the room as it is now.
Life ==
    /\ joined <=> resumed
    /\ slot => joined
    /\ phase = "open" => joined
    /\ posting.there \/ boot \/ pending # <<>> => slot
    /\ era <= wipes /\ saved.era <= wipes /\ opened.era <= wipes /\ posting.era <= wipes
    /\ phase \in {"backfill", "open"} => era = wipes

\* What is saved, queued or being pushed is in the document.
Owned ==
    /\ saved.doc \subseteq doc
    /\ \A i \in 1..Len(pending) : pending[i].ops \subseteq doc
    /\ \A i \in 1..Len(buffer) : buffer[i] \subseteq doc
    /\ \A i \in 1..Len(up) : up[i].t = "push" => up[i].ops \subseteq doc

\* The checkpoint covers the pruned rows and is contained in the document of a client
\* that planned its catch-up, in the checkpoint being posted, and in what a state frame
\* still to be read promises.
Ckpt ==
    /\ room.floor <= Len(room.rows)
    /\ room.ckpt.seq = room.floor
    /\ ~room.ckpt.there => room.floor = 0 /\ room.ckpt.ops = {}
    /\ phase \in {"backfill", "open"} \/ joined => room.ckpt.ops \subseteq doc
    /\ posting.there => room.ckpt.ops \subseteq posting.ops /\ posting.ops \subseteq doc
    /\ phase = "fetch" => wanted <= room.floor
    /\ \A k \in 1..Len(down) : down[k].t = "state" =>
         /\ room.ckpt.ops \subseteq doc \cup down[k].ckpt.ops
         /\ down[k].ckpt.seq <= room.floor
         /\ down[k].head <= Len(room.rows)
         /\ ~down[k].ckpt.there => down[k].ckpt.ops = {}

\* D holds the first n rows.
Covers(D, rows, n) == n <= Len(rows) /\ \A i \in 1..n : rows[i].ops \subseteq D

\* Every cursor of this incarnation of the room is a prefix its document holds.
Cover ==
    /\ Covers(room.ckpt.ops, room.rows, room.floor)
    /\ era = wipes => Covers(doc, room.rows, cursor)
    /\ opened.era = wipes => Covers(doc, room.rows, opened.cursor)
    /\ saved.era = wipes => Covers(saved.doc, room.rows, saved.cursor)
    /\ posting.there /\ posting.era = wipes => Covers(posting.ops, room.rows, posting.seq)
    /\ \A k \in 1..Len(down) : down[k].t = "state" =>
         Covers(down[k].ckpt.ops, room.rows, down[k].ckpt.seq)
    /\ \A k \in 1..Len(up) : up[k].t = "rows_req" =>
         Covers(doc, room.rows, up[k].after) /\ (up[k].excludeOwn => resumed)

\* The document after the first k frames, and one that holds all rows of this device.
Seen(d, s, k) == d \cup UNION {s[j].ops : j \in {j \in 1..k : s[j].t = "row"}}
OwnIn(D, rows) == \A i \in 1..Len(rows) : rows[i].own => rows[i].ops \subseteq D

\* What the document lacks is under way, in order: all rows once the socket is live,
\* the rows up to the sequence number of a row or an ack when that frame is read, and
\* this device's own rows when the backfill is done (later ones leave them out).
Flow ==
    /\ resumed => OwnIn(doc, room.rows)
    /\ relayed => Covers(Seen(doc, down, Len(down)), room.rows, Len(room.rows))
    /\ \A k \in 1..Len(down) :
         /\ down[k].t \in {"row", "ack"} => Covers(Seen(doc, down, k), room.rows, down[k].seq)
         /\ down[k].t = "done" => OwnIn(Seen(doc, down, k), room.rows)

\* Unless a cursor of a wiped room passed for one of its successor.
Sound == ~fooled => Cover /\ Flow

SyncInv == Shape /\ Link /\ Life /\ Owned /\ Ckpt /\ Sound

\* Batch ids are handed out in order.
Ids == \A i \in 1..Len(pending) : pending[i].id \in 1..minted

-----------------------------------------------------------------------------
(* The operators of the model and of the invariant.                         *)

\* Nth enumerates a set of numbers, in order.
LEMMA NthFacts ==
    ASSUME NEW n \in Nat, NEW S \in SUBSET (1..n)
    PROVE  /\ Cardinality(S) \in Nat
           /\ \A k \in 1..Cardinality(S) : Nth(S, k) \in S
           /\ \A i \in S : \E k \in 1..Cardinality(S) : Nth(S, k) = i
           /\ \A k \in 1..Cardinality(S) : \A i \in S :
                i <= Nth(S, k) => \E j \in 1..k : Nth(S, j) = i
<1> DEFINE T(i)  == {j \in S : j <= i}
           N     == Cardinality(S)
           rank  == [i \in S |-> Cardinality(T(i))]
<1>0. \A i \in S : i \in Nat
  OBVIOUS
<1>1. IsFiniteSet(S) /\ N \in Nat
  <2>1. IsFiniteSet(1..n)
    BY FS_Interval
  <2> QED BY <2>1, FS_Subset, FS_CardinalityType
<1>2. ASSUME NEW i \in S PROVE /\ IsFiniteSet(T(i)) /\ Cardinality(T(i)) \in 1..N
  <2>1. T(i) \in SUBSET S /\ i \in T(i)
    OBVIOUS
  <2>2. IsFiniteSet(T(i)) /\ Cardinality(T(i)) <= N /\ Cardinality(T(i)) \in Nat
    BY <1>1, <2>1, FS_Subset, FS_CardinalityType
  <2>3. Cardinality(T(i)) # 0
    BY <2>1, <2>2, FS_EmptySet
  <2> QED BY <1>1, <2>2, <2>3
<1>3. ASSUME NEW i \in S, NEW j \in S, i < j PROVE Cardinality(T(i)) < Cardinality(T(j))
  <2>0. /\ \A m \in S : m <= i => m <= j
        /\ ~(j <= i) /\ j <= j
    BY <1>0, <1>3
  <2>1. T(i) \in SUBSET T(j) /\ j \in T(j) /\ j \notin T(i)
    BY <2>0
  <2>2. Cardinality(T(i)) <= Cardinality(T(j)) /\ Cardinality(T(i)) # Cardinality(T(j))
    <3>1. IsFiniteSet(T(j)) /\ T(i) # T(j)
      BY <1>2, <2>1
    <3> HIDE DEF T
    <3> QED BY <2>1, <3>1, FS_Subset
  <2> QED BY <1>2, <2>2
<1>4. \A i, j \in S : rank[i] = rank[j] => i = j
  <2> SUFFICES ASSUME NEW i \in S, NEW j \in S, rank[i] = rank[j], i # j PROVE FALSE
    OBVIOUS
  <2>1. i < j \/ j < i
    OBVIOUS
  <2>2. Cardinality(T(i)) = Cardinality(T(j)) /\ Cardinality(T(i)) \in Nat
    BY <1>2
  <2> HIDE DEF T
  <2> QED BY <1>3, <2>1, <2>2
<1>5. rank \in Surjection(S, 1..N)
  <2>1. rank \in [S -> 1..N]
    BY <1>2
  <2> HIDE DEF rank
  <2>2. rank \in Injection(S, 1..N)
    BY <1>4, <2>1 DEF Injection, IsInjective
  <2>3. IsFiniteSet(1..N) /\ Cardinality(1..N) = N
    BY <1>1, FS_Interval
  <2> QED BY <2>2, <2>3, FS_Injection
<1>6. ASSUME NEW k \in 1..N PROVE Nth(S, k) \in S /\ rank[Nth(S, k)] = k
  <2>1. \E i \in S : rank[i] = k
    BY <1>5 DEF Surjection
  <2> QED BY <2>1 DEF Nth
<1>7. ASSUME NEW i \in S PROVE Nth(S, rank[i]) = i /\ rank[i] \in 1..N
  <2>1. rank[i] \in 1..N
    BY <1>2
  <2> QED BY <1>4, <1>6, <2>1
<1>8. ASSUME NEW k \in 1..N, NEW i \in S, i <= Nth(S, k) PROVE \E j \in 1..k : Nth(S, j) = i
  <2>0. Nth(S, k) \in S /\ rank[Nth(S, k)] = k
    BY <1>6
  <2>1. Nth(S, k) \in S /\ rank[Nth(S, k)] = k /\ Nth(S, k) \in Nat /\ i \in Nat
    BY <1>0, <2>0
  <2>2. rank[i] \in 1..N /\ Nth(S, rank[i]) = i
    BY <1>7
  <2>3. rank[i] <= k
    <3>1. CASE i = Nth(S, k)
      BY <3>1, <2>1, <2>2, <1>1
    <3>2. CASE i < Nth(S, k)
      <4>1. Cardinality(T(i)) < Cardinality(T(Nth(S, k)))
        BY <1>3, <2>1, <3>2
      <4>2. rank[i] = Cardinality(T(i)) /\ rank[Nth(S, k)] = Cardinality(T(Nth(S, k)))
        BY <2>1
      <4> HIDE DEF rank, T
      <4> QED BY <4>1, <4>2, <2>1, <2>2, <1>1
    <3> QED BY <1>8, <2>1, <3>1, <3>2
  <2> QED BY <2>2, <2>3, <1>1
<1> HIDE DEF rank, T
<1> QED BY <1>1, <1>6, <1>7, <1>8

\* Picked keeps exactly the members at the chosen indices.
LEMMA PickedFacts ==
    ASSUME NEW T, NEW s \in Seq(T), NEW S \in SUBSET DOMAIN s
    PROVE  /\ Picked(s, S) \in Seq(T)
           /\ Len(Picked(s, S)) = Cardinality(S)
           /\ \A k \in 1..Len(Picked(s, S)) : \E i \in S : Picked(s, S)[k] = s[i]
           /\ \A i \in S : \E k \in 1..Len(Picked(s, S)) : Picked(s, S)[k] = s[i]
<1>1. DOMAIN s = 1..Len(s) /\ Len(s) \in Nat /\ \A i \in DOMAIN s : s[i] \in T
  OBVIOUS
<1>2. /\ Cardinality(S) \in Nat
      /\ \A k \in 1..Cardinality(S) : Nth(S, k) \in S
      /\ \A i \in S : \E k \in 1..Cardinality(S) : Nth(S, k) = i
  <2>1. S \in SUBSET (1..Len(s)) /\ Len(s) \in Nat
    BY <1>1
  <2> HIDE <1>1
  <2> QED BY ONLY <2>1, NthFacts
<1>3. \A k \in 1..Cardinality(S) : s[Nth(S, k)] \in T
  BY <1>1, <1>2
<1>4. Picked(s, S) \in Seq(T) /\ Len(Picked(s, S)) = Cardinality(S)
  BY <1>2, <1>3, SeqDef DEF Picked
<1>5. \A k \in 1..Cardinality(S) : Picked(s, S)[k] = s[Nth(S, k)]
  BY DEF Picked
<1> QED BY <1>2, <1>4, <1>5

\* A prefix stays held when the document or the log grows, and may be shortened.
LEMMA CoversFacts ==
    ASSUME NEW rows \in Seq(Row), NEW D, NEW n \in Nat, Covers(D, rows, n)
    PROVE  /\ \A E : D \subseteq E => Covers(E, rows, n)
           /\ \A m \in Nat : m <= n => Covers(D, rows, m)
           /\ \A r \in Row : Covers(D, Append(rows, r), n)
           /\ \A r \in Row : n = Len(rows) /\ r.ops \subseteq D
                => Covers(D, Append(rows, r), n + 1)
<1>1. \A E : D \subseteq E => Covers(E, rows, n)
  BY DEF Covers
<1>2. \A m \in Nat : m <= n => Covers(D, rows, m)
  BY DEF Covers
<1>3. ASSUME NEW r \in Row
      PROVE  /\ Append(rows, r) \in Seq(Row) /\ Len(Append(rows, r)) = Len(rows) + 1
             /\ \A i \in 1..Len(rows) : Append(rows, r)[i] = rows[i]
             /\ Append(rows, r)[Len(rows) + 1] = r
  OBVIOUS
<1>4. ASSUME NEW r \in Row PROVE Covers(D, Append(rows, r), n)
  BY <1>3 DEF Covers
<1>5. ASSUME NEW r \in Row, n = Len(rows), r.ops \subseteq D
      PROVE  Covers(D, Append(rows, r), n + 1)
  <2>1. n + 1 <= Len(Append(rows, r))
    BY <1>3, <1>5
  <2>2. ASSUME NEW i \in 1..(n + 1) PROVE Append(rows, r)[i].ops \subseteq D
    <3>1. CASE i = n + 1
      BY <1>3, <1>5, <3>1
    <3>2. CASE i # n + 1
      BY <1>3, <1>5, <3>2 DEF Covers
    <3> QED BY <3>1, <3>2
  <2> QED BY <2>1, <2>2 DEF Covers
<1> QED BY <1>1, <1>2, <1>4, <1>5

\* Reading on never loses anything, and later frames change nothing earlier.
LEMMA SeenFacts ==
    ASSUME NEW s \in Seq(DownFrame), NEW d
    PROVE  /\ \A k : d \subseteq Seen(d, s, k)
           /\ \A k : \A e : d \subseteq e => Seen(d, s, k) \subseteq Seen(e, s, k)
           /\ \A k \in 0..Len(s) : \A u \in Seq(DownFrame) :
                Seen(d, s \o u, k) = Seen(d, s, k)
           /\ \A j, k \in Nat : j <= k => Seen(d, s, j) \subseteq Seen(d, s, k)
           /\ \A k \in Nat : \A j \in 1..k : s[j].t = "row" => s[j].ops \subseteq Seen(d, s, k)
<1>1. \A k \in 0..Len(s) : \A u \in Seq(DownFrame) : Seen(d, s \o u, k) = Seen(d, s, k)
  <2> SUFFICES ASSUME NEW k \in 0..Len(s), NEW u \in Seq(DownFrame)
               PROVE  Seen(d, s \o u, k) = Seen(d, s, k)
    OBVIOUS
  <2>1. \A j \in 1..k : (s \o u)[j] = s[j]
    OBVIOUS
  <2> QED BY <2>1 DEF Seen
<1>2. \A j, k \in Nat : j <= k => Seen(d, s, j) \subseteq Seen(d, s, k)
  <2> SUFFICES ASSUME NEW j \in Nat, NEW k \in Nat, j <= k
               PROVE  Seen(d, s, j) \subseteq Seen(d, s, k)
    OBVIOUS
  <2>1. \A i \in 1..j : i \in 1..k
    OBVIOUS
  <2> QED BY <2>1 DEF Seen
<1>3. \A k : d \subseteq Seen(d, s, k)
  BY DEF Seen
<1>4. \A k : \A e : d \subseteq e => Seen(d, s, k) \subseteq Seen(e, s, k)
  BY DEF Seen
<1>5. \A k \in Nat : \A j \in 1..k : s[j].t = "row" => s[j].ops \subseteq Seen(d, s, k)
  BY DEF Seen
<1> QED BY <1>1, <1>2, <1>3, <1>4, <1>5

\* Reading the head of the queue.
LEMMA SeenTail ==
    ASSUME NEW s \in Seq(DownFrame), s # <<>>, NEW d, NEW e,
           d \subseteq e, Head(s).t = "row" => Head(s).ops \subseteq e
    PROVE  /\ Tail(s) \in Seq(DownFrame) /\ Len(Tail(s)) + 1 = Len(s)
           /\ \A k \in 1..Len(Tail(s)) : Tail(s)[k] = s[k + 1]
           /\ \A k \in 0..Len(Tail(s)) : Seen(d, s, k + 1) \subseteq Seen(e, Tail(s), k)
<1>1. /\ Tail(s) \in Seq(DownFrame) /\ Len(Tail(s)) + 1 = Len(s)
      /\ \A k \in 1..Len(Tail(s)) : Tail(s)[k] = s[k + 1]
      /\ Head(s) = s[1]
  OBVIOUS
<1>2. ASSUME NEW k \in 0..Len(Tail(s)), NEW x \in Seen(d, s, k + 1)
      PROVE  x \in Seen(e, Tail(s), k)
  <2>1. CASE x \in d
    BY <2>1 DEF Seen
  <2>2. CASE x \notin d
    <3>1. PICK j \in 1..(k + 1) : s[j].t = "row" /\ x \in s[j].ops
      BY <1>2, <2>2 DEF Seen
    <3>2. CASE j = 1
      BY <1>1, <3>1, <3>2 DEF Seen
    <3>3. CASE j # 1
      <4>1. j - 1 \in 1..k /\ j - 1 \in 1..Len(Tail(s)) /\ (j - 1) + 1 = j
        BY <1>1, <3>3
      <4>2. Tail(s)[j - 1] = s[j]
        BY <1>1, <4>1
      <4> QED BY <3>1, <4>1, <4>2 DEF Seen
    <3> QED BY <3>2, <3>3
  <2> QED BY <2>1, <2>2
<1> QED BY <1>1, <1>2

\* enqueue_update: what it queues is an update it was given, under a new id.
LEMMA EnqueueFacts ==
    ASSUME Shape, NEW updates \in Seq(SUBSET Ops), Enqueue(updates)
    PROVE  /\ pending' \in Seq(Batch) /\ minted' \in Nat /\ minted <= minted'
           /\ \A i \in 1..Len(pending') :
                \/ \E j \in 1..Len(pending) : pending'[i] = pending[j]
                \/ /\ \E j \in 1..Len(updates) : pending'[i].ops = updates[j]
                   /\ pending'[i].id \in 1..minted'
<1> DEFINE refused == {i \in DOMAIN updates : updates[i] \cap Big # {}}
           fits    == Picked(updates, DOMAIN updates \ refused)
           new     == [i \in DOMAIN fits |-> [id |-> minted + i, ops |-> fits[i]]]
<1>1. /\ fits \in Seq(SUBSET Ops)
      /\ \A k \in 1..Len(fits) : \E i \in 1..Len(updates) : fits[k] = updates[i]
  <2>1. DOMAIN updates \ refused \in SUBSET DOMAIN updates /\ DOMAIN updates = 1..Len(updates)
    OBVIOUS
  <2> DEFINE S == DOMAIN updates \ refused
  <2> HIDE DEF refused
  <2>2. S \in SUBSET DOMAIN updates /\ fits = Picked(updates, S) /\ S \subseteq 1..Len(updates)
    BY <2>1
  <2> HIDE DEF S, fits
  <2>3. /\ Picked(updates, S) \in Seq(SUBSET Ops)
        /\ \A k \in 1..Len(Picked(updates, S)) : \E i \in S : Picked(updates, S)[k] = updates[i]
    BY ONLY updates \in Seq(SUBSET Ops), <2>2, PickedFacts
  <2> QED BY ONLY <2>2, <2>3
<1>2. pending' = pending \o new /\ minted' = minted + Len(fits)
  BY DEF Enqueue
<1> HIDE DEF fits
<1>3. new \in Seq(Batch) /\ Len(new) = Len(fits)
  <2>1. DOMAIN fits = 1..Len(fits) /\ Len(fits) \in Nat
    BY <1>1
  <2>2. \A i \in 1..Len(fits) : [id |-> minted + i, ops |-> fits[i]] \in Batch
    BY <1>1 DEF Shape, Batch
  <2> QED BY <2>1, <2>2
<1>4. \A k \in 1..Len(fits) : new[k].ops = fits[k] /\ new[k].id = minted + k
  BY <1>1
<1> HIDE DEF new
<1>5. pending \in Seq(Batch) /\ minted \in Nat /\ Len(fits) \in Nat
  BY <1>1 DEF Shape
<1>6. ASSUME NEW i \in 1..Len(pending')
      PROVE  \/ \E j \in 1..Len(pending) : pending'[i] = pending[j]
             \/ /\ \E j \in 1..Len(updates) : pending'[i].ops = updates[j]
                /\ pending'[i].id \in 1..minted'
  <2>1. CASE i <= Len(pending)
    <3>1. i \in 1..Len(pending) /\ pending'[i] = pending[i]
      BY <1>2, <1>3, <1>5, <2>1
    <3> QED BY <3>1
  <2>2. CASE ~(i <= Len(pending))
    <3>1. i - Len(pending) \in 1..Len(fits) /\ pending'[i] = new[i - Len(pending)]
      BY <1>2, <1>3, <1>5, <2>2
    <3>2. pending'[i].ops = fits[i - Len(pending)]
          /\ pending'[i].id = minted + (i - Len(pending))
      BY <1>4, <3>1
    <3>3. pending'[i].id \in 1..minted'
      BY <1>2, <1>5, <3>1, <3>2
    <3> QED BY <1>1, <3>1, <3>2, <3>3
  <2> QED BY <2>1, <2>2
<1>7. pending' \in Seq(Batch) /\ minted' \in Nat /\ minted <= minted'
  BY <1>2, <1>3, <1>5
<1> QED BY <1>6, <1>7

\* Retiring a batch keeps the others.
LEMMA WithoutFacts ==
    ASSUME NEW batches \in Seq(Batch), NEW id
    PROVE  /\ Without(batches, id) \in Seq(Batch)
           /\ \A i \in 1..Len(Without(batches, id)) : \E j \in 1..Len(batches) :
                Without(batches, id)[i] = batches[j]
<1> DEFINE S == DOMAIN batches \ Named(batches, id)
<1>1. S \in SUBSET DOMAIN batches /\ DOMAIN batches = 1..Len(batches)
  OBVIOUS
<1>2. Without(batches, id) = Picked(batches, S)
  BY DEF Without
<1> HIDE DEF S
<1>3. /\ Picked(batches, S) \in Seq(Batch)
      /\ \A k \in 1..Len(Picked(batches, S)) : \E i \in S : Picked(batches, S)[k] = batches[i]
  BY <1>1, PickedFacts
<1>4. \A i \in S : i \in 1..Len(batches)
  BY <1>1
<1> QED BY <1>2, <1>3, <1>4

\* A push frame carries the operations of its batch.
LEMMA PushFramesFacts ==
    ASSUME NEW batches \in Seq(Batch)
    PROVE  /\ PushFrames(batches) \in Seq(UpFrame)
           /\ Len(PushFrames(batches)) = Len(batches)
           /\ \A i \in 1..Len(batches) : /\ PushFrames(batches)[i].t = "push"
                                         /\ PushFrames(batches)[i].ops = batches[i].ops
<1>1. \A i \in 1..Len(batches) : batches[i].id \in Nat /\ batches[i].ops \in SUBSET Ops
  <2>1. \A i \in 1..Len(batches) : batches[i] \in Batch
    OBVIOUS
  <2> QED BY <2>1 DEF Batch
<1>2. \A i \in 1..Len(batches) :
        [t |-> "push", id |-> batches[i].id, ops |-> batches[i].ops] \in UpFrame
  BY <1>1 DEF UpFrame
<1>3. DOMAIN batches = 1..Len(batches) /\ Len(batches) \in Nat
  OBVIOUS
<1> QED BY <1>2, <1>3 DEF PushFrames

\* The backfill is the log's rows from where the request starts, in order, all but
\* the ones it leaves out.
LEMMA BackfillFacts ==
    ASSUME Shape, NEW req, req.after \in Nat
    PROVE  LET from == IF req.after > room.floor THEN req.after ELSE room.floor
               sent == {i \in (from + 1)..HeadSeq : ~(req.excludeOwn /\ room.rows[i].own)}
           IN  /\ Backfill(req) \in Seq(DownFrame)
               /\ Len(Backfill(req)) = Cardinality(sent)
               /\ \A k \in 1..Len(Backfill(req)) :
                    Nth(sent, k) \in sent /\ Backfill(req)[k] = RowFrame(Nth(sent, k))
               /\ \A i \in sent : \E k \in 1..Len(Backfill(req)) : Nth(sent, k) = i
               /\ \A k \in 1..Len(Backfill(req)) : \A i \in sent :
                    i <= Nth(sent, k) => \E j \in 1..k : Nth(sent, j) = i
<1> DEFINE from == IF req.after > room.floor THEN req.after ELSE room.floor
           sent == {i \in (from + 1)..HeadSeq : ~(req.excludeOwn /\ room.rows[i].own)}
<1>1. from \in Nat /\ HeadSeq \in Nat /\ room.rows \in Seq(Row)
  BY DEF Shape, Room, HeadSeq
<1>2. sent \in SUBSET (1..HeadSeq)
  BY <1>1
<1>3. Backfill(req) = [k \in 1..Cardinality(sent) |-> RowFrame(Nth(sent, k))]
  BY DEF Backfill
<1> HIDE DEF sent
<1>4. /\ Cardinality(sent) \in Nat
      /\ \A k \in 1..Cardinality(sent) : Nth(sent, k) \in sent
      /\ \A i \in sent : \E k \in 1..Cardinality(sent) : Nth(sent, k) = i
      /\ \A k \in 1..Cardinality(sent) : \A i \in sent :
           i <= Nth(sent, k) => \E j \in 1..k : Nth(sent, j) = i
  BY ONLY <1>1, <1>2, NthFacts
<1>5. ASSUME NEW i \in 1..HeadSeq PROVE RowFrame(i) \in DownFrame
  <2>1. room.rows[i] \in Row /\ i \in Nat
    BY <1>1 DEF HeadSeq
  <2>2. room.rows[i].ops \in SUBSET Ops
    BY <2>1 DEF Row
  <2> QED BY <2>1, <2>2 DEF RowFrame, DownFrame
<1>6. /\ Backfill(req) \in Seq(DownFrame) /\ Len(Backfill(req)) = Cardinality(sent)
      /\ \A k \in 1..Cardinality(sent) : Backfill(req)[k] = RowFrame(Nth(sent, k))
  <2>1. \A k \in 1..Cardinality(sent) : RowFrame(Nth(sent, k)) \in DownFrame
    BY <1>2, <1>4, <1>5
  <2> QED BY <1>3, <1>4, <2>1
<1> QED BY <1>4, <1>6 DEF sent

\* The fields of a frame, by its kind.
LEMMA FrameFacts ==
    /\ \A f \in DownFrame :
         /\ f.t = "state" => f.head \in Nat /\ f.ckpt \in Post
         /\ f.t = "row" => f.seq \in Nat /\ f.ops \in SUBSET Ops
         /\ f.t = "ack" => f.seq \in Nat
    /\ \A f \in UpFrame :
         /\ f.t = "rows_req" => f.after \in Nat /\ f.excludeOwn \in BOOLEAN
         /\ f.t = "push" => f.id \in Nat /\ f.ops \in SUBSET Ops
<1>1. ASSUME NEW f \in DownFrame
      PROVE  /\ f.t = "state" => f.head \in Nat /\ f.ckpt \in Post
             /\ f.t = "row" => f.seq \in Nat /\ f.ops \in SUBSET Ops
             /\ f.t = "ack" => f.seq \in Nat
  BY DEF DownFrame
<1>2. ASSUME NEW f \in UpFrame
      PROVE  /\ f.t = "rows_req" => f.after \in Nat /\ f.excludeOwn \in BOOLEAN
             /\ f.t = "push" => f.id \in Nat /\ f.ops \in SUBSET Ops
  BY DEF UpFrame
<1> QED BY <1>1, <1>2

\* The frames the room sends are frames.
LEMMA FrameTypes ==
    /\ [t |-> "presence"] \in DownFrame
    /\ \A n \in Nat : \A S \in SUBSET Ops : [t |-> "row", seq |-> n, ops |-> S] \in DownFrame
    /\ \A n \in Nat : \A c \in Post : \A r \in Int :
         [t |-> "state", head |-> n, ckpt |-> c, rowCount |-> r] \in DownFrame
<1>1. ASSUME NEW n \in Nat, NEW S \in SUBSET Ops
      PROVE  [t |-> "row", seq |-> n, ops |-> S] \in DownFrame
  <2>1. [t |-> "row", seq |-> n, ops |-> S] \in [t : {"row"}, seq : Nat, ops : SUBSET Ops]
    OBVIOUS
  <2> QED BY <2>1, Zenon DEF DownFrame
<1>2. ASSUME NEW n \in Nat, NEW c \in Post, NEW r \in Int
      PROVE  [t |-> "state", head |-> n, ckpt |-> c, rowCount |-> r] \in DownFrame
  <2>1. [t |-> "state", head |-> n, ckpt |-> c, rowCount |-> r]
          \in [t : {"state"}, head : Nat, ckpt : Post, rowCount : Int]
    OBVIOUS
  <2> QED BY <2>1, Zenon DEF DownFrame
<1>3. [t |-> "presence"] \in DownFrame
  BY DEF DownFrame
<1> QED BY <1>1, <1>2, <1>3

\* Head and tail.
LEMMA QueueFacts ==
    ASSUME NEW T, NEW s \in Seq(T), s # <<>>
    PROVE  /\ Head(s) \in T /\ Head(s) = s[1] /\ 1 \in 1..Len(s)
           /\ Tail(s) \in Seq(T) /\ Len(s) = Len(Tail(s)) + 1
           /\ \A k \in 1..Len(Tail(s)) : Tail(s)[k] = s[k + 1] /\ k + 1 \in 1..Len(s)
  OBVIOUS

\* Concatenation.
LEMMA ConcatFacts ==
    ASSUME NEW T, NEW s \in Seq(T), NEW u \in Seq(T)
    PROVE  /\ s \o u \in Seq(T) /\ Len(s \o u) = Len(s) + Len(u)
           /\ \A i \in 1..Len(s) : (s \o u)[i] = s[i]
           /\ \A i \in 1..Len(s \o u) : i \notin 1..Len(s) =>
                i - Len(s) \in 1..Len(u) /\ (s \o u)[i] = u[i - Len(s)]
  OBVIOUS

\* Appending.
LEMMA SeqFacts ==
    ASSUME NEW T
    PROVE  /\ <<>> \in Seq(T)
           /\ \A x \in T : <<x>> \in Seq(T)
           /\ \A s \in Seq(T) : \A x \in T :
                /\ Append(s, x) \in Seq(T) /\ Len(Append(s, x)) = Len(s) + 1
                /\ \A i \in 1..Len(s) : Append(s, x)[i] = s[i]
                /\ Append(s, x)[Len(s) + 1] = x
  OBVIOUS

\* The room's fields, and a row appended to it.
LEMMA RoomFacts ==
    ASSUME room \in Room
    PROVE  /\ room.rows \in Seq(Row) /\ Len(room.rows) \in Nat /\ HeadSeq = Len(room.rows)
           /\ room.floor \in Nat
           /\ room.ckpt \in Post /\ room.ckpt.seq \in Nat /\ room.ckpt.ops \in SUBSET Ops
           /\ room.ckpt.there \in BOOLEAN
           /\ \A r \in Row : LET new == [room EXCEPT !.rows = Append(@, r)]
                IN  /\ new \in Room /\ new.rows = Append(room.rows, r)
                    /\ new.floor = room.floor /\ new.ckpt = room.ckpt
<1>1. room.rows \in Seq(Row) /\ room.floor \in Nat /\ room.ckpt \in Post
  BY DEF Room
<1>2. room.ckpt.seq \in Nat /\ room.ckpt.ops \in SUBSET Ops /\ room.ckpt.there \in BOOLEAN
  BY <1>1 DEF Post
<1>3. ASSUME NEW r \in Row
      PROVE  LET new == [room EXCEPT !.rows = Append(@, r)]
             IN  /\ new \in Room /\ new.rows = Append(room.rows, r)
                 /\ new.floor = room.floor /\ new.ckpt = room.ckpt
  <2>1. Append(room.rows, r) \in Seq(Row)
    BY <1>1, SeqFacts
  <2> QED BY <1>1, <2>1 DEF Room
<1> QED BY <1>1, <1>2, <1>3 DEF HeadSeq

\* Types of what the room answers with.
LEMMA HeadFacts ==
    ASSUME Shape
    PROVE  /\ HeadSeq = Len(room.rows) /\ HeadSeq \in Nat /\ HeadSeq + 1 \in Nat
           /\ HeadSeq - room.floor \in Int /\ room.ckpt \in Post /\ room.rows \in Seq(Row)
<1>1. room \in Room
  BY DEF Shape
<1>2. HeadSeq = Len(room.rows) /\ HeadSeq \in Nat /\ room.floor \in Nat /\ room.ckpt \in Post
      /\ room.rows \in Seq(Row)
  BY ONLY <1>1, RoomFacts
<1> QED BY ONLY <1>2

\* plan_catch_up: it fetches the checkpoint from its sequence number, or asks for the
\* rows after zero, after an honest cursor, or after a contained checkpoint.
LEMMA PlanFacts ==
    ASSUME NEW c \in Nat, NEW st, st.head \in Nat, st.ckpt \in Post, NEW contained
    PROVE  /\ PlanCatchUp(c, st, contained).after \in Nat
           /\ PlanCatchUp(c, st, contained).fetch \in BOOLEAN
           /\ PlanCatchUp(c, st, contained).fetch =>
                PlanCatchUp(c, st, contained).after = st.ckpt.seq
           /\ ~PlanCatchUp(c, st, contained).fetch =>
                /\ ~st.ckpt.there \/ contained
                /\ \/ PlanCatchUp(c, st, contained).after = 0
                   \/ c <= st.head /\ PlanCatchUp(c, st, contained).after = c
                   \/ st.ckpt.there /\ PlanCatchUp(c, st, contained).after = st.ckpt.seq
<1>1. st.ckpt.seq \in Nat
  BY DEF Post
<1> QED BY <1>1 DEF PlanCatchUp

-----------------------------------------------------------------------------
(* Each part of the invariant, action by action.                            *)

LEMMA ShapeStep ==
    ASSUME EarlyRows = FALSE, Shape, SyncNext
    PROVE  Shape'
<1> USE DEF clientVars, hostVars, netVars, syncHist, faultVars
<1>1. ASSUME NEW o \in LocalOps, Commit(o) PROVE Shape'
  <2>1. doc' \in SUBSET Ops
    BY <1>1 DEF Commit, Shape, Ops, MyOps
  <2>2. pending' \in Seq(Batch) /\ minted' \in Nat /\ buffer' \in Seq(SUBSET Ops)
    <3>1. {o} \in SUBSET Ops
      BY DEF Ops, MyOps
    <3>2. CASE slot
      <4>1. <<{o}>> \in Seq(SUBSET Ops) /\ Enqueue(<<{o}>>) /\ buffer' = buffer
        BY <1>1, <3>1, <3>2 DEF Commit
      <4> QED BY <4>1, EnqueueFacts DEF Shape
    <3>3. CASE ~slot
      <4>1. buffer' = Append(buffer, {o}) /\ UNCHANGED <<pending, minted>>
        BY <1>1, <3>3 DEF Commit
      <4> QED BY <3>1, <4>1, SeqFacts DEF Shape
    <3> QED BY <3>2, <3>3
  <2> QED BY <1>1, <2>1, <2>2 DEF Commit, Shape
<1>2. ASSUME NEW o \in PeerOps, PeerPush(o) PROVE Shape'
  <2>1. [ops |-> {o}, own |-> FALSE, id |-> 0] \in Row /\ {o} \in SUBSET Ops
    BY DEF Row, Ops
  <2>2. room' \in Room
    BY <1>2, <2>1, RoomFacts DEF PeerPush, Shape
  <2>3. down' \in Seq(DownFrame)
    <3>0. HeadSeq + 1 \in Nat
      BY HeadFacts
    <3>1. [t |-> "row", seq |-> HeadSeq + 1, ops |-> {o}] \in DownFrame
      BY ONLY <2>1, <3>0, FrameTypes
    <3> QED BY <1>2, <3>1 DEF PeerPush, Shape
  <2> QED BY <1>2, <2>2, <2>3 DEF PeerPush, Shape
<1>3. CASE SavePlain
  BY <1>3 DEF SavePlain, Shape
<1>4. CASE Dial
  <2>1. <<[t |-> "hello"]>> \in Seq(UpFrame)
    BY SeqFacts DEF UpFrame
  <2> QED BY <1>4, <2>1 DEF Dial, Shape
<1>5. CASE SkipStale
  BY <1>5 DEF SkipStale, Shape
<1>6. CASE RecvState
  <2> DEFINE st   == Head(down)
             plan == PlanCatchUp(cursor, st, st.ckpt.ops \subseteq doc)
  <2>1. st \in DownFrame /\ st.t = "state" /\ Tail(down) \in Seq(DownFrame)
    BY <1>6, QueueFacts DEF RecvState, Shape
  <2>2. plan.after \in Nat /\ plan.fetch \in BOOLEAN
    BY <2>1, FrameFacts, PlanFacts DEF Shape
  <2>3. RowsReq(plan.after) \in UpFrame
    BY <2>2 DEF RowsReq, UpFrame, Shape
  <2>4. /\ wanted' = plan.after /\ down' = Tail(down)
        /\ \/ phase' = "fetch" /\ UNCHANGED <<cursor, up>>
           \/ /\ phase' = "backfill"
              /\ cursor' = IF plan.after < cursor THEN plan.after ELSE cursor
              /\ up' = Append(up, RowsReq(plan.after))
        /\ era' = era \/ era' = wipes
        /\ fooled' \in BOOLEAN
        /\ UNCHANGED <<doc, saved, buffer, opened, pending, slot, joined, resumed, nudged, quota,
                       boot, posting, relayed, room, minted, rejected, stranded, faultVars>>
    BY <1>6 DEF RecvState
  <2> HIDE DEF plan, st
  <2>5. up' \in Seq(UpFrame) /\ cursor' \in Nat
    <3>1. Append(up, RowsReq(plan.after)) \in Seq(UpFrame)
      BY <2>3, SeqFacts DEF Shape
    <3> QED BY <2>2, <2>4, <3>1 DEF Shape
  <2> QED BY <2>1, <2>2, <2>4, <2>5 DEF Shape
<1>7. CASE FetchCheckpoint
  <2>1. room.ckpt.ops \in SUBSET Ops
    BY RoomFacts DEF Shape
  <2>2. RowsReq(wanted) \in UpFrame
    BY DEF RowsReq, UpFrame, Shape
  <2> QED BY <1>7, <2>1, <2>2 DEF FetchCheckpoint, PersistWithCursor, Shape
<1>8. CASE FetchMissing \/ Drop \/ Wipe
  <2>1. room' \in Room /\ wipes' \in Nat
    <3>1. NewRoom \in Room
      BY SeqFacts DEF NewRoom, NoPost, Post, Room
    <3> QED BY <1>8, <3>1 DEF FetchMissing, Drop, Wipe, Shape
  <2>2. /\ phase' = "down" /\ up' = <<>> /\ down' = <<>> /\ relayed' = FALSE
        /\ cursor' = cursor \/ cursor' = opened.cursor
        /\ era' = era \/ era' = opened.era
        /\ UNCHANGED <<opened, pending, slot, joined, resumed, wanted, view, nudged, quota>>
        /\ UNCHANGED <<doc, saved, buffer, hostVars, minted, fooled>>
    BY <1>8 DEF FetchMissing, Drop, Wipe, SessionEnds
  <2>3. cursor' \in Nat /\ era' \in Nat /\ up' \in Seq(UpFrame) /\ down' \in Seq(DownFrame)
    BY <2>2, SeqFacts DEF Shape
  <2> QED BY <2>1, <2>2, <2>3 DEF Shape
<1>9. CASE RecvRow
  <2>1. Head(down).seq \in Nat /\ Head(down).ops \in SUBSET Ops /\ Tail(down) \in Seq(DownFrame)
    BY <1>9, QueueFacts, FrameFacts DEF RecvRow, Shape
  <2> QED BY <1>9, <2>1 DEF RecvRow, PersistWithCursor, Shape
<1>10. CASE RecvRowsDone
  <2>1. PushFrames(pending) \in Seq(UpFrame)
    BY PushFramesFacts DEF Shape
  <2> QED BY <1>10, <2>1 DEF RecvRowsDone, Shape
<1>11. CASE PushPending
  <2>1. PushFrames(pending) \in Seq(UpFrame)
    BY PushFramesFacts DEF Shape
  <2> QED BY <1>11, <2>1 DEF PushPending, Shape
<1>12. CASE PushHead
  <2>1. (IF pending = <<>> THEN <<>> ELSE <<Head(pending)>>) \in Seq(Batch)
    BY DEF Shape
  <2>2. PushFrames(IF pending = <<>> THEN <<>> ELSE <<Head(pending)>>) \in Seq(UpFrame)
    BY <2>1, PushFramesFacts
  <2> QED BY <1>12, <2>2 DEF PushHead, Shape
<1>13. CASE RecvAck
  <2>1. Head(down).seq \in Nat /\ Tail(down) \in Seq(DownFrame)
    BY <1>13, QueueFacts, FrameFacts DEF RecvAck, Shape
  <2>2. Without(pending, Head(down).id) \in Seq(Batch)
    BY WithoutFacts DEF Shape
  <2> QED BY <1>13, <2>1, <2>2 DEF RecvAck, PersistWithCursor, Shape
<1>14. CASE RecvError
  <2>1. Without(pending, Head(down).id) \in Seq(Batch)
    BY WithoutFacts DEF Shape
  <2>2. pending' \in Seq(Batch) /\ down' \in Seq(DownFrame)
    BY <1>14, <2>1 DEF RecvError, Shape
  <2> QED BY <1>14, <2>2 DEF RecvError, Shape
<1>15. CASE Install
  <2>1. Enqueue(buffer) /\ buffer \in Seq(SUBSET Ops)
    BY <1>15 DEF Install, Shape
  <2>2. pending' \in Seq(Batch) /\ minted' \in Nat
    BY <2>1, EnqueueFacts
  <2> QED BY <1>15, <2>2 DEF Install, Shape
<1>16. CASE HandleEvent \/ Bootstrap \/ Maintain
  <2>1. Snapshot \in Post
    BY DEF Snapshot, Post, Shape
  <2>2. /\ posting' = posting \/ posting' = Snapshot
        /\ boot' = boot \/ boot' = FALSE
    BY <1>16 DEF HandleEvent, Bootstrap, Maintain, StartPost
  <2>3. posting' \in Post /\ boot' \in BOOLEAN
    BY <2>1, <2>2 DEF Shape
  <2> QED BY <1>16, <2>3 DEF HandleEvent, Bootstrap, Maintain, Shape
<1>17. CASE PostLands
  <2>1. NoPost \in Post /\ posting.seq \in Nat
    BY DEF NoPost, Post, Shape
  <2>2. room' \in Room
    BY <1>17, <2>1 DEF PostLands, Shape, Room
  <2> QED BY <1>17, <2>1, <2>2 DEF PostLands, Shape
<1>18. CASE PostFails
  <2>1. NoPost \in Post
    BY DEF NoPost, Post
  <2> QED BY <1>18, <2>1 DEF PostFails, Shape
<1>19. CASE ServeHello
  <2> DEFINE st == [t |-> "state", head |-> HeadSeq, ckpt |-> room.ckpt,
                    rowCount |-> HeadSeq - room.floor]
  <2>0. HeadSeq \in Nat /\ HeadSeq - room.floor \in Int /\ room.ckpt \in Post
    BY HeadFacts
  <2>1. st \in DownFrame /\ [t |-> "presence"] \in DownFrame
    BY ONLY <2>0, FrameTypes
  <2>2. PICK early \in {<<>>, <<[t |-> "presence"]>>} : down' = down \o early \o <<st>>
    BY <1>19 DEF ServeHello
  <2>3. early \in Seq(DownFrame)
    <3>1. <<>> \in Seq(DownFrame) /\ <<[t |-> "presence"]>> \in Seq(DownFrame)
      BY ONLY <2>1, SeqFacts
    <3> QED BY <2>2, <3>1
  <2> HIDE DEF st
  <2>4. down' \in Seq(DownFrame)
    BY <2>1, <2>2, <2>3 DEF Shape
  <2> QED BY <1>19, <2>4 DEF ServeHello, Shape
<1>20. CASE ServeRows
  <2>1. Backfill(Head(up)) \in Seq(DownFrame) /\ Tail(up) \in Seq(UpFrame)
    <3>1. Head(up).after \in Nat
      BY <1>20, QueueFacts, FrameFacts DEF ServeRows, Shape
    <3> QED BY <1>20, <3>1, QueueFacts, BackfillFacts DEF ServeRows, Shape
  <2>2. [t |-> "done"] \in DownFrame
    BY DEF DownFrame
  <2> QED BY <1>20, <2>1, <2>2 DEF ServeRows, Shape
<1>21. CASE ServePush
  <2> DEFINE push == Head(up)
             old  == {i \in 1..HeadSeq : room.rows[i].own /\ room.rows[i].id = push.id}
             new  == [ops |-> push.ops, own |-> TRUE, id |-> push.id]
             ack  == [t |-> "ack", id |-> push.id,
                      seq |-> IF old # {} THEN CHOOSE i \in old : TRUE ELSE HeadSeq + 1]
  <2>1. push.id \in Nat /\ push.ops \in SUBSET Ops /\ Tail(up) \in Seq(UpFrame)
    BY <1>21, QueueFacts, FrameFacts DEF ServePush, Shape
  <2>2. new \in Row /\ ack \in DownFrame
    <3>1. HeadSeq \in Nat
      BY RoomFacts DEF Shape
    <3>2. ack.seq \in Nat
      BY <3>1
    <3> HIDE DEF old
    <3> QED BY <2>1, <3>2 DEF Row, DownFrame
  <2>3. \A q \in BOOLEAN : [t |-> "error", quota |-> q, id |-> push.id] \in DownFrame
    BY <2>1 DEF DownFrame
  <2>4. /\ room' = room \/ room' = [room EXCEPT !.rows = Append(@, new)]
        /\ \/ down' = Append(down, [t |-> "error", quota |-> FALSE, id |-> push.id])
           \/ down' = Append(down, [t |-> "error", quota |-> TRUE, id |-> push.id])
           \/ down' = Append(down, ack)
        /\ up' = Tail(up)
        /\ UNCHANGED <<doc, saved, buffer, clientVars, hostVars, relayed, minted, syncHist,
                       drops, reopens, wipes>>
    BY <1>21 DEF ServePush
  <2> HIDE DEF push, new, ack
  <2>5. down' \in Seq(DownFrame)
    <3>1. \A f \in DownFrame : Append(down, f) \in Seq(DownFrame)
      BY SeqFacts DEF Shape
    <3> QED BY <2>2, <2>3, <2>4, <3>1
  <2>6. room' \in Room
    BY <2>2, <2>4, RoomFacts DEF Shape
  <2> QED BY <2>1, <2>4, <2>5, <2>6 DEF Shape
<1>22. CASE CrashAndReopen
  <2>1. NoPost \in Post
    BY DEF NoPost, Post
  <2>2. buffer' \in Seq(SUBSET Ops)
    BY <1>22, SeqFacts DEF CrashAndReopen, FirstContact, Shape
  <2> QED BY <1>22, <2>1, <2>2, SeqFacts DEF CrashAndReopen, Shape
<1> QED BY <1>1, <1>2, <1>3, <1>4, <1>5, <1>6, <1>7, <1>8, <1>9, <1>10, <1>11, <1>12, <1>13,
           <1>14, <1>15, <1>16, <1>17, <1>18, <1>19, <1>20, <1>21, <1>22
           DEF SyncNext, Client, HostTasks, Server

\* The first frame on the way up tells the phase.
LEMMA UpHead ==
    ASSUME Shape, Link, up # <<>>
    PROVE  /\ up[1] = Head(up) /\ 1 \in 1..Len(up)
           /\ Head(up).t = "hello" => phase = "hello" /\ up = <<[t |-> "hello"]>> /\ down = <<>>
           /\ Head(up).t = "rows_req" =>
                phase = "backfill" /\ ~relayed /\ Len(up) = 1 /\ down = <<>>
           /\ Head(up).t = "push" => phase = "open"
<1>1. up[1] = Head(up) /\ 1 \in 1..Len(up)
  BY QueueFacts DEF Shape
<1>2. phase \in {"hello", "backfill", "open"}
  BY DEF Shape, Link
<1>3. CASE phase = "hello"
  <2>1. up = <<[t |-> "hello"]>> /\ down = <<>>
    BY <1>3 DEF Link
  <2>2. Head(up).t = "hello"
    BY <2>1
  <2> QED BY <1>1, <1>3, <2>1, <2>2
<1>4. CASE phase = "backfill"
  <2>1. ~relayed /\ Len(up) = 1 /\ up[1].t = "rows_req" /\ down = <<>>
    BY <1>4 DEF Link
  <2> QED BY <1>1, <1>4, <2>1
<1>5. CASE phase = "open"
  <2>1. Head(up).t = "push"
    BY <1>1, <1>5 DEF Link
  <2> QED BY <1>1, <1>5, <2>1
<1> QED BY <1>2, <1>3, <1>4, <1>5

\* So does the first frame on the way down.
LEMMA DownHead ==
    ASSUME Shape, Link, down # <<>>
    PROVE  /\ down[1] = Head(down) /\ 1 \in 1..Len(down)
           /\ Head(down).t = "state" => phase = "hello" /\ Len(down) = 1 /\ up = <<>>
           /\ Head(down).t = "row" => phase \in {"backfill", "open"} /\ relayed
           /\ Head(down).t \in {"ack", "error"} => phase = "open" /\ relayed
           /\ Head(down).t = "done" => phase = "backfill" /\ relayed /\ up = <<>>
<1>1. down[1] = Head(down) /\ 1 \in 1..Len(down) /\ Len(down) \in Nat
  BY QueueFacts DEF Shape
<1>2. phase \in {"hello", "backfill", "open"}
  BY DEF Shape, Link
<1>3. CASE phase = "hello"
  <2>1. up = <<>> /\ Head(down).t = IF 1 = Len(down) THEN "state" ELSE "presence"
    BY <1>1, <1>3 DEF Link
  <2> QED BY <1>1, <1>3, <2>1
<1>4. CASE phase = "backfill"
  <2>1. relayed /\ up = <<>> /\ Head(down).t \in {"row", "done"}
    BY <1>1, <1>4 DEF Link
  <2> QED BY <1>1, <1>4, <2>1
<1>5. CASE phase = "open"
  <2>1. relayed /\ Head(down).t \in {"row", "ack", "error"}
    BY <1>1, <1>5 DEF Link
  <2> QED BY <1>1, <1>5, <2>1
<1> QED BY <1>2, <1>3, <1>4, <1>5

\* The end of a session.
LEMMA SessionFacts ==
    ASSUME SessionEnds
    PROVE  /\ phase' = "down" /\ up' = <<>> /\ down' = <<>> /\ relayed' = FALSE
           /\ \/ cursor' = cursor /\ era' = era
              \/ cursor' = opened.cursor /\ era' = opened.era
           /\ UNCHANGED <<opened, pending, slot, joined, resumed, wanted>>
  BY DEF SessionEnds

LEMMA LinkStep ==
    ASSUME EarlyRows = FALSE, Shape, Link, SyncNext
    PROVE  Link'
<1> USE DEF clientVars, hostVars, netVars
<1>1. CASE UNCHANGED <<phase, up, down, relayed>>
  BY <1>1 DEF Link
<1>2. ASSUME NEW o \in PeerOps, PeerPush(o) PROVE Link'
  <2>1. CASE ~relayed
    <3>1. UNCHANGED <<phase, up, down, relayed>>
      BY <1>2, <2>1 DEF PeerPush
    <3> QED BY <1>1, <3>1
  <2>2. CASE relayed
    <3> DEFINE f == [t |-> "row", seq |-> HeadSeq + 1, ops |-> {o}]
    <3>1. down' = Append(down, f) /\ f.t = "row" /\ UNCHANGED <<phase, up, relayed>>
      BY <1>2, <2>2 DEF PeerPush
    <3> HIDE DEF f
    <3>2. /\ Len(down') = Len(down) + 1 /\ Len(down) \in Nat
          /\ \A k \in 1..Len(down) : down'[k] = down[k]
          /\ down'[Len(down) + 1] = f
      BY <3>1 DEF Shape
    <3>3. phase \in {"backfill", "open"}
      BY <2>2 DEF Shape, Link
    <3>4. CASE phase = "backfill"
      <4>1. /\ up = <<>>
            /\ \A k \in 1..Len(down) : down[k].t \in {"row", "done"}
            /\ \A j, k \in 1..Len(down) : down[j].t = "done" /\ down[k].t = "done" => j = k
        BY <2>2, <3>4 DEF Link
      <4>2. \A k \in 1..Len(down') : down'[k].t \in {"row", "done"}
        BY <3>1, <3>2, <4>1
      <4>3. \A j, k \in 1..Len(down') : down'[j].t = "done" /\ down'[k].t = "done" => j = k
        BY <3>1, <3>2, <4>1
      <4> QED BY <2>2, <3>1, <3>4, <4>1, <4>2, <4>3 DEF Link
    <3>5. CASE phase = "open"
      <4>1. \A k \in 1..Len(down') : down'[k].t \in {"row", "ack", "error"}
        BY <3>1, <3>2, <3>5 DEF Link
      <4> QED BY <2>2, <3>1, <3>5, <4>1 DEF Link
    <3> QED BY <3>3, <3>4, <3>5
  <2> QED BY <2>1, <2>2 DEF Shape
<1>3. CASE Dial
  <2>1. down' = <<>> /\ up' = <<[t |-> "hello"]>> /\ phase' = "hello" /\ relayed' = FALSE
    BY <1>3 DEF Dial, Link
  <2> QED BY <2>1 DEF Link
<1>4. CASE SkipStale
  <2>1. phase = "hello" /\ down # <<>> /\ down' = Tail(down) /\ UNCHANGED <<phase, up, relayed>>
    BY <1>4 DEF SkipStale
  <2>2. /\ up = <<>> /\ ~relayed
        /\ \A k \in 1..Len(down) : down[k].t = IF k = Len(down) THEN "state" ELSE "presence"
    BY <2>1 DEF Link
  <2>3. /\ Len(down') + 1 = Len(down) /\ Len(down') \in Nat
        /\ \A k \in 1..Len(down') : down'[k] = down[k + 1] /\ k + 1 \in 1..Len(down)
    BY <2>1 DEF Shape
  <2>4. \A k \in 1..Len(down') : down'[k].t = IF k = Len(down') THEN "state" ELSE "presence"
    BY <2>2, <2>3
  <2> QED BY <2>1, <2>2, <2>4 DEF Link
<1>5. CASE RecvState
  <2>1. /\ Len(down) = 1 /\ up = <<>> /\ down' = Tail(down) /\ phase = "hello"
        /\ relayed' = relayed
    BY <1>5, DownHead DEF RecvState
  <2>2. down' = <<>> /\ ~relayed'
    BY <2>1 DEF Shape, Link
  <2>3. \/ phase' = "fetch" /\ up' = up
        \/ phase' = "backfill" /\ \E n : up' = Append(up, RowsReq(n))
    BY <1>5 DEF RecvState
  <2>4. CASE phase' = "fetch" /\ up' = up
    BY <2>1, <2>2, <2>4 DEF Link
  <2>5. CASE phase' = "backfill" /\ \E n : up' = Append(up, RowsReq(n))
    <3>1. Len(up') = 1 /\ up'[1].t = "rows_req"
      BY <2>1, <2>5 DEF RowsReq
    <3> QED BY <2>2, <2>5, <3>1 DEF Link
  <2> QED BY <2>3, <2>4, <2>5
<1>6. CASE FetchCheckpoint
  <2>1. up = <<>> /\ down = <<>> /\ ~relayed
    BY <1>6 DEF FetchCheckpoint, Link
  <2>2. /\ phase' = "backfill" /\ up' = Append(up, RowsReq(wanted))
        /\ UNCHANGED <<down, relayed>>
    BY <1>6 DEF FetchCheckpoint
  <2>3. Len(up') = 1 /\ up'[1].t = "rows_req"
    BY <2>1, <2>2 DEF RowsReq
  <2> QED BY <2>1, <2>2, <2>3 DEF Link
<1>7. CASE FetchMissing \/ Drop \/ Wipe
  <2>1. phase' = "down" /\ up' = <<>> /\ down' = <<>> /\ relayed' = FALSE
    BY <1>7, SessionFacts DEF FetchMissing, Drop, Wipe
  <2> QED BY <2>1 DEF Link
<1>8. CASE RecvRow \/ RecvAck \/ RecvError
  <2>1. /\ phase \in {"backfill", "open"} /\ down # <<>> /\ down' = Tail(down)
        /\ UNCHANGED <<phase, up, relayed>>
    BY <1>8 DEF RecvRow, RecvAck, RecvError
  <2>2. /\ Len(down') + 1 = Len(down) /\ Len(down') \in Nat
        /\ \A k \in 1..Len(down') : down'[k] = down[k + 1] /\ k + 1 \in 1..Len(down)
    BY <2>1 DEF Shape
  <2>3. CASE phase = "backfill"
    <3>1. /\ relayed /\ up = <<>>
          /\ \A k \in 1..Len(down) : down[k].t \in {"row", "done"}
          /\ \A j, k \in 1..Len(down) : down[j].t = "done" /\ down[k].t = "done" => j = k
      BY <2>1, <2>3 DEF Link
    <3>2. \A k \in 1..Len(down') : down'[k].t \in {"row", "done"}
      BY <2>2, <3>1
    <3>3. \A j, k \in 1..Len(down') : down'[j].t = "done" /\ down'[k].t = "done" => j = k
      <4> SUFFICES ASSUME NEW j \in 1..Len(down'), NEW k \in 1..Len(down'),
                          down'[j].t = "done", down'[k].t = "done"
                   PROVE  j = k
        OBVIOUS
      <4>1. j + 1 = k + 1
        BY <2>2, <3>1
      <4> QED BY <4>1
    <3> QED BY <2>1, <2>3, <3>1, <3>2, <3>3 DEF Link
  <2>4. CASE phase = "open"
    <3>1. \A k \in 1..Len(down') : down'[k].t \in {"row", "ack", "error"}
      BY <2>2, <2>4 DEF Link
    <3> QED BY <2>1, <2>4, <3>1 DEF Link
  <2> QED BY <2>1, <2>3, <2>4
<1>9. CASE RecvRowsDone
  <2>1. /\ phase = "backfill" /\ down # <<>> /\ Head(down).t = "done"
        /\ phase' = "open" /\ up' = up \o PushFrames(pending) /\ down' = Tail(down)
        /\ relayed' = relayed
    BY <1>9 DEF RecvRowsDone
  <2>2. /\ relayed /\ up = <<>>
        /\ \A k \in 1..Len(down) : down[k].t \in {"row", "done"}
        /\ \A j, k \in 1..Len(down) : down[j].t = "done" /\ down[k].t = "done" => j = k
    BY <2>1 DEF Link
  <2>3. /\ down[1].t = "done" /\ 1 \in 1..Len(down)
        /\ \A k \in 1..Len(down') : down'[k] = down[k + 1] /\ k + 1 \in 1..Len(down) /\ k + 1 # 1
    BY <2>1 DEF Shape
  <2>4. \A k \in 1..Len(down') : down'[k].t = "row"
    BY <2>2, <2>3
  <2>5. \A k \in 1..Len(up') : up'[k].t = "push"
    <3>1. /\ PushFrames(pending) \in Seq(UpFrame)
          /\ \A i \in 1..Len(PushFrames(pending)) : PushFrames(pending)[i].t = "push"
      BY PushFramesFacts DEF Shape
    <3>2. up' = PushFrames(pending)
      BY <2>1, <2>2, <3>1
    <3> QED BY <3>1, <3>2
  <2> QED BY <2>1, <2>2, <2>4, <2>5 DEF Link
<1>10. CASE PushPending \/ PushHead
  <2> DEFINE b == IF PushPending THEN pending
                  ELSE IF pending = <<>> THEN <<>> ELSE <<Head(pending)>>
  <2>1. b \in Seq(Batch)
    BY DEF Shape
  <2>2. phase = "open" /\ up' = up \o PushFrames(b) /\ UNCHANGED <<phase, down, relayed>>
    BY <1>10 DEF PushPending, PushHead
  <2>3. /\ PushFrames(b) \in Seq(UpFrame)
        /\ \A i \in 1..Len(PushFrames(b)) : PushFrames(b)[i].t = "push"
    BY <2>1, PushFramesFacts
  <2> HIDE DEF b
  <2>4. \A k \in 1..Len(up') : up'[k].t = "push"
    BY <2>2, <2>3 DEF Link, Shape
  <2> QED BY <2>2, <2>4 DEF Link
<1>11. CASE ServeHello
  <2>1. /\ phase = "hello" /\ up = <<[t |-> "hello"]>> /\ down = <<>> /\ ~relayed
        /\ up' = Tail(up) /\ UNCHANGED <<phase, relayed>>
    BY <1>11, UpHead DEF ServeHello, Link
  <2> DEFINE st == [t |-> "state", head |-> HeadSeq, ckpt |-> room.ckpt,
                    rowCount |-> HeadSeq - room.floor]
  <2>2. PICK early \in {<<>>, <<[t |-> "presence"]>>} : down' = down \o early \o <<st>>
    BY <1>11 DEF ServeHello
  <2>5. st.t = "state"
    OBVIOUS
  <2> HIDE DEF st
  <2>3. up' = <<>>
    BY <2>1
  <2>4. \A k \in 1..Len(down') : down'[k].t = IF k = Len(down') THEN "state" ELSE "presence"
    <3>1. CASE early = <<>>
      BY <2>1, <2>2, <2>5, <3>1
    <3>2. CASE early = <<[t |-> "presence"]>>
      BY <2>1, <2>2, <2>5, <3>2
    <3> QED BY <3>1, <3>2
  <2> QED BY <2>1, <2>3, <2>4 DEF Link
<1>12. CASE ServeRows
  <2> DEFINE b == Backfill(Head(up))
  <2>1. /\ phase = "backfill" /\ Len(up) = 1 /\ down = <<>> /\ up # <<>>
        /\ up' = Tail(up) /\ relayed' = TRUE /\ phase' = phase
        /\ down' = down \o Append(b, [t |-> "done"])
        /\ Head(up).t = "rows_req"
    BY <1>12, UpHead DEF ServeRows
  <2>2. up' = <<>>
    <3>1. up \in Seq(UpFrame)
      BY DEF Shape
    <3> QED BY ONLY <2>1, <3>1
  <2>3. Head(up).after \in Nat
    BY <2>1, QueueFacts, FrameFacts DEF Shape
  <2>4. b \in Seq(DownFrame) /\ \A k \in 1..Len(b) : b[k].t = "row"
    <3>1. b \in Seq(DownFrame) /\ \A k \in 1..Len(b) : \E i : b[k] = RowFrame(i)
      <4> DEFINE req  == Head(up)
                 from == IF req.after > room.floor THEN req.after ELSE room.floor
                 sent == {i \in (from + 1)..HeadSeq : ~(req.excludeOwn /\ room.rows[i].own)}
      <4>1. /\ Backfill(req) \in Seq(DownFrame)
            /\ \A k \in 1..Len(Backfill(req)) : Backfill(req)[k] = RowFrame(Nth(sent, k))
        BY <2>3, BackfillFacts
      <4> HIDE DEF sent
      <4> QED BY <4>1
    <3>2. \A i : RowFrame(i).t = "row"
      BY DEF RowFrame
    <3> HIDE DEF b
    <3> QED BY <3>1, <3>2
  <2> HIDE DEF b
  <2>5. /\ Len(down') = Len(b) + 1 /\ Len(b) \in Nat
        /\ \A k \in 1..Len(b) : down'[k] = b[k]
        /\ down'[Len(b) + 1] = [t |-> "done"]
    <3>1. Append(b, [t |-> "done"]) \in Seq(DownFrame)
      BY <2>4 DEF DownFrame
    <3>2. down' = Append(b, [t |-> "done"])
      BY <2>1, <3>1
    <3> QED BY <2>4, <3>2
  <2>6. /\ \A k \in 1..Len(down') : down'[k].t \in {"row", "done"}
        /\ \A j, k \in 1..Len(down') : down'[j].t = "done" /\ down'[k].t = "done" => j = k
    BY <2>4, <2>5
  <2> QED BY <2>1, <2>2, <2>6 DEF Link
<1>13. CASE ServePush
  <2>1. phase = "open" /\ up # <<>> /\ up' = Tail(up) /\ UNCHANGED <<phase, relayed>>
    BY <1>13, UpHead DEF ServePush
  <2>2. PICK f : down' = Append(down, f) /\ f.t \in {"ack", "error"}
    BY <1>13 DEF ServePush
  <2>3. \A k \in 1..Len(up') : up'[k].t = "push"
    BY <2>1, QueueFacts DEF Shape, Link
  <2>4. \A k \in 1..Len(down') : down'[k].t \in {"row", "ack", "error"}
    BY <2>1, <2>2 DEF Shape, Link
  <2> QED BY <2>1, <2>3, <2>4 DEF Link
<1>14. CASE CrashAndReopen
  BY <1>14 DEF CrashAndReopen, Link
<1>15. ASSUME NEW o \in LocalOps, Commit(o) PROVE Link'
  BY <1>1, <1>15 DEF Commit
<1>16. CASE SavePlain \/ HostTasks \/ PostFails
  <2>1. UNCHANGED <<phase, up, down, relayed>>
    BY <1>16 DEF SavePlain, HostTasks, Install, HandleEvent, Bootstrap, Maintain, PostLands,
                 PostFails
  <2> QED BY <1>1, <2>1
<1> QED BY <1>2, <1>3, <1>4, <1>5, <1>6, <1>7, <1>8, <1>9, <1>10, <1>11, <1>12, <1>13, <1>14,
           <1>15, <1>16 DEF SyncNext, Client, Server

LEMMA LifeStep ==
    ASSUME Shape, Link, Life, SyncNext
    PROVE  Life'
<1> USE DEF clientVars, hostVars, netVars, syncHist, faultVars
<1>1. ASSUME NEW o \in LocalOps, Commit(o) PROVE Life'
  <2>1. pending' # <<>> => slot
    BY <1>1 DEF Commit, Life
  <2> QED BY <1>1, <2>1 DEF Commit, Life
<1>2. ASSUME NEW o \in PeerOps, PeerPush(o) PROVE Life'
  BY <1>2 DEF PeerPush, Life
<1>3. CASE SavePlain
  BY <1>3 DEF SavePlain, Life, Shape
<1>4. CASE Dial \/ SkipStale
  BY <1>4 DEF Dial, SkipStale, Life
<1>5. CASE RecvState
  <2>1. /\ \/ phase' = "fetch" /\ era' = era
           \/ phase' = "backfill" /\ era' = wipes
        /\ UNCHANGED <<saved, opened, pending, slot, joined, resumed, boot, posting, wipes>>
    BY <1>5 DEF RecvState
  <2> QED BY <2>1 DEF Life, Shape
<1>6. CASE FetchCheckpoint
  BY <1>6 DEF FetchCheckpoint, PersistWithCursor, Life, Shape
<1>7. CASE FetchMissing \/ Drop \/ Wipe
  <2>1. /\ phase' = "down" /\ era' \in {era, opened.era}
        /\ UNCHANGED <<opened, pending, slot, joined, resumed>>
    BY <1>7, SessionFacts DEF FetchMissing, Drop, Wipe
  <2>2. UNCHANGED <<saved, boot, posting>> /\ wipes' \in {wipes, wipes + 1}
    BY <1>7 DEF FetchMissing, Drop, Wipe
  <2>3. /\ era <= wipes' /\ saved.era <= wipes' /\ opened.era <= wipes' /\ posting.era <= wipes'
    BY <2>2 DEF Life, Shape, Post
  <2> QED BY <2>1, <2>2, <2>3 DEF Life
<1>8. CASE RecvRow
  BY <1>8 DEF RecvRow, PersistWithCursor, Life, Shape
<1>9. CASE RecvRowsDone
  BY <1>9 DEF RecvRowsDone, Life
<1>10. CASE PushPending \/ PushHead
  BY <1>10 DEF PushPending, PushHead, Life
<1>11. CASE RecvAck
  <2>1. pending' # <<>> => pending # <<>>
    <3>1. pending \in Seq(Batch) /\ pending' = Without(pending, Head(down).id)
      BY <1>11 DEF RecvAck, Shape
    <3>2. pending' \in Seq(Batch) /\ \A i \in 1..Len(pending') : \E j \in 1..Len(pending) : TRUE
      BY <3>1, WithoutFacts
    <3> QED BY <3>1, <3>2
  <2> QED BY <1>11, <2>1 DEF RecvAck, PersistWithCursor, Life, Shape
<1>12. CASE RecvError
  <2>1. pending' # <<>> => pending # <<>>
    <3>1. \/ pending' = pending
          \/ pending' = Without(pending, Head(down).id)
      BY <1>12 DEF RecvError
    <3>2. CASE pending' = Without(pending, Head(down).id)
      <4>0. pending \in Seq(Batch)
        BY DEF Shape
      <4>1. pending' \in Seq(Batch) /\ \A i \in 1..Len(pending') : \E j \in 1..Len(pending) : TRUE
        BY <3>2, <4>0, WithoutFacts
      <4> QED BY ONLY <4>0, <4>1
    <3> QED BY <3>1, <3>2
  <2> QED BY <1>12, <2>1 DEF RecvError, Life
<1>13. CASE Install
  BY <1>13 DEF Install, Life
<1>14. CASE HandleEvent \/ Bootstrap \/ Maintain
  <2>1. /\ posting' = posting \/ posting' = Snapshot
        /\ boot' => boot
        /\ UNCHANGED <<saved, opened, pending, slot, phase, joined, resumed, era, wipes>>
    BY <1>14 DEF HandleEvent, Bootstrap, Maintain, StartPost
  <2>2. slot
    BY <1>14 DEF HandleEvent, Bootstrap, Maintain, Life
  <2>3. posting'.era <= wipes'
    BY <2>1 DEF Snapshot, Life
  <2> QED BY <2>1, <2>2, <2>3 DEF Life
<1>15. CASE PostLands \/ PostFails
  <2>1. posting' = NoPost /\ UNCHANGED <<saved, opened, pending, slot, phase, joined, resumed,
                                         boot, era, wipes>>
    BY <1>15 DEF PostLands, PostFails
  <2>2. ~posting'.there /\ posting'.era <= wipes'
    BY <2>1 DEF NoPost, Shape
  <2> QED BY <2>1, <2>2 DEF Life
<1>16. CASE Server
  <2>1. UNCHANGED <<saved, opened, pending, slot, phase, joined, resumed, boot, posting, era,
                    wipes>>
    BY <1>16 DEF Server, ServeHello, ServeRows, ServePush
  <2> QED BY <2>1 DEF Life
<1>17. CASE CrashAndReopen
  BY <1>17 DEF CrashAndReopen, NoPost, Life, Shape
<1> QED BY <1>1, <1>2, <1>3, <1>4, <1>5, <1>6, <1>7, <1>8, <1>9, <1>10, <1>11, <1>12, <1>13,
           <1>14, <1>15, <1>16, <1>17 DEF SyncNext, Client, HostTasks

LEMMA OwnedStep ==
    ASSUME Shape, Link, Owned, SyncNext
    PROVE  Owned'
<1> USE DEF clientVars, hostVars, netVars, syncHist, faultVars
<1> DEFINE Queued == \A i \in 1..Len(pending) : pending[i].ops \subseteq doc
           Held   == \A i \in 1..Len(buffer) : buffer[i] \subseteq doc
           Pushed == \A i \in 1..Len(up) : up[i].t = "push" => up[i].ops \subseteq doc
<1>0. Queued /\ Held /\ Pushed
  BY DEF Owned
<1>1. ASSUME NEW o \in LocalOps, Commit(o) PROVE Owned'
  <2>1. doc' = doc \cup {o} /\ UNCHANGED <<saved, up>>
    BY <1>1 DEF Commit
  <2>2. CASE slot
    <3>1. Enqueue(<<{o}>>) /\ buffer' = buffer
      BY <1>1, <2>2 DEF Commit
    <3>2. {o} \in SUBSET Ops /\ <<{o}>> \in Seq(SUBSET Ops) /\ <<{o}>>[1] = {o}
          /\ Len(<<{o}>>) = 1
      BY DEF Ops, MyOps
    <3>3. \A i \in 1..Len(pending') : \/ \E j \in 1..Len(pending) : pending'[i] = pending[j]
                                      \/ \E j \in 1..1 : pending'[i].ops = <<{o}>>[j]
      BY <3>1, <3>2, EnqueueFacts
    <3>4. Queued'
      BY <1>0, <2>1, <3>2, <3>3
    <3> QED BY <1>0, <2>1, <3>1, <3>4 DEF Owned
  <2>3. CASE ~slot
    <3>1. buffer' = Append(buffer, {o}) /\ pending' = pending
      BY <1>1, <2>3 DEF Commit
    <3>2. Held'
      BY <1>0, <2>1, <3>1 DEF Shape
    <3> QED BY <1>0, <2>1, <3>1, <3>2 DEF Owned
  <2> QED BY <2>2, <2>3
<1>2. CASE UNCHANGED <<doc, saved, pending, buffer, up>>
  BY <1>2 DEF Owned
<1>3. CASE SavePlain
  BY <1>3 DEF SavePlain, Owned, Shape
<1>4. CASE Dial
  <2>1. up' = <<[t |-> "hello"]>> /\ UNCHANGED <<doc, saved, pending, buffer>>
    BY <1>4 DEF Dial
  <2>2. \A i \in 1..Len(up') : up'[i].t # "push"
    BY <2>1
  <2> QED BY <1>0, <2>1, <2>2 DEF Owned
<1>5. CASE RecvState
  <2>1. /\ up' = up \/ \E n : up' = Append(up, RowsReq(n))
        /\ UNCHANGED <<doc, saved, pending, buffer>>
    BY <1>5 DEF RecvState
  <2>2. Pushed'
    <3>1. ASSUME NEW n
          PROVE  /\ Len(Append(up, RowsReq(n))) = Len(up) + 1 /\ Len(up) \in Nat
                 /\ \A i \in 1..Len(up) : Append(up, RowsReq(n))[i] = up[i]
                 /\ Append(up, RowsReq(n))[Len(up) + 1].t # "push"
      <4>1. RowsReq(n).t = "rows_req"
        BY DEF RowsReq
      <4> QED BY <4>1 DEF Shape
    <3>2. ASSUME NEW n, NEW i \in 1..Len(Append(up, RowsReq(n))),
                 Append(up, RowsReq(n))[i].t = "push"
          PROVE  i \in 1..Len(up)
      BY <3>1, <3>2
    <3> QED BY <1>0, <2>1, <3>1, <3>2
  <2> QED BY <1>0, <2>1, <2>2 DEF Owned
<1>6. CASE FetchCheckpoint
  <2>1. /\ up' = Append(up, RowsReq(wanted)) /\ UNCHANGED <<pending, buffer>>
        /\ doc \subseteq doc' /\ saved'.doc = doc'
    BY <1>6 DEF FetchCheckpoint, PersistWithCursor
  <2>2. Pushed'
    <3>1. ASSUME NEW n
          PROVE  /\ Len(Append(up, RowsReq(n))) = Len(up) + 1 /\ Len(up) \in Nat
                 /\ \A i \in 1..Len(up) : Append(up, RowsReq(n))[i] = up[i]
                 /\ Append(up, RowsReq(n))[Len(up) + 1].t # "push"
      <4>1. RowsReq(n).t = "rows_req"
        BY DEF RowsReq
      <4> QED BY <4>1 DEF Shape
    <3>2. ASSUME NEW n, NEW i \in 1..Len(Append(up, RowsReq(n))),
                 Append(up, RowsReq(n))[i].t = "push"
          PROVE  i \in 1..Len(up)
      BY <3>1, <3>2
    <3> QED BY <1>0, <2>1, <3>1, <3>2
  <2> QED BY <1>0, <2>1, <2>2 DEF Owned
<1>7. CASE FetchMissing \/ Drop \/ Wipe
  <2>1. up' = <<>> /\ UNCHANGED <<doc, saved, pending, buffer>>
    BY <1>7, SessionFacts DEF FetchMissing, Drop, Wipe
  <2> QED BY <1>0, <2>1 DEF Owned
<1>8. CASE RecvRow
  <2>1. /\ UNCHANGED <<pending, buffer, up>>
        /\ doc \subseteq doc' /\ saved'.doc = doc'
    BY <1>8 DEF RecvRow, PersistWithCursor
  <2> QED BY <1>0, <2>1 DEF Owned
<1>9. CASE RecvRowsDone \/ PushPending \/ PushHead
  <2> DEFINE b == IF PushHead
                  THEN IF pending = <<>> THEN <<>> ELSE <<Head(pending)>>
                  ELSE pending
  <2>1. b \in Seq(Batch) /\ \A i \in 1..Len(b) : b[i].ops \subseteq doc
    BY <1>0 DEF Shape
  <2>2. up' = up \o PushFrames(b) /\ UNCHANGED <<doc, saved, pending, buffer>>
    BY <1>9 DEF RecvRowsDone, PushPending, PushHead
  <2>3. /\ PushFrames(b) \in Seq(UpFrame)
        /\ \A i \in 1..Len(PushFrames(b)) : PushFrames(b)[i].ops \subseteq doc
    BY <2>1, PushFramesFacts
  <2> HIDE DEF b
  <2>4. Pushed'
    <3>1. /\ \A i \in 1..Len(up) : up'[i] = up[i]
          /\ \A i \in 1..Len(up') : i \notin 1..Len(up) =>
               i - Len(up) \in 1..Len(PushFrames(b)) /\ up'[i] = PushFrames(b)[i - Len(up)]
      BY <2>2, <2>3 DEF Shape
    <3> QED BY <1>0, <2>2, <2>3, <3>1
  <2> QED BY <1>0, <2>2, <2>4 DEF Owned
<1>10. CASE RecvAck \/ RecvError
  <2>1. /\ pending' = pending \/ pending' = Without(pending, Head(down).id)
        /\ UNCHANGED <<doc, buffer, up>>
        /\ saved'.doc = doc \/ saved' = saved
    BY <1>10 DEF RecvAck, RecvError, PersistWithCursor
  <2>2. \A i \in 1..Len(pending') : \E j \in 1..Len(pending) : pending'[i] = pending[j]
    BY <2>1, WithoutFacts DEF Shape
  <2>3. Queued'
    BY <1>0, <2>1, <2>2
  <2> QED BY <1>0, <2>1, <2>3 DEF Owned
<1>11. CASE Install
  <2>1. Enqueue(buffer) /\ buffer' = <<>> /\ UNCHANGED <<doc, saved, up>>
    BY <1>11 DEF Install
  <2>2. \A i \in 1..Len(pending') : \/ \E j \in 1..Len(pending) : pending'[i] = pending[j]
                                    \/ \E j \in 1..Len(buffer) : pending'[i].ops = buffer[j]
    BY <2>1, EnqueueFacts DEF Shape
  <2>3. Queued'
    BY <1>0, <2>1, <2>2
  <2> QED BY <1>0, <2>1, <2>3 DEF Owned
<1>12. CASE Server
  <2>1. up # <<>> /\ up' = Tail(up) /\ UNCHANGED <<doc, saved, pending, buffer>>
    BY <1>12 DEF Server, ServeHello, ServeRows, ServePush
  <2>2. Pushed'
    BY <1>0, <2>1, QueueFacts DEF Shape
  <2> QED BY <1>0, <2>1, <2>2 DEF Owned
<1>13. CASE CrashAndReopen
  <2>1. /\ doc' = saved.doc /\ saved' = saved /\ pending' = <<>> /\ up' = <<>>
        /\ buffer' = <<>> \/ buffer' = <<saved.doc>>
    BY <1>13 DEF CrashAndReopen, FirstContact
  <2>2. Held'
    BY <2>1
  <2> QED BY <2>1, <2>2 DEF Owned
<1>14. ASSUME NEW o \in PeerOps, PeerPush(o) PROVE Owned'
  BY <1>2, <1>14 DEF PeerPush
<1>15. CASE SkipStale \/ HandleEvent \/ Bootstrap \/ Maintain \/ PostLands \/ PostFails
  <2>1. UNCHANGED <<doc, saved, pending, buffer, up>>
    BY <1>15 DEF SkipStale, HandleEvent, Bootstrap, Maintain, PostLands, PostFails
  <2> QED BY <1>2, <2>1
<1> QED BY <1>1, <1>3, <1>4, <1>5, <1>6, <1>7, <1>8, <1>9, <1>10, <1>11, <1>12, <1>13, <1>14,
           <1>15 DEF SyncNext, Client, HostTasks


LEMMA CkptStep ==
    ASSUME Shape, down' \in Seq(DownFrame), Link, Link', Life, Owned, Ckpt, SyncNext
    PROVE  Ckpt'
<1> USE DEF clientVars, hostVars, netVars, syncHist, faultVars
<1> DEFINE States == \A k \in 1..Len(down) : down[k].t = "state" =>
                       /\ room.ckpt.ops \subseteq doc \cup down[k].ckpt.ops
                       /\ down[k].ckpt.seq <= room.floor
                       /\ down[k].head <= Len(room.rows)
                       /\ ~down[k].ckpt.there => down[k].ckpt.ops = {}
<1>0. States
  BY DEF Ckpt
<1>1. ASSUME UNCHANGED <<room, phase, joined, posting, wanted>>, doc \subseteq doc', States'
      PROVE  Ckpt'
  BY <1>1 DEF Ckpt
<1>2. ASSUME UNCHANGED <<room, down>>, doc \subseteq doc' PROVE States'
  BY <1>0, <1>2
<1>3. ASSUME UNCHANGED room, doc \subseteq doc', down # <<>>, down' = Tail(down) PROVE States'
  <2>1. \A k \in 1..Len(down') : down'[k] = down[k + 1] /\ k + 1 \in 1..Len(down)
    BY <1>3, QueueFacts DEF Shape
  <2> QED BY <1>0, <1>3, <2>1
<1>4. ASSUME NEW o \in LocalOps, Commit(o) PROVE Ckpt'
  <2>1. UNCHANGED <<room, down, phase, joined, posting, wanted>> /\ doc \subseteq doc'
    BY <1>4 DEF Commit
  <2> QED BY <1>1, <1>2, <2>1
<1>5. CASE SavePlain \/ PushPending \/ PushHead \/ Install
  <2>1. UNCHANGED <<room, down, phase, joined, posting, wanted>> /\ doc \subseteq doc'
    BY <1>5 DEF SavePlain, PushPending, PushHead, Install
  <2> QED BY <1>1, <1>2, <2>1
<1>6. CASE SkipStale \/ RecvRow \/ RecvAck \/ RecvError
  <2>1. /\ UNCHANGED <<room, phase, joined, posting, wanted>> /\ doc \subseteq doc'
        /\ down # <<>> /\ down' = Tail(down)
    BY <1>6 DEF SkipStale, RecvRow, RecvAck, RecvError
  <2> QED BY <1>1, <1>3, <2>1
<1>7. CASE RecvRowsDone
  <2>1. /\ UNCHANGED <<room, posting, wanted, doc>> /\ phase = "backfill" /\ phase' = "open"
        /\ down # <<>> /\ down' = Tail(down)
    BY <1>7 DEF RecvRowsDone
  <2>2. States'
    BY <1>3, <2>1
  <2> QED BY <2>1, <2>2 DEF Ckpt
<1>8. CASE Dial
  <2>1. UNCHANGED <<room, down, joined, posting, doc>> /\ phase' = "hello"
    BY <1>8 DEF Dial
  <2>2. States'
    BY <1>2, <2>1
  <2> QED BY <2>1, <2>2 DEF Ckpt
<1>9. CASE RecvState
  <2> DEFINE st   == Head(down)
             plan == PlanCatchUp(cursor, st, st.ckpt.ops \subseteq doc)
  <2>1. /\ down # <<>> /\ down' = Tail(down) /\ st.t = "state" /\ wanted' = plan.after
        /\ UNCHANGED <<room, doc, joined, posting>>
        /\ \/ plan.fetch /\ phase' = "fetch"
           \/ ~plan.fetch /\ phase' = "backfill"
    BY <1>9 DEF RecvState
  <2>2. States'
    BY <1>3, <2>1
  <2>3. /\ room.ckpt.ops \subseteq doc \cup st.ckpt.ops /\ st.ckpt.seq <= room.floor
        /\ st.head \in Nat /\ st.ckpt \in Post
        /\ ~st.ckpt.there => st.ckpt.ops = {}
    <3>1. down[1] = st /\ 1 \in 1..Len(down) /\ st \in DownFrame
      BY <2>1, DownHead, QueueFacts DEF Shape
    <3> HIDE DEF st
    <3> QED BY <1>0, <2>1, <3>1, FrameFacts
  <2>4. /\ plan.fetch => plan.after = st.ckpt.seq
        /\ ~plan.fetch => ~st.ckpt.there \/ st.ckpt.ops \subseteq doc
    <3>1. cursor \in Nat
      BY DEF Shape
    <3> HIDE DEF st
    <3> QED BY ONLY <2>3, <3>1, PlanFacts
  <2> HIDE DEF plan
  <2>5. CASE plan.fetch /\ phase' = "fetch"
    BY <2>1, <2>2, <2>3, <2>4, <2>5 DEF Ckpt
  <2>6. CASE ~plan.fetch /\ phase' = "backfill"
    <3>1. room.ckpt.ops \subseteq doc
      BY <2>3, <2>4, <2>6
    <3> QED BY <2>1, <2>2, <2>6, <3>1 DEF Ckpt
  <2> QED BY <2>1, <2>5, <2>6
<1>10. CASE FetchCheckpoint
  <2>1. /\ UNCHANGED <<room, down, posting, joined>> /\ doc' = doc \cup room.ckpt.ops
        /\ phase' = "backfill"
    BY <1>10 DEF FetchCheckpoint
  <2>2. States'
    BY <1>2, <2>1
  <2> QED BY <2>1, <2>2 DEF Ckpt
<1>11. CASE FetchMissing \/ Drop
  <2>1. /\ phase' = "down" /\ down' = <<>>
        /\ UNCHANGED <<room, doc, posting, joined>>
    BY <1>11, SessionFacts DEF FetchMissing, Drop
  <2> QED BY <2>1 DEF Ckpt
<1>12. CASE Wipe
  <2>1. /\ phase' = "down" /\ down' = <<>> /\ room' = NewRoom
        /\ UNCHANGED <<doc, posting, joined>>
    BY <1>12, SessionFacts DEF Wipe
  <2>2. /\ room'.floor = 0 /\ room'.rows = <<>> /\ ~room'.ckpt.there /\ room'.ckpt.ops = {}
        /\ room'.ckpt.seq = 0
    BY <2>1 DEF NewRoom, NoPost
  <2> QED BY <2>1, <2>2 DEF Ckpt
<1>13. CASE HandleEvent \/ Bootstrap \/ Maintain
  <2>1. /\ posting' = posting \/ posting' = Snapshot
        /\ UNCHANGED <<room, doc, phase, joined, wanted, down>>
    BY <1>13 DEF HandleEvent, Bootstrap, Maintain, StartPost
  <2>2. room.ckpt.ops \subseteq doc
    BY <1>13 DEF HandleEvent, Bootstrap, Maintain, Life, Ckpt
  <2>3. posting'.there => room.ckpt.ops \subseteq posting'.ops /\ posting'.ops \subseteq doc
    BY <2>1, <2>2 DEF Snapshot, Ckpt
  <2> QED BY <1>0, <2>1, <2>2, <2>3 DEF Ckpt
<1>14. CASE PostLands
  <2>1. /\ posting.there /\ posting.seq <= Len(room.rows)
        /\ room.ckpt.there => posting.seq >= room.ckpt.seq
        /\ posting' = NoPost /\ UNCHANGED <<doc, phase, joined, wanted, down>>
        /\ room' = [room EXCEPT !.ckpt = posting, !.floor = posting.seq]
    BY <1>14 DEF PostLands, Accepts, HeadSeq
  <2>2. /\ room'.ckpt = posting /\ room'.floor = posting.seq /\ room'.rows = room.rows
        /\ posting.seq \in Nat /\ room.floor \in Nat
    BY <2>1, RoomFacts DEF Shape, Room, Post
  <2>3. room.floor <= posting.seq /\ posting.ops \subseteq doc
    BY <2>1, <2>2 DEF Ckpt
  <2>4. ~posting'.there
    BY <2>1 DEF NoPost
  <2>5. States'
    <3> SUFFICES ASSUME NEW k \in 1..Len(down), down[k].t = "state"
                 PROVE  /\ posting.ops \subseteq doc \cup down[k].ckpt.ops
                        /\ down[k].ckpt.seq <= posting.seq
                        /\ down[k].head <= Len(room.rows)
                        /\ ~down[k].ckpt.there => down[k].ckpt.ops = {}
      BY <2>1, <2>2
    <3>1. down[k].ckpt.seq \in Nat
      BY FrameFacts DEF Shape, Post
    <3> QED BY <1>0, <2>2, <2>3, <3>1
  <2>6. phase = "fetch" => wanted <= posting.seq
    BY <2>2, <2>3 DEF Ckpt, Shape
  <2> QED BY <2>1, <2>2, <2>3, <2>4, <2>5, <2>6 DEF Ckpt
<1>15. CASE PostFails
  <2>1. posting' = NoPost /\ UNCHANGED <<room, doc, phase, joined, wanted, down>>
    BY <1>15 DEF PostFails
  <2>2. ~posting'.there
    BY <2>1 DEF NoPost
  <2> QED BY <1>0, <2>1, <2>2 DEF Ckpt
<1>16. CASE ServeHello
  <2> DEFINE st == [t |-> "state", head |-> HeadSeq, ckpt |-> room.ckpt,
                    rowCount |-> HeadSeq - room.floor]
  <2>1. PICK early \in {<<>>, <<[t |-> "presence"]>>} : down' = down \o early \o <<st>>
    BY <1>16 DEF ServeHello
  <2>2. down = <<>> /\ UNCHANGED <<room, doc, phase, joined, wanted, posting>>
    BY <1>16, UpHead DEF ServeHello
  <2>3. /\ st.head = Len(room.rows) /\ st.ckpt = room.ckpt /\ Len(room.rows) \in Nat
        /\ room.ckpt.seq = room.floor /\ room.floor \in Nat
        /\ ~room.ckpt.there => room.ckpt.ops = {}
    BY RoomFacts DEF Shape, Ckpt
  <2> HIDE DEF st
  <2>4. \A k \in 1..Len(down') : down'[k] = st \/ down'[k].t = "presence"
    <3>1. CASE early = <<>>
      BY <2>1, <2>2, <3>1
    <3>2. CASE early = <<[t |-> "presence"]>>
      BY <2>1, <2>2, <3>2
    <3> QED BY <3>1, <3>2
  <2>5. States'
    BY <2>2, <2>3, <2>4
  <2> QED BY <1>1, <2>2, <2>5
<1>17. CASE ServeRows
  <2>1. UNCHANGED <<room, doc, phase, joined, wanted, posting>>
    BY <1>17 DEF ServeRows
  <2>2. States'
    <3>1. up # <<>> /\ Head(up).t = "rows_req"
      BY <1>17 DEF ServeRows
    <3>2. phase' = "backfill"
      BY <2>1, <3>1, UpHead
    <3>3. down' = <<>> \/ \A k \in 1..Len(down') : down'[k].t \in {"row", "done"}
      BY <3>2 DEF Link
    <3> QED BY <3>3
  <2> QED BY <1>1, <2>1, <2>2
<1>18. ASSUME NEW r \in Row, NEW f \in DownFrame,
              room' = [room EXCEPT !.rows = Append(@, r)] \/ room' = room,
              down' = down \/ down' = Append(down, f), f.t # "state",
              UNCHANGED <<doc, phase, joined, wanted, posting>>
       PROVE  Ckpt'
  <2>1. /\ room'.ckpt = room.ckpt /\ room'.floor = room.floor
        /\ Len(room.rows) <= Len(room'.rows) /\ Len(room.rows) \in Nat /\ Len(room'.rows) \in Nat
    <3>1. /\ room.rows \in Seq(Row)
          /\ LET new == [room EXCEPT !.rows = Append(@, r)]
             IN  new.rows = Append(room.rows, r) /\ new.floor = room.floor /\ new.ckpt = room.ckpt
      BY RoomFacts DEF Shape
    <3>2. Len(Append(room.rows, r)) = Len(room.rows) + 1 /\ Len(room.rows) \in Nat
      BY <3>1, SeqFacts
    <3>3. CASE room' = room
      BY <3>2, <3>3
    <3>4. CASE room' = [room EXCEPT !.rows = Append(@, r)]
      <4>1. /\ room'.rows = Append(room.rows, r)
            /\ room'.ckpt = room.ckpt /\ room'.floor = room.floor
        BY <3>1, <3>4
      <4> QED BY <3>2, <4>1
    <3> QED BY <1>18, <3>3, <3>4
  <2>2. ASSUME NEW k \in 1..Len(down'), down'[k].t = "state"
        PROVE  k \in 1..Len(down) /\ down'[k] = down[k]
    <3>1. /\ Len(Append(down, f)) = Len(down) + 1 /\ Len(down) \in Nat
          /\ \A i \in 1..Len(down) : Append(down, f)[i] = down[i]
          /\ Append(down, f)[Len(down) + 1] = f
      BY SeqFacts DEF Shape
    <3> QED BY <1>18, <2>2, <3>1
  <2>3. States'
    <3> SUFFICES ASSUME NEW k \in 1..Len(down'), down'[k].t = "state"
                 PROVE  /\ room.ckpt.ops \subseteq doc \cup down'[k].ckpt.ops
                        /\ down'[k].ckpt.seq <= room.floor
                        /\ down'[k].head <= Len(room'.rows)
                        /\ ~down'[k].ckpt.there => down'[k].ckpt.ops = {}
      BY <1>18, <2>1
    <3>1. down'[k] = down[k] /\ k \in 1..Len(down) /\ down[k].t = "state" /\ down[k].head \in Nat
      BY <2>2, FrameFacts DEF Shape
    <3> QED BY <1>0, <2>1, <3>1
  <2>4. room.floor <= Len(room'.rows)
    BY <2>1 DEF Ckpt, Shape, Room
  <2> QED BY <1>18, <2>1, <2>3, <2>4 DEF Ckpt
<1>19. CASE ServePush
  <2> DEFINE push == Head(up)
             new  == [ops |-> push.ops, own |-> TRUE, id |-> push.id]
  <2>1. /\ room' = [room EXCEPT !.rows = Append(@, new)] \/ room' = room
        /\ \E f : down' = Append(down, f) /\ f.t # "state"
        /\ UNCHANGED <<doc, phase, joined, wanted, posting>>
    BY <1>19 DEF ServePush
  <2>3. PICK f : down' = Append(down, f) /\ f.t # "state"
    BY <2>1
  <2>4. f \in DownFrame
    <3>1. down'[Len(down) + 1] = f /\ Len(down) + 1 \in 1..Len(down')
      BY <2>3 DEF Shape
    <3> QED BY <3>1 DEF Shape
  <2>2. new \in Row
    BY <1>19, QueueFacts, FrameFacts DEF ServePush, Row, Shape
  <2> HIDE DEF new
  <2> QED BY <1>18, <2>1, <2>2, <2>3, <2>4
<1>20. ASSUME NEW o \in PeerOps, PeerPush(o) PROVE Ckpt'
  <2> DEFINE new == [ops |-> {o}, own |-> FALSE, id |-> 0]
             f   == [t |-> "row", seq |-> HeadSeq + 1, ops |-> {o}]
  <2>1. /\ room' = [room EXCEPT !.rows = Append(@, new)]
        /\ down' = down \/ down' = Append(down, f)
        /\ f.t # "state"
        /\ UNCHANGED <<doc, phase, joined, wanted, posting>>
    BY <1>20 DEF PeerPush
  <2>2. new \in Row /\ f \in DownFrame
    <3>1. {o} \in SUBSET Ops
      BY DEF Ops
    <3>2. HeadSeq + 1 \in Nat
      BY HeadFacts
    <3>3. new \in Row
      BY <3>1 DEF Row
    <3>4. f \in DownFrame
      BY <3>1, <3>2, FrameTypes
    <3> QED BY <3>3, <3>4
  <2> HIDE DEF new, f
  <2> QED BY <1>18, <2>1, <2>2
<1>21. CASE CrashAndReopen
  <2>1. /\ phase' = "down" /\ down' = <<>> /\ joined' = FALSE /\ posting' = NoPost
        /\ room' = room
    BY <1>21 DEF CrashAndReopen
  <2>2. ~posting'.there
    BY <2>1 DEF NoPost
  <2> QED BY <2>1, <2>2 DEF Ckpt
<1> QED BY <1>4, <1>5, <1>6, <1>7, <1>8, <1>9, <1>10, <1>11, <1>12, <1>13, <1>14, <1>15,
           <1>16, <1>17, <1>19, <1>20, <1>21 DEF SyncNext, Client, HostTasks, Server

\* The log keeps its rows and gets at most one more.
Grows == \/ room'.rows = room.rows
         \/ \E r \in Row : room'.rows = Append(room.rows, r)

\* A held prefix stays held while the log grows.
LEMMA GrowKeeps ==
    ASSUME Shape, Grows, NEW D, NEW E, D \subseteq E, NEW n \in Nat, Covers(D, room.rows, n)
    PROVE  Covers(E, room'.rows, n)
<1>1. room.rows \in Seq(Row)
  BY RoomFacts DEF Shape
<1>2. Covers(D, room'.rows, n)
  BY <1>1, CoversFacts DEF Grows
<1>3. \A i \in 1..n : room'.rows[i].ops \subseteq E
  BY <1>2 DEF Covers
<1> QED BY <1>2, <1>3 DEF Covers

\* A push adds at most one row, of this device.
LEMMA ServeFacts ==
    ASSUME Shape, ServePush
    PROVE  /\ up # <<>> /\ Head(up).t = "push" /\ up' = Tail(up)
           /\ \/ UNCHANGED room
              \/ LET new == [ops |-> Head(up).ops, own |-> TRUE, id |-> Head(up).id]
                 IN  new \in Row /\ room' = [room EXCEPT !.rows = Append(@, new)]
           /\ UNCHANGED <<doc, saved, cursor, opened, pending, phase, joined, resumed, posting,
                          relayed, era, wipes, fooled>>
<1>1. /\ up # <<>> /\ Head(up).t = "push" /\ up' = Tail(up)
      /\ UNCHANGED <<doc, saved, cursor, opened, pending, phase, joined, resumed, posting,
                     relayed, era, wipes, fooled>>
      /\ UNCHANGED room
         \/ room' = [room EXCEPT !.rows = Append(@, [ops |-> Head(up).ops, own |-> TRUE,
                                                     id |-> Head(up).id])]
  BY DEF ServePush, clientVars, hostVars, syncHist
<1>2. Head(up).ops \in SUBSET Ops /\ Head(up).id \in Nat
  BY <1>1, QueueFacts, FrameFacts DEF Shape
<1>3. [ops |-> Head(up).ops, own |-> TRUE, id |-> Head(up).id] \in Row
  BY <1>2 DEF Row
<1> QED BY <1>1, <1>3

\* Another device's batch adds a row and, on a live socket, its frame.
LEMMA PeerFacts ==
    ASSUME Shape, NEW o \in PeerOps, PeerPush(o)
    PROVE  LET new == [ops |-> {o}, own |-> FALSE, id |-> 0]
               f   == [t |-> "row", seq |-> HeadSeq + 1, ops |-> {o}]
           IN  /\ new \in Row /\ room' = [room EXCEPT !.rows = Append(@, new)]
               /\ f \in DownFrame
               /\ down' = IF relayed THEN Append(down, f) ELSE down
               /\ UNCHANGED <<doc, saved, cursor, opened, pending, phase, joined, resumed,
                              posting, up, relayed, era, wipes, fooled>>
<1>1. {o} \in SUBSET Ops
  BY DEF Ops
<1>2. HeadSeq + 1 \in Nat
  BY HeadFacts
<1>3. [ops |-> {o}, own |-> FALSE, id |-> 0] \in Row
  BY <1>1 DEF Row
<1>4. [t |-> "row", seq |-> HeadSeq + 1, ops |-> {o}] \in DownFrame
  BY <1>1, <1>2, FrameTypes
<1> QED BY <1>3, <1>4 DEF PeerPush, clientVars, hostVars, syncHist, faultVars

\* A new row leaves the rest of the room alone.
LEMMA AppendsRow ==
    ASSUME Shape, NEW r \in Row, room' = [room EXCEPT !.rows = Append(@, r)]
    PROVE  /\ Grows /\ room'.rows = Append(room.rows, r)
           /\ room'.ckpt = room.ckpt /\ room'.floor = room.floor
<1>1. LET new == [room EXCEPT !.rows = Append(@, r)]
      IN  new.rows = Append(room.rows, r) /\ new.floor = room.floor /\ new.ckpt = room.ckpt
  BY RoomFacts DEF Shape
<1> QED BY <1>1 DEF Grows

\* No step puts a cursor ahead of its document.
LEMMA CoverStep ==
    ASSUME Shape, Link, Link', Life, Owned, Ckpt, Cover, Flow, ~fooled', SyncNext
    PROVE  Cover'
<1> USE DEF clientVars, hostVars, netVars, syncHist, faultVars
<1> DEFINE States == \A k \in 1..Len(down) : down[k].t = "state" =>
                       Covers(down[k].ckpt.ops, room.rows, down[k].ckpt.seq)
           Reqs   == \A k \in 1..Len(up) : up[k].t = "rows_req" =>
                       Covers(doc, room.rows, up[k].after) /\ (up[k].excludeOwn => resumed)
           Cursors == /\ era = wipes => Covers(doc, room.rows, cursor)
                      /\ opened.era = wipes => Covers(doc, room.rows, opened.cursor)
                      /\ saved.era = wipes => Covers(saved.doc, room.rows, saved.cursor)
           Posts   == /\ Covers(room.ckpt.ops, room.rows, room.floor)
                      /\ posting.there /\ posting.era = wipes =>
                           Covers(posting.ops, room.rows, posting.seq)
<1>0. States /\ Reqs /\ Cursors /\ Posts
  BY DEF Cover
<1>parts. ASSUME Posts', Cursors', States', Reqs' PROVE Cover'
  BY <1>parts DEF Cover
<1>types. /\ room.rows \in Seq(Row) /\ room.floor \in Nat /\ room.ckpt \in Post
      /\ cursor \in Nat /\ opened.cursor \in Nat /\ saved.cursor \in Nat /\ posting.seq \in Nat
      /\ era \in Nat /\ wipes \in Nat /\ opened.era \in Nat /\ saved.era \in Nat
      /\ posting.era \in Nat
  BY RoomFacts DEF Shape, Post
<1>1. ASSUME Grows, UNCHANGED <<posting, wipes>>, room'.ckpt = room.ckpt,
             room'.floor = room.floor
      PROVE  Posts'
  BY <1>0, <1>1, <1>types, GrowKeeps
<1>2. ASSUME Grows, UNCHANGED <<cursor, era, opened, saved, wipes>>, doc \subseteq doc'
      PROVE  Cursors'
  BY <1>0, <1>2, <1>types, GrowKeeps
<1>3. ASSUME Grows,
             \A k \in 1..Len(down') : down'[k].t = "state" =>
               \E j \in 1..Len(down) : down'[k] = down[j]
      PROVE  States'
  <2> SUFFICES ASSUME NEW k \in 1..Len(down'), down'[k].t = "state"
               PROVE  Covers(down'[k].ckpt.ops, room'.rows, down'[k].ckpt.seq)
    OBVIOUS
  <2>1. PICK j \in 1..Len(down) : down'[k] = down[j]
    BY <1>3
  <2>2. down[j] \in DownFrame /\ down[j].t = "state"
    BY <2>1 DEF Shape
  <2>3. down[j].ckpt.seq \in Nat
    BY <2>2, FrameFacts DEF Post
  <2>4. Covers(down[j].ckpt.ops, room.rows, down[j].ckpt.seq)
    BY <1>0, <2>2
  <2> QED BY <1>3, <2>1, <2>3, <2>4, GrowKeeps
<1>4. ASSUME Grows, doc \subseteq doc', resumed => resumed',
             \A k \in 1..Len(up') : up'[k].t = "rows_req" =>
               \E j \in 1..Len(up) : up'[k] = up[j]
      PROVE  Reqs'
  <2> SUFFICES ASSUME NEW k \in 1..Len(up'), up'[k].t = "rows_req"
               PROVE  Covers(doc', room'.rows, up'[k].after) /\ (up'[k].excludeOwn => resumed')
    OBVIOUS
  <2>1. PICK j \in 1..Len(up) : up'[k] = up[j]
    BY <1>4
  <2>2. /\ Covers(doc, room.rows, up[j].after) /\ up[j].after \in Nat
        /\ up[j].excludeOwn => resumed
    BY <1>0, <2>1, FrameFacts DEF Shape
  <2>3. Covers(doc', room'.rows, up[j].after)
    BY <1>4, <2>2, GrowKeeps
  <2> QED BY <1>4, <2>1, <2>2, <2>3
<1>5. ASSUME UNCHANGED down
      PROVE  \A k \in 1..Len(down') : down'[k].t = "state" =>
               \E j \in 1..Len(down) : down'[k] = down[j]
  BY <1>5
<1>6. ASSUME down # <<>>, down' = Tail(down)
      PROVE  \A k \in 1..Len(down') : down'[k].t = "state" =>
               \E j \in 1..Len(down) : down'[k] = down[j]
  <2>1. \A k \in 1..Len(down') : down'[k] = down[k + 1] /\ k + 1 \in 1..Len(down)
    BY <1>6, QueueFacts DEF Shape
  <2> QED BY <2>1
<1>7. ASSUME UNCHANGED up
      PROVE  \A k \in 1..Len(up') : up'[k].t = "rows_req" =>
               \E j \in 1..Len(up) : up'[k] = up[j]
  BY <1>7
<1>8. ASSUME UNCHANGED room PROVE Grows
  BY <1>8 DEF Grows
<1>served. ASSUME phase' \in {"backfill", "open"} PROVE States'
  <2>1. down' = <<>> \/ \A k \in 1..Len(down') : down'[k].t \in {"row", "done", "ack", "error"}
    BY <1>served DEF Link
  <2> QED BY <2>1
<1> HIDE DEF States, Reqs, Cursors, Posts
<1>9. ASSUME NEW o \in LocalOps, Commit(o) PROVE Cover'
  <2>1. /\ UNCHANGED <<room, down, up, resumed, posting, cursor, era, opened, saved, wipes>>
        /\ doc \subseteq doc'
    BY <1>9 DEF Commit
  <2> QED BY <1>parts, <1>1, <1>2, <1>3, <1>4, <1>5, <1>7, <1>8, <2>1
<1>10. CASE Install
  <2>1. UNCHANGED <<doc, room, down, up, resumed, posting, cursor, era, opened, saved, wipes>>
    BY <1>10 DEF Install
  <2> QED BY <1>parts, <1>1, <1>2, <1>3, <1>4, <1>5, <1>7, <1>8, <2>1
<1>11. CASE SkipStale \/ RecvError
  <2>1. /\ UNCHANGED <<doc, room, up, resumed, posting, cursor, era, opened, saved, wipes>>
        /\ down # <<>> /\ down' = Tail(down)
    BY <1>11 DEF SkipStale, RecvError
  <2> QED BY <1>parts, <1>1, <1>2, <1>3, <1>4, <1>6, <1>7, <1>8, <2>1
<1>12. CASE Dial
  <2>1. /\ UNCHANGED <<doc, room, down, resumed, posting, cursor, era, opened, saved, wipes>>
        /\ up' = <<[t |-> "hello"]>>
    BY <1>12 DEF Dial
  <2>2. Reqs'
    BY <2>1 DEF Reqs
  <2> QED BY <1>parts, <1>1, <1>2, <1>3, <1>5, <1>8, <2>1, <2>2
<1>13. CASE PushPending \/ PushHead \/ RecvRowsDone
  <2> DEFINE b == IF PushHead
                  THEN IF pending = <<>> THEN <<>> ELSE <<Head(pending)>>
                  ELSE pending
  <2>1. b \in Seq(Batch)
    BY DEF Shape
  <2>2. /\ up' = up \o PushFrames(b)
        /\ resumed => resumed'
        /\ UNCHANGED <<doc, room, posting, cursor, era, opened, saved, wipes>>
        /\ UNCHANGED down \/ (down # <<>> /\ down' = Tail(down))
    BY <1>13 DEF RecvRowsDone, PushPending, PushHead, Shape
  <2>3. /\ PushFrames(b) \in Seq(UpFrame)
        /\ \A i \in 1..Len(PushFrames(b)) : PushFrames(b)[i].t = "push"
    BY <2>1, PushFramesFacts
  <2> HIDE DEF b
  <2>4. \A k \in 1..Len(up') : up'[k].t = "rows_req" => \E j \in 1..Len(up) : up'[k] = up[j]
    <3>1. /\ \A i \in 1..Len(up) : up'[i] = up[i]
          /\ \A i \in 1..Len(up') : i \notin 1..Len(up) =>
               i - Len(up) \in 1..Len(PushFrames(b)) /\ up'[i] = PushFrames(b)[i - Len(up)]
      <4>1. up \in Seq(UpFrame) /\ up' = up \o PushFrames(b)
        BY <2>2 DEF Shape
      <4> QED BY <2>3, <4>1, ConcatFacts
    <3>2. ASSUME NEW k \in 1..Len(up'), up'[k].t = "rows_req" PROVE k \in 1..Len(up)
      <4>1. CASE k \notin 1..Len(up)
        <5>1. up'[k].t = "push"
          BY <2>3, <3>1, <4>1
        <5> QED BY <3>2, <5>1
      <4> QED BY <4>1
    <3> QED BY <3>1, <3>2
  <2> QED BY <1>parts, <1>1, <1>2, <1>3, <1>4, <1>5, <1>6, <1>8, <2>2, <2>4
<1>14. CASE SavePlain
  <2>1. /\ UNCHANGED <<doc, room, down, up, resumed, posting, cursor, era, opened, wipes>>
        /\ saved'.doc = doc /\ saved'.cursor = saved.cursor /\ saved'.era = saved.era
    BY <1>14 DEF SavePlain, Shape
  <2>2. saved.doc \subseteq doc
    BY DEF Owned
  <2>3. Cursors'
    BY <1>0, <1>types, <2>1, <2>2, CoversFacts DEF Cursors
  <2> QED BY <1>parts, <1>1, <1>3, <1>4, <1>5, <1>7, <1>8, <2>1, <2>3
<1>15. CASE RecvState
  <2> DEFINE st   == Head(down)
             plan == PlanCatchUp(cursor, st, st.ckpt.ops \subseteq doc)
  <2>1. /\ down # <<>> /\ down' = Tail(down) /\ st.t = "state"
        /\ UNCHANGED <<room, doc, resumed, posting, opened, saved, wipes>>
        /\ \/ plan.fetch /\ UNCHANGED <<cursor, up, era>>
           \/ /\ ~plan.fetch /\ era' = wipes
              /\ cursor' = IF plan.after < cursor THEN plan.after ELSE cursor
              /\ up' = Append(up, RowsReq(plan.after))
        /\ era = wipes \/ ~(cursor <= st.head)
    BY <1>15 DEF RecvState
  <2>2. States' /\ Posts'
    BY <1>1, <1>3, <1>6, <1>8, <2>1
  <2>3. CASE UNCHANGED <<cursor, up, era>>
    BY <1>parts, <1>2, <1>4, <1>7, <1>8, <2>1, <2>2, <2>3
  <2>4. CASE /\ ~plan.fetch /\ era' = wipes
             /\ cursor' = IF plan.after < cursor THEN plan.after ELSE cursor
             /\ up' = Append(up, RowsReq(plan.after))
    <3>0. down[1] = st /\ 1 \in 1..Len(down) /\ st \in DownFrame
      BY <2>1, DownHead, QueueFacts DEF Shape
    <3>1. /\ st.head \in Nat /\ st.ckpt \in Post /\ st.ckpt.seq \in Nat
          /\ Covers(st.ckpt.ops, room.rows, st.ckpt.seq)
      <4>1. st.head \in Nat /\ st.ckpt \in Post
        BY <2>1, <3>0, FrameFacts
      <4>2. st.ckpt.seq \in Nat
        BY <4>1 DEF Post
      <4> HIDE DEF st
      <4> QED BY <1>0, <2>1, <3>0, <4>1, <4>2 DEF States
    <3>2. /\ plan.after \in Nat
          /\ ~st.ckpt.there \/ st.ckpt.ops \subseteq doc
          /\ \/ plan.after = 0
             \/ cursor <= st.head /\ plan.after = cursor
             \/ st.ckpt.there /\ plan.after = st.ckpt.seq
      <4> HIDE DEF st
      <4> QED BY ONLY <1>types, <2>4, <3>1, PlanFacts
    <3> HIDE DEF plan
    <3>3. Covers(doc, room.rows, plan.after)
      <4>1. CASE plan.after = 0
        BY <1>types, <4>1 DEF Covers
      <4>2. CASE cursor <= st.head /\ plan.after = cursor
        BY <1>0, <2>1, <4>2 DEF Cursors
      <4>3. CASE st.ckpt.there /\ plan.after = st.ckpt.seq
        BY <1>types, <3>1, <3>2, <4>3, CoversFacts
      <4> QED BY <3>2, <4>1, <4>2, <4>3
    <3>4. Covers(doc, room.rows, cursor')
      <4>1. CASE plan.after < cursor
        BY <2>4, <3>3, <4>1
      <4>2. CASE ~(plan.after < cursor)
        <5>1. cursor' = cursor /\ cursor <= plan.after
          BY <1>types, <2>4, <3>2, <4>2
        <5> QED BY <1>types, <3>2, <3>3, <5>1, CoversFacts
      <4> QED BY <4>1, <4>2
    <3>5. Cursors'
      BY <1>0, <2>1, <3>4 DEF Cursors
    <3>6. Reqs'
      <4>1. up = <<>>
        BY <2>1, DownHead
      <4>2. Len(up') = 1 /\ up'[1] = RowsReq(plan.after)
        BY <2>4, <4>1
      <4>3. up'[1].after = plan.after /\ up'[1].excludeOwn = resumed
        BY <4>2 DEF RowsReq
      <4> QED BY <2>1, <3>3, <4>2, <4>3 DEF Reqs
    <3> QED BY <1>parts, <2>2, <3>5, <3>6
  <2> QED BY <2>1, <2>3, <2>4
<1>16. CASE FetchCheckpoint
  <2>1. /\ doc' = doc \cup room.ckpt.ops
        /\ saved' = [doc |-> doc', cursor |-> wanted, era |-> wipes]
        /\ cursor' = wanted /\ era' = wipes /\ up' = Append(up, RowsReq(wanted))
        /\ UNCHANGED <<room, down, resumed, posting, opened, wipes>>
        /\ phase = "fetch"
    BY <1>16 DEF FetchCheckpoint, PersistWithCursor
  <2>2. /\ wanted \in Nat /\ wanted <= room.floor /\ up = <<>>
    BY <2>1 DEF Shape, Ckpt, Link
  <2>3. Covers(doc', room.rows, wanted)
    <3>1. Covers(room.ckpt.ops, room.rows, wanted)
      BY <1>0, <1>types, <2>2, CoversFacts DEF Posts
    <3> QED BY <1>types, <2>1, <2>2, <3>1, CoversFacts
  <2>4. opened.era = wipes => Covers(doc', room.rows, opened.cursor)
    BY <1>0, <1>types, <2>1, CoversFacts DEF Cursors
  <2>5. Cursors'
    BY <2>1, <2>3, <2>4 DEF Cursors
  <2>6. Reqs'
    <3>1. Len(up') = 1 /\ up'[1] = RowsReq(wanted)
      BY <2>1, <2>2
    <3>2. up'[1].after = wanted /\ up'[1].excludeOwn = resumed
      BY <3>1 DEF RowsReq
    <3> QED BY <2>1, <2>3, <3>1, <3>2 DEF Reqs
  <2> QED BY <1>parts, <1>1, <1>3, <1>5, <1>8, <2>1, <2>5, <2>6
<1>17. CASE FetchMissing \/ Drop \/ Wipe
  <2>1. /\ up' = <<>> /\ down' = <<>>
        /\ \/ cursor' = cursor /\ era' = era
           \/ cursor' = opened.cursor /\ era' = opened.era
        /\ UNCHANGED <<doc, saved, opened, posting>>
    BY <1>17, SessionFacts DEF FetchMissing, Drop, Wipe
  <2>2. States' /\ Reqs'
    BY <2>1 DEF States, Reqs
  <2>3. CASE UNCHANGED <<room, wipes>>
    <3>1. Cursors'
      BY <1>0, <2>1, <2>3 DEF Cursors
    <3> QED BY <1>parts, <1>1, <1>8, <2>1, <2>2, <2>3, <3>1
  <2>4. CASE room' = NewRoom /\ wipes' = wipes + 1
    <3>1. room'.rows = <<>> /\ room'.floor = 0
      BY <2>4 DEF NewRoom
    <3>2. /\ era # wipes' /\ opened.era # wipes' /\ saved.era # wipes' /\ posting.era # wipes'
      BY <1>types, <2>4 DEF Life
    <3>3. Cursors'
      BY <2>1, <3>2 DEF Cursors
    <3>4. Posts'
      <4>1. Covers(room'.ckpt.ops, room'.rows, room'.floor)
        BY <3>1 DEF Covers
      <4> QED BY <2>1, <3>2, <4>1 DEF Posts
    <3> QED BY <1>parts, <2>2, <3>3, <3>4
  <2> QED BY <1>17, <2>3, <2>4 DEF FetchMissing, Drop, Wipe
<1>18. CASE RecvRow
  <2> DEFINE row == Head(down)
  <2>1. /\ down # <<>> /\ row.t = "row" /\ down' = Tail(down) /\ doc' = doc \cup row.ops
        /\ saved' = [doc |-> doc', cursor |-> row.seq, era |-> wipes]
        /\ cursor' = IF row.seq > cursor THEN row.seq ELSE cursor
        /\ UNCHANGED <<room, up, resumed, posting, opened, era, wipes>>
    BY <1>18 DEF RecvRow, PersistWithCursor
  <2>2. /\ down[1] = row /\ 1 \in 1..Len(down) /\ row.seq \in Nat /\ era = wipes
    BY <2>1, DownHead, FrameFacts DEF Shape, Life
  <2>3. Covers(doc', room.rows, row.seq)
    <3>1. Covers(Seen(doc, down, 1), room.rows, row.seq)
      BY <2>1, <2>2 DEF Flow
    <3>2. Seen(doc, down, 1) \subseteq doc'
      BY <2>1, <2>2 DEF Seen
    <3> HIDE DEF row
    <3> QED BY <1>types, <2>2, <3>1, <3>2, CoversFacts
  <2> HIDE DEF row
  <2>4. /\ Covers(doc', room.rows, cursor)
        /\ opened.era = wipes => Covers(doc', room.rows, opened.cursor)
    BY <1>0, <1>types, <2>1, <2>2, CoversFacts DEF Cursors
  <2>5. Cursors'
    BY <2>1, <2>3, <2>4 DEF Cursors
  <2> QED BY <1>parts, <1>1, <1>3, <1>4, <1>6, <1>7, <1>8, <2>1, <2>5
<1>19. CASE RecvAck
  <2> DEFINE ack == Head(down)
  <2>1. /\ down # <<>> /\ ack.t = "ack" /\ down' = Tail(down)
        /\ saved' = [doc |-> doc, cursor |-> cursor', era |-> wipes]
        /\ cursor' = IF ack.seq > cursor THEN ack.seq ELSE cursor
        /\ UNCHANGED <<doc, room, up, resumed, posting, opened, era, wipes>>
    BY <1>19 DEF RecvAck, PersistWithCursor
  <2>2. /\ down[1] = ack /\ 1 \in 1..Len(down) /\ ack.seq \in Nat /\ era = wipes
    <3>1. /\ down[1] = ack /\ 1 \in 1..Len(down) /\ ack \in DownFrame
          /\ phase = "open"
      BY <2>1, DownHead, QueueFacts DEF Shape
    <3> HIDE DEF ack
    <3> QED BY <2>1, <3>1, FrameFacts DEF Life
  <2>3. Covers(doc, room.rows, ack.seq)
    <3>1. Covers(Seen(doc, down, 1), room.rows, ack.seq)
      BY <2>1, <2>2 DEF Flow
    <3>2. Seen(doc, down, 1) \subseteq doc
      BY <2>1, <2>2 DEF Seen
    <3> HIDE DEF ack
    <3> QED BY <1>types, <2>2, <3>1, <3>2, CoversFacts
  <2> HIDE DEF ack
  <2>4. Cursors'
    BY <1>0, <2>1, <2>2, <2>3 DEF Cursors
  <2> QED BY <1>parts, <1>1, <1>3, <1>4, <1>6, <1>7, <1>8, <2>1, <2>4
<1>20. CASE HandleEvent \/ Bootstrap \/ Maintain
  <2>1. /\ posting' = posting \/ posting' = Snapshot
        /\ UNCHANGED <<doc, room, down, up, resumed, cursor, era, opened, saved, wipes>>
    BY <1>20 DEF HandleEvent, Bootstrap, Maintain, StartPost
  <2>2. posting'.there /\ posting'.era = wipes => Covers(posting'.ops, room.rows, posting'.seq)
    BY <1>0, <2>1 DEF Snapshot, Posts, Cursors
  <2>3. Posts'
    BY <1>0, <2>1, <2>2 DEF Posts
  <2> QED BY <1>parts, <1>2, <1>3, <1>4, <1>5, <1>7, <1>8, <2>1, <2>3
<1>21. CASE PostLands
  <2>1. /\ posting.there /\ posting' = NoPost /\ posting.era = wipes
        /\ UNCHANGED <<doc, down, up, resumed, cursor, era, opened, saved, wipes>>
        /\ room' = [room EXCEPT !.ckpt = posting, !.floor = posting.seq]
    BY <1>21, <1>types DEF PostLands
  <2>2. room'.ckpt = posting /\ room'.floor = posting.seq /\ room'.rows = room.rows
    BY <2>1 DEF Shape, Room
  <2>3. Grows /\ ~posting'.there
    BY <2>1, <2>2 DEF Grows, NoPost
  <2>4. Posts'
    BY <1>0, <2>1, <2>2, <2>3 DEF Posts
  <2> QED BY <1>parts, <1>2, <1>3, <1>4, <1>5, <1>7, <2>1, <2>3, <2>4
<1>22. CASE PostFails
  <2>1. /\ posting' = NoPost
        /\ UNCHANGED <<doc, room, down, up, resumed, cursor, era, opened, saved, wipes>>
    BY <1>22 DEF PostFails
  <2>2. ~posting'.there
    BY <2>1 DEF NoPost
  <2>3. Posts'
    BY <1>0, <2>1, <2>2 DEF Posts
  <2> QED BY <1>parts, <1>2, <1>3, <1>4, <1>5, <1>7, <1>8, <2>1, <2>3
<1>23. CASE ServeHello
  <2> DEFINE st == [t |-> "state", head |-> HeadSeq, ckpt |-> room.ckpt,
                    rowCount |-> HeadSeq - room.floor]
  <2>1. PICK early \in {<<>>, <<[t |-> "presence"]>>} : down' = down \o early \o <<st>>
    BY <1>23 DEF ServeHello
  <2>2. /\ down = <<>> /\ up = <<[t |-> "hello"]>> /\ up' = Tail(up)
        /\ UNCHANGED <<room, doc, resumed, posting, cursor, era, opened, saved, wipes>>
    BY <1>23, UpHead DEF ServeHello
  <2>3. Covers(st.ckpt.ops, room.rows, st.ckpt.seq)
    BY <1>0 DEF Posts, Ckpt
  <2> HIDE DEF st
  <2>4. \A k \in 1..Len(down') : down'[k] = st \/ down'[k].t = "presence"
    <3>1. CASE early = <<>>
      BY <2>1, <2>2, <3>1
    <3>2. CASE early = <<[t |-> "presence"]>>
      BY <2>1, <2>2, <3>2
    <3> QED BY <3>1, <3>2
  <2>5. States'
    BY <2>2, <2>3, <2>4 DEF States
  <2>6. Reqs'
    BY <2>2 DEF Reqs
  <2> QED BY <1>parts, <1>1, <1>2, <1>8, <2>2, <2>5, <2>6
<1>24. CASE ServeRows
  <2>1. /\ up' = Tail(up) /\ up # <<>>
        /\ UNCHANGED <<room, doc, resumed, posting, cursor, era, opened, saved, wipes>>
    BY <1>24 DEF ServeRows
  <2>2. States'
    <3>1. phase' = "backfill"
      BY <1>24, UpHead DEF ServeRows
    <3> QED BY <1>served, <3>1
  <2>3. Reqs'
    BY <1>4, <1>8, <2>1, QueueFacts DEF Shape
  <2> QED BY <1>parts, <1>1, <1>2, <1>8, <2>1, <2>2, <2>3
<1>25. CASE ServePush
  <2>1. Grows /\ room'.ckpt = room.ckpt /\ room'.floor = room.floor
    BY <1>25, <1>8, ServeFacts, AppendsRow
  <2>2. /\ up' = Tail(up) /\ up # <<>>
        /\ UNCHANGED <<doc, resumed, posting, cursor, era, opened, saved, wipes>>
    BY <1>25, ServeFacts
  <2>3. States'
    <3>1. phase' = "open"
      BY <1>25, ServeFacts, UpHead
    <3> QED BY <1>served, <3>1
  <2>4. Reqs'
    BY <1>4, <2>1, <2>2, QueueFacts DEF Shape
  <2> QED BY <1>parts, <1>1, <1>2, <2>1, <2>2, <2>3, <2>4
<1>26. ASSUME NEW o \in PeerOps, PeerPush(o) PROVE Cover'
  <2>1. Grows /\ room'.ckpt = room.ckpt /\ room'.floor = room.floor
    BY <1>26, PeerFacts, AppendsRow
  <2>2. UNCHANGED <<doc, up, resumed, posting, cursor, era, opened, saved, wipes>>
    BY <1>26, PeerFacts
  <2>3. States'
    <3>1. CASE relayed
      <4>1. phase' \in {"backfill", "open"}
        BY <1>26, <3>1, PeerFacts DEF Link, Shape
      <4> QED BY <1>served, <4>1
    <3>2. CASE ~relayed
      <4>1. down' = down
        BY <1>26, <3>2, PeerFacts
      <4> QED BY <1>3, <1>5, <2>1, <4>1
    <3> QED BY <3>1, <3>2
  <2> QED BY <1>parts, <1>1, <1>2, <1>4, <1>7, <2>1, <2>2, <2>3
<1>27. CASE CrashAndReopen
  <2>1. /\ doc' = saved.doc /\ UNCHANGED <<saved, room, wipes>> /\ posting' = NoPost
        /\ cursor' = saved.cursor /\ opened' = [cursor |-> saved.cursor, era |-> saved.era]
        /\ era' = saved.era /\ up' = <<>> /\ down' = <<>>
    BY <1>27 DEF CrashAndReopen
  <2>2. States' /\ Reqs' /\ ~posting'.there
    BY <2>1 DEF States, Reqs, NoPost
  <2>3. Cursors'
    BY <1>0, <2>1 DEF Cursors
  <2>4. Posts'
    BY <1>0, <2>1, <2>2 DEF Posts
  <2> QED BY <1>parts, <2>2, <2>3, <2>4
<1> QED BY <1>9, <1>10, <1>11, <1>12, <1>13, <1>14, <1>15, <1>16, <1>17, <1>18, <1>19, <1>20,
           <1>21, <1>22, <1>23, <1>24, <1>25, <1>26, <1>27
           DEF SyncNext, Client, HostTasks, Server

\* This device's rows stay held.
LEMMA OwnFacts ==
    ASSUME NEW rows \in Seq(Row), NEW D, OwnIn(D, rows), NEW E, D \subseteq E
    PROVE  /\ OwnIn(E, rows)
           /\ \A r \in Row : (r.own => r.ops \subseteq E) => OwnIn(E, Append(rows, r))
<1>1. \A i \in 1..Len(rows) : rows[i].own => rows[i].ops \subseteq E
  BY DEF OwnIn
<1>2. ASSUME NEW r \in Row, r.own => r.ops \subseteq E PROVE OwnIn(E, Append(rows, r))
  <2>1. /\ Len(Append(rows, r)) = Len(rows) + 1 /\ Len(rows) \in Nat
        /\ \A i \in 1..Len(rows) : Append(rows, r)[i] = rows[i]
        /\ Append(rows, r)[Len(rows) + 1] = r
    BY SeqFacts
  <2>2. ASSUME NEW i \in 1..Len(Append(rows, r)), Append(rows, r)[i].own
        PROVE  Append(rows, r)[i].ops \subseteq E
    <3>1. CASE i = Len(rows) + 1
      BY <1>2, <2>1, <2>2, <3>1
    <3>2. CASE i # Len(rows) + 1
      <4>1. i \in 1..Len(rows) /\ Append(rows, r)[i] = rows[i]
        BY <2>1, <3>2
      <4> QED BY <1>1, <2>2, <4>1
    <3> QED BY <3>1, <3>2
  <2> QED BY <2>2 DEF OwnIn
<1> QED BY <1>1, <1>2 DEF OwnIn

\* One more frame on the way down.
LEMMA SeenAppend ==
    ASSUME NEW s \in Seq(DownFrame), NEW f \in DownFrame, NEW d
    PROVE  /\ Append(s, f) \in Seq(DownFrame) /\ Len(Append(s, f)) = Len(s) + 1
           /\ \A k \in 1..Len(s) : Append(s, f)[k] = s[k]
           /\ Append(s, f)[Len(s) + 1] = f
           /\ \A k \in 0..Len(s) : Seen(d, Append(s, f), k) = Seen(d, s, k)
           /\ Seen(d, s, Len(s)) \subseteq Seen(d, Append(s, f), Len(s) + 1)
           /\ f.t = "row" => f.ops \subseteq Seen(d, Append(s, f), Len(s) + 1)
<1>1. /\ Append(s, f) \in Seq(DownFrame) /\ Len(Append(s, f)) = Len(s) + 1 /\ Len(s) \in Nat
      /\ \A k \in 1..Len(s) : Append(s, f)[k] = s[k]
      /\ Append(s, f)[Len(s) + 1] = f
  BY SeqFacts
<1>2. ASSUME NEW k \in 0..Len(s) PROVE Seen(d, Append(s, f), k) = Seen(d, s, k)
  <2>1. \A j \in 1..k : Append(s, f)[j] = s[j]
    BY <1>1
  <2> QED BY <2>1 DEF Seen
<1>3. /\ \A j, k \in Nat : j <= k => Seen(d, Append(s, f), j) \subseteq Seen(d, Append(s, f), k)
      /\ \A k \in Nat : \A j \in 1..k :
           Append(s, f)[j].t = "row" => Append(s, f)[j].ops \subseteq Seen(d, Append(s, f), k)
  BY ONLY Append(s, f) \in Seq(DownFrame), <1>1, SeenFacts
<1>4. Len(s) + 1 \in Nat /\ Len(s) + 1 \in 1..(Len(s) + 1) /\ Len(s) <= Len(s) + 1
  BY <1>1
<1>5. Seen(d, s, Len(s)) \subseteq Seen(d, Append(s, f), Len(s) + 1)
  <2>1. Seen(d, s, Len(s)) = Seen(d, Append(s, f), Len(s))
    BY <1>1, <1>2
  <2> QED BY <1>1, <1>3, <1>4, <2>1
<1>6. f.t = "row" => f.ops \subseteq Seen(d, Append(s, f), Len(s) + 1)
  BY <1>1, <1>3, <1>4
<1> QED BY <1>1, <1>2, <1>5, <1>6

\* A socket that is not live carries no rows.
LEMMA FlowQuiet ==
    ASSUME Link', phase' \in {"down", "hello", "fetch", "backfill", "open"}, ~relayed',
           resumed' => OwnIn(doc', room'.rows)
    PROVE  Flow'
<1>1. \A k \in 1..Len(down') : down'[k].t \notin {"row", "ack", "done"}
  <2>1. CASE phase' = "hello"
    <3>1. CASE down' = <<>>
      BY <3>1
    <3>2. CASE down' # <<>>
      <4>1. \A k \in 1..Len(down') : down'[k].t = IF k = Len(down') THEN "state" ELSE "presence"
        BY <2>1, <3>2 DEF Link
      <4> QED BY <4>1
    <3> QED BY <3>1, <3>2
  <2>2. CASE phase' # "hello"
    <3>1. down' = <<>>
      BY <2>2 DEF Link
    <3> QED BY <3>1
  <2> QED BY <2>1, <2>2
<1> QED BY <1>1 DEF Flow

\* A step that touches neither the queue nor the log.
LEMMA FlowKeep ==
    ASSUME Shape, Flow, UNCHANGED <<down, relayed>>, resumed' => resumed,
           room'.rows = room.rows, doc \subseteq doc'
    PROVE  Flow'
<1>1. down \in Seq(DownFrame) /\ room.rows \in Seq(Row) /\ Len(room.rows) \in Nat
  BY RoomFacts DEF Shape
<1>2. \A k : Seen(doc, down, k) \subseteq Seen(doc', down, k)
  BY <1>1, SeenFacts
<1>3. resumed' => OwnIn(doc', room.rows)
  BY <1>1, OwnFacts DEF Flow
<1>4. relayed => Covers(Seen(doc', down, Len(down)), room.rows, Len(room.rows))
  BY <1>1, <1>2, CoversFacts DEF Flow
<1>5. ASSUME NEW k \in 1..Len(down)
      PROVE  /\ down[k].t \in {"row", "ack"} => Covers(Seen(doc', down, k), room.rows, down[k].seq)
             /\ down[k].t = "done" => OwnIn(Seen(doc', down, k), room.rows)
  <2>1. down[k].t \in {"row", "ack"} => down[k].seq \in Nat
    BY <1>1, FrameFacts
  <2>2. down[k].t \in {"row", "ack"} => Covers(Seen(doc', down, k), room.rows, down[k].seq)
    BY <1>1, <1>2, <2>1, CoversFacts DEF Flow
  <2>3. down[k].t = "done" => OwnIn(Seen(doc', down, k), room.rows)
    BY <1>1, <1>2, OwnFacts DEF Flow
  <2> QED BY <2>2, <2>3
<1> QED BY <1>3, <1>4, <1>5 DEF Flow

\* The client reads a frame.
LEMMA FlowTail ==
    ASSUME Shape, Flow, down # <<>>, down' = Tail(down), UNCHANGED <<room, relayed>>,
           doc \subseteq doc', Head(down).t = "row" => Head(down).ops \subseteq doc',
           resumed' => OwnIn(doc', room.rows)
    PROVE  Flow'
<1>1. down \in Seq(DownFrame) /\ room.rows \in Seq(Row) /\ Len(room.rows) \in Nat
  BY RoomFacts DEF Shape
<1>2. /\ Tail(down) \in Seq(DownFrame) /\ Len(Tail(down)) + 1 = Len(down)
      /\ \A k \in 1..Len(Tail(down)) : Tail(down)[k] = down[k + 1]
      /\ \A k \in 0..Len(Tail(down)) : Seen(doc, down, k + 1) \subseteq Seen(doc', Tail(down), k)
  BY <1>1, SeenTail
<1>3. Len(Tail(down)) \in 0..Len(Tail(down)) /\ Len(Tail(down)) \in Nat
  BY <1>2
<1>4. relayed => Covers(Seen(doc', down', Len(down')), room.rows, Len(room.rows))
  <2>1. Seen(doc, down, Len(down)) \subseteq Seen(doc', down', Len(down'))
    BY <1>2, <1>3
  <2> QED BY <1>1, <2>1, CoversFacts DEF Flow
<1>5. ASSUME NEW k \in 1..Len(down')
      PROVE  /\ down'[k].t \in {"row", "ack"} =>
                  Covers(Seen(doc', down', k), room.rows, down'[k].seq)
             /\ down'[k].t = "done" => OwnIn(Seen(doc', down', k), room.rows)
  <2>1. k + 1 \in 1..Len(down) /\ down'[k] = down[k + 1] /\ k \in 0..Len(Tail(down))
    BY <1>2, <1>3
  <2>2. Seen(doc, down, k + 1) \subseteq Seen(doc', down', k)
    BY <1>2, <2>1
  <2>3. down'[k].t \in {"row", "ack"} => down'[k].seq \in Nat
    BY <1>1, <2>1, FrameFacts
  <2>4. down'[k].t \in {"row", "ack"} => Covers(Seen(doc', down', k), room.rows, down'[k].seq)
    BY <1>1, <2>1, <2>2, <2>3, CoversFacts DEF Flow
  <2>5. down'[k].t = "done" => OwnIn(Seen(doc', down', k), room.rows)
    BY <1>1, <2>1, <2>2, OwnFacts DEF Flow
  <2> QED BY <2>4, <2>5
<1> QED BY <1>4, <1>5 DEF Flow

\* The room sends one frame, with or without a new row.
LEMMA FlowAppend ==
    ASSUME Shape, Flow, relayed, UNCHANGED <<doc, resumed, relayed>>,
           NEW f \in DownFrame, down' = Append(down, f), f.t # "done",
           \/ room'.rows = room.rows
           \/ \E r \in Row : /\ room'.rows = Append(room.rows, r)
                             /\ r.ops \subseteq Seen(doc, Append(down, f), Len(down) + 1)
                             /\ r.own => r.ops \subseteq doc,
           f.t \in {"row", "ack"} => f.seq <= Len(room'.rows)
    PROVE  Flow'
<1>1. /\ down \in Seq(DownFrame) /\ Len(down) \in Nat
      /\ room.rows \in Seq(Row) /\ Len(room.rows) \in Nat
  <2>1. down \in Seq(DownFrame)
    BY DEF Shape
  <2> QED BY ONLY Shape, <2>1, HeadFacts
<1> DEFINE all == Seen(doc, Append(down, f), Len(down) + 1)
<1>2. /\ Len(down') = Len(down) + 1
      /\ \A k \in 1..Len(down) : down'[k] = down[k]
      /\ down'[Len(down) + 1] = f
      /\ \A k \in 0..Len(down) : Seen(doc, down', k) = Seen(doc, down, k)
      /\ Seen(doc, down', Len(down')) = all
      /\ Seen(doc, down, Len(down)) \subseteq all
  BY <1>1, SeenAppend
<1>3. \A k : doc \subseteq Seen(doc, down, k)
  BY <1>1, SeenFacts
<1> HIDE DEF all
<1>4. Covers(all, room.rows, Len(room.rows))
  BY <1>1, <1>2, CoversFacts DEF Flow
<1>5. /\ room'.rows \in Seq(Row) /\ Len(room'.rows) \in Nat
      /\ Covers(all, room'.rows, Len(room'.rows))
      /\ \A D : doc \subseteq D /\ OwnIn(D, room.rows) => OwnIn(D, room'.rows)
      /\ Grows
  <2>1. CASE room'.rows = room.rows
    BY <1>1, <1>4, <2>1 DEF Grows
  <2>2. ASSUME NEW r \in Row, room'.rows = Append(room.rows, r), r.ops \subseteq all,
               r.own => r.ops \subseteq doc
        PROVE  <1>5!1 /\ <1>5!2 /\ <1>5!3 /\ <1>5!4
    <3>1. room'.rows \in Seq(Row) /\ Len(room'.rows) = Len(room.rows) + 1
      BY <1>1, <2>2, SeqFacts
    <3>2. Covers(all, room'.rows, Len(room.rows) + 1)
      BY <1>1, <1>4, <2>2, CoversFacts
    <3>3. \A D : doc \subseteq D /\ OwnIn(D, room.rows) => OwnIn(D, room'.rows)
      BY <1>1, <2>2, OwnFacts
    <3>4. Grows
      BY <2>2 DEF Grows
    <3> QED BY <1>1, <3>1, <3>2, <3>3, <3>4
  <2> QED BY <2>1, <2>2 DEF all
<1>6. resumed => OwnIn(doc, room'.rows)
  BY <1>5 DEF Flow
<1>7. ASSUME NEW k \in 1..Len(down')
      PROVE  /\ down'[k].t \in {"row", "ack"} =>
                  Covers(Seen(doc, down', k), room'.rows, down'[k].seq)
             /\ down'[k].t = "done" => OwnIn(Seen(doc, down', k), room'.rows)
  <2>1. CASE k = Len(down) + 1
    <3>1. Seen(doc, down', k) = all /\ down'[k] = f
      BY <1>2, <2>1
    <3>2. f.t \in {"row", "ack"} => f.seq \in Nat
      BY FrameFacts
    <3>3. f.t \in {"row", "ack"} => Covers(all, room'.rows, f.seq)
      BY <1>5, <3>2, CoversFacts
    <3> QED BY <3>1, <3>3
  <2>2. CASE k # Len(down) + 1
    <3>1. k \in 1..Len(down) /\ k \in 0..Len(down)
      BY <1>1, <1>2, <2>2
    <3>2. down'[k] = down[k] /\ Seen(doc, down', k) = Seen(doc, down, k)
      BY <1>2, <3>1
    <3>3. down[k].t \in {"row", "ack"} => down[k].seq \in Nat
      BY <1>1, <3>1, FrameFacts
    <3>4. down[k].t \in {"row", "ack"} => Covers(Seen(doc, down, k), room'.rows, down[k].seq)
      BY <1>5, <3>1, <3>3, GrowKeeps DEF Flow
    <3>5. down[k].t = "done" => OwnIn(Seen(doc, down, k), room'.rows)
      BY <1>3, <1>5, <3>1 DEF Flow
    <3> QED BY <3>2, <3>4, <3>5
  <2> QED BY <2>1, <2>2
<1>8. Covers(Seen(doc, down', Len(down')), room'.rows, Len(room'.rows))
  BY <1>2, <1>5
<1> QED BY <1>6, <1>7, <1>8 DEF Flow

\* The room serves a backfill: what it leaves out the document holds.
LEMMA FlowServe ==
    ASSUME Shape, Link, Ckpt, Cover, Flow, ServeRows
    PROVE  Flow'
<1> DEFINE req  == Head(up)
           from == IF req.after > room.floor THEN req.after ELSE room.floor
           sent == {i \in (from + 1)..HeadSeq : ~(req.excludeOwn /\ room.rows[i].own)}
           bf   == Backfill(req)
<1>1. /\ up # <<>> /\ req.t = "rows_req" /\ relayed' = TRUE
      /\ down' = down \o Append(bf, [t |-> "done"])
      /\ UNCHANGED <<doc, resumed, room>>
  BY DEF ServeRows, clientVars
<1>2. down = <<>> /\ phase = "backfill" /\ up[1] = req /\ 1 \in 1..Len(up)
  BY <1>1, UpHead
<1>3. /\ req.after \in Nat /\ Covers(doc, room.rows, req.after)
      /\ req.excludeOwn => resumed
  <2>1. up[1] \in UpFrame
    BY <1>2 DEF Shape
  <2> QED BY <1>1, <1>2, <2>1, FrameFacts DEF Cover
<1>4. /\ room.rows \in Seq(Row) /\ HeadSeq = Len(room.rows) /\ HeadSeq \in Nat
      /\ room.floor \in Nat /\ room.ckpt.ops \subseteq doc
      /\ Covers(room.ckpt.ops, room.rows, room.floor)
  BY <1>2, RoomFacts DEF Shape, Ckpt, Cover
<1>5. /\ bf \in Seq(DownFrame) /\ Len(bf) \in Nat
      /\ \A k \in 1..Len(bf) : Nth(sent, k) \in sent /\ bf[k] = RowFrame(Nth(sent, k))
      /\ \A i \in sent : \E k \in 1..Len(bf) : Nth(sent, k) = i
      /\ \A k \in 1..Len(bf) : \A i \in sent :
           i <= Nth(sent, k) => \E j \in 1..k : Nth(sent, j) = i
  <2> HIDE DEF req
  <2>1. /\ bf \in Seq(DownFrame)
        /\ \A k \in 1..Len(bf) : Nth(sent, k) \in sent /\ bf[k] = RowFrame(Nth(sent, k))
        /\ \A i \in sent : \E k \in 1..Len(bf) : Nth(sent, k) = i
        /\ \A k \in 1..Len(bf) : \A i \in sent :
             i <= Nth(sent, k) => \E j \in 1..k : Nth(sent, j) = i
    BY <1>3, BackfillFacts, Zenon
  <2> HIDE DEF bf, sent
  <2> QED BY <2>1
<1>6. /\ down' \in Seq(DownFrame) /\ Len(down') = Len(bf) + 1
      /\ \A k \in 1..Len(bf) : down'[k] = bf[k]
      /\ down'[Len(bf) + 1] = [t |-> "done"]
  <2>1. [t |-> "done"] \in DownFrame
    BY DEF DownFrame
  <2> HIDE DEF bf
  <2>2. down' = Append(bf, [t |-> "done"])
    <3>1. Append(bf, [t |-> "done"]) \in Seq(DownFrame)
      BY <1>5, <2>1, SeqFacts
    <3> QED BY <1>1, <1>2, <3>1
  <2> QED BY <1>5, <2>1, <2>2, SeqFacts
<1>7. sent \subseteq 1..HeadSeq
  BY <1>3, <1>4
<1>8. ASSUME NEW k \in 0..Len(down'), NEW i \in 1..HeadSeq,
             i \in sent => \E j \in 1..Len(bf) : j <= k /\ Nth(sent, j) = i
      PROVE  room.rows[i].ops \subseteq Seen(doc, down', k)
  <2>0. doc \subseteq Seen(doc, down', k)
    BY <1>6, SeenFacts
  <2>1. CASE i <= req.after
    BY <1>3, <1>4, <2>0, <2>1 DEF Covers
  <2>2. CASE i <= room.floor
    BY <1>4, <2>0, <2>2 DEF Covers
  <2>3. CASE i \in sent
    <3>1. PICK j \in 1..Len(bf) : j <= k /\ Nth(sent, j) = i
      BY <1>8, <2>3
    <3> HIDE DEF sent, bf
    <3>2. down'[j] = RowFrame(i) /\ j \in 1..k /\ k \in Nat
      BY <1>5, <1>6, <3>1
    <3>3. down'[j].t = "row" /\ down'[j].ops = room.rows[i].ops
      BY <3>2 DEF RowFrame
    <3> QED BY <1>6, <3>2, <3>3, SeenFacts
  <2>4. CASE ~(i <= req.after) /\ ~(i <= room.floor) /\ i \notin sent
    <3>1. req.excludeOwn /\ room.rows[i].own
      BY <1>3, <1>4, <2>4
    <3>2. OwnIn(doc, room.rows)
      BY <1>3, <3>1 DEF Flow
    <3> QED BY <1>4, <2>0, <3>1, <3>2 DEF OwnIn
  <2> QED BY <2>1, <2>2, <2>3, <2>4
<1> HIDE DEF sent, bf, req
<1>9. \A i \in 1..HeadSeq : room.rows[i].ops \subseteq Seen(doc, down', Len(down'))
  <2> SUFFICES ASSUME NEW i \in 1..HeadSeq
               PROVE  room.rows[i].ops \subseteq Seen(doc, down', Len(down'))
    OBVIOUS
  <2>1. i \in sent => \E j \in 1..Len(bf) : j <= Len(down') /\ Nth(sent, j) = i
    BY <1>5, <1>6
  <2>2. Len(down') \in 0..Len(down')
    BY <1>5, <1>6
  <2> QED BY <1>8, <2>1, <2>2
<1>10. ASSUME NEW k \in 1..Len(down')
       PROVE  /\ down'[k].t \in {"row", "ack"} =>
                   Covers(Seen(doc, down', k), room.rows, down'[k].seq)
              /\ down'[k].t = "done" => OwnIn(Seen(doc, down', k), room.rows)
  <2>1. CASE k = Len(bf) + 1
    <3>1. down'[k].t = "done" /\ k = Len(down')
      BY <1>6, <2>1
    <3>2. OwnIn(Seen(doc, down', k), room.rows)
      BY <1>4, <1>9, <3>1 DEF OwnIn
    <3> QED BY <3>1, <3>2
  <2>2. CASE k # Len(bf) + 1
    <3> DEFINE n == Nth(sent, k)
    <3>1. k \in 1..Len(bf) /\ k \in 0..Len(down')
      BY <1>5, <1>6, <2>2
    <3>2. n \in 1..HeadSeq /\ down'[k] = RowFrame(n)
      BY <1>5, <1>6, <1>7, <3>1
    <3>3. down'[k].t = "row" /\ down'[k].seq = n
      BY <3>2 DEF RowFrame
    <3>4. ASSUME NEW i \in 1..n PROVE room.rows[i].ops \subseteq Seen(doc, down', k)
      <4>1. i \in 1..HeadSeq /\ i <= n
        BY <1>4, <3>2
      <4>2. i \in sent => \E j \in 1..k : Nth(sent, j) = i
        BY <1>5, <3>1, <4>1
      <4>3. \A j \in 1..k : j \in 1..Len(bf) /\ j <= k
        BY <1>5, <3>1
      <4> HIDE DEF n
      <4> QED BY <1>8, <3>1, <4>1, <4>2, <4>3
    <3>5. Covers(Seen(doc, down', k), room.rows, n)
      BY <1>4, <3>2, <3>4 DEF Covers
    <3> QED BY <3>3, <3>5
  <2> QED BY <2>1, <2>2
<1>11. Covers(Seen(doc, down', Len(down')), room.rows, Len(room.rows))
  BY <1>4, <1>9 DEF Covers
<1> QED BY <1>1, <1>10, <1>11 DEF Flow

\* No step loses or reorders what the document lacks.
LEMMA FlowStep ==
    ASSUME Shape, Link, Link', phase' \in {"down", "hello", "fetch", "backfill", "open"},
           Owned, Ckpt, Cover, Flow, SyncNext
    PROVE  Flow'
<1> USE DEF clientVars, hostVars, netVars, syncHist, faultVars
<1>0. /\ room.rows \in Seq(Row) /\ HeadSeq = Len(room.rows) /\ HeadSeq \in Nat
      /\ down \in Seq(DownFrame)
      /\ phase \in {"down", "hello", "fetch", "backfill", "open"}
  BY RoomFacts DEF Shape
<1>1. ASSUME ~relayed', room'.rows = room.rows, doc \subseteq doc', resumed' => resumed
      PROVE  Flow'
  <2>1. resumed' => OwnIn(doc', room'.rows)
    BY <1>0, <1>1, OwnFacts DEF Flow
  <2> QED BY <1>1, <2>1, FlowQuiet
<1>2. CASE \/ \E o \in LocalOps : Commit(o)
           \/ SavePlain \/ Install \/ PushPending \/ PushHead \/ HandleEvent \/ Bootstrap
           \/ Maintain \/ PostFails
  <2>1. UNCHANGED <<room, down, relayed, resumed>> /\ doc \subseteq doc'
    BY <1>2 DEF Commit, SavePlain, Install, PushPending, PushHead, HandleEvent, Bootstrap,
                Maintain, PostFails
  <2> QED BY <2>1, FlowKeep
<1>3. CASE PostLands
  <2>1. /\ UNCHANGED <<down, relayed, resumed, doc>>
        /\ room' = [room EXCEPT !.ckpt = posting, !.floor = posting.seq]
    BY <1>3 DEF PostLands
  <2>2. room'.rows = room.rows
    BY <2>1 DEF Shape, Room
  <2> QED BY <2>1, <2>2, FlowKeep
<1>4. CASE Dial
  <2>1. UNCHANGED <<room, doc, resumed>> /\ phase' = "hello"
    BY <1>4 DEF Dial
  <2>2. ~relayed'
    BY <2>1 DEF Link
  <2> QED BY <1>1, <2>1, <2>2
<1>5. CASE SkipStale \/ RecvState \/ FetchCheckpoint \/ ServeHello
  <2>1. UNCHANGED <<room, relayed, resumed>> /\ doc \subseteq doc'
    BY <1>5 DEF SkipStale, RecvState, FetchCheckpoint, ServeHello
  <2>2. phase \in {"hello", "fetch"}
    BY <1>5, UpHead DEF SkipStale, RecvState, FetchCheckpoint, ServeHello
  <2>3. ~relayed'
    BY <2>1, <2>2 DEF Link
  <2> QED BY <1>1, <2>1, <2>3
<1>6. CASE FetchMissing \/ Drop
  <2>1. UNCHANGED <<room, doc, resumed>> /\ relayed' = FALSE
    BY <1>6, SessionFacts DEF FetchMissing, Drop
  <2> QED BY <1>1, <2>1
<1>7. CASE Wipe
  <2>1. relayed' = FALSE /\ room'.rows = <<>>
    BY <1>7, SessionFacts DEF Wipe, NewRoom
  <2>2. OwnIn(doc', room'.rows)
    BY <2>1 DEF OwnIn
  <2> QED BY <2>1, <2>2, FlowQuiet
<1>8. CASE CrashAndReopen
  <2>1. relayed' = FALSE /\ resumed' = FALSE
    BY <1>8 DEF CrashAndReopen
  <2> QED BY <2>1, FlowQuiet
<1>9. CASE RecvRow \/ RecvAck \/ RecvError
  <2>1. /\ down # <<>> /\ down' = Tail(down) /\ UNCHANGED <<room, relayed, resumed>>
        /\ doc \subseteq doc'
        /\ Head(down).t = "row" => Head(down).ops \subseteq doc'
    BY <1>9 DEF RecvRow, RecvAck, RecvError
  <2>2. resumed' => OwnIn(doc', room.rows)
    BY <1>0, <2>1, OwnFacts DEF Flow
  <2> QED BY <2>1, <2>2, FlowTail
<1>10. CASE RecvRowsDone
  <2>1. /\ down # <<>> /\ down' = Tail(down) /\ UNCHANGED <<room, relayed, doc>>
        /\ Head(down).t = "done"
    BY <1>10 DEF RecvRowsDone
  <2>2. down[1] = Head(down) /\ 1 \in 1..Len(down)
    BY <2>1, DownHead
  <2>3. OwnIn(Seen(doc, down, 1), room.rows)
    BY <2>1, <2>2 DEF Flow
  <2>4. Seen(doc, down, 1) = doc
    BY <2>1, <2>2 DEF Seen
  <2> QED BY <2>1, <2>3, <2>4, FlowTail
<1>11. CASE ServeRows
  BY <1>11, FlowServe
<1>12. CASE ServePush
  <2> DEFINE push == Head(up)
             old  == {i \in 1..HeadSeq : room.rows[i].own /\ room.rows[i].id = push.id}
             new  == [ops |-> push.ops, own |-> TRUE, id |-> push.id]
  <2>1. /\ up # <<>> /\ push.t = "push" /\ UNCHANGED <<doc, resumed, relayed>>
    BY <1>12 DEF ServePush
  <2>2. relayed /\ up[1] = push /\ 1 \in 1..Len(up) /\ push \in UpFrame
    BY <2>1, UpHead, QueueFacts DEF Link, Shape
  <2>3. push.ops \subseteq doc /\ new \in Row /\ push.id \in Nat
    BY <2>1, <2>2, FrameFacts DEF Owned, Row
  <2>4. ASSUME UNCHANGED room, NEW q \in BOOLEAN,
               down' = Append(down, [t |-> "error", quota |-> q, id |-> push.id])
        PROVE  Flow'
    <3> DEFINE f == [t |-> "error", quota |-> q, id |-> push.id]
    <3>1. f \in DownFrame /\ f.t = "error" /\ down' = Append(down, f)
      BY <2>3, <2>4 DEF DownFrame
    <3> HIDE DEF f
    <3> QED BY <2>1, <2>2, <2>4, <3>1, FlowAppend
  <2>5. ASSUME old # {}, UNCHANGED room,
               down' = Append(down, [t |-> "ack", id |-> push.id,
                                     seq |-> CHOOSE i \in old : TRUE])
        PROVE  Flow'
    <3> DEFINE n == CHOOSE i \in old : TRUE
               f == [t |-> "ack", id |-> push.id, seq |-> n]
    <3>1. n \in old
      BY <2>5
    <3>2. n \in 1..HeadSeq
      BY <3>1
    <3> HIDE DEF n
    <3>3. f \in DownFrame /\ f.t = "ack" /\ f.seq = n
      BY <1>0, <2>3, <3>2 DEF DownFrame
    <3>4. down' = Append(down, f)
      BY <2>5 DEF n
    <3> HIDE DEF f
    <3> QED BY <1>0, <2>1, <2>2, <2>5, <3>2, <3>3, <3>4, FlowAppend
  <2>6. ASSUME room' = [room EXCEPT !.rows = Append(@, new)],
               down' = Append(down, [t |-> "ack", id |-> push.id, seq |-> HeadSeq + 1])
        PROVE  Flow'
    <3> DEFINE f == [t |-> "ack", id |-> push.id, seq |-> HeadSeq + 1]
    <3>1. f \in DownFrame /\ f.t = "ack" /\ f.seq = HeadSeq + 1 /\ down' = Append(down, f)
      BY <1>0, <2>3, <2>6 DEF DownFrame
    <3>2. new.ops = push.ops
      OBVIOUS
    <3> HIDE DEF f, new
    <3>3. room'.rows = Append(room.rows, new) /\ Len(room'.rows) = HeadSeq + 1
      BY <1>0, <2>3, <2>6, AppendsRow, SeqFacts
    <3>4. new.ops \subseteq Seen(doc, Append(down, f), Len(down) + 1) /\ new.ops \subseteq doc
      BY <2>3, <3>2 DEF Seen
    <3>5. f.t # "done" /\ f.seq <= Len(room'.rows)
      BY <1>0, <3>1, <3>3
    <3> QED BY <2>1, <2>2, <2>3, <3>1, <3>3, <3>4, <3>5, FlowAppend
  <2> QED BY <1>12, <2>4, <2>5, <2>6 DEF ServePush
<1>13. ASSUME NEW o \in PeerOps, PeerPush(o) PROVE Flow'
  <2> DEFINE new == [ops |-> {o}, own |-> FALSE, id |-> 0]
             f   == [t |-> "row", seq |-> HeadSeq + 1, ops |-> {o}]
  <2>1. /\ new \in Row /\ room' = [room EXCEPT !.rows = Append(@, new)]
        /\ f \in DownFrame
        /\ down' = IF relayed THEN Append(down, f) ELSE down
        /\ UNCHANGED <<doc, resumed, relayed>>
    BY <1>13, PeerFacts
  <2>2. f.t = "row" /\ f.seq = HeadSeq + 1 /\ f.ops = new.ops /\ ~new.own
    OBVIOUS
  <2> HIDE DEF f, new
  <2>3. room'.rows = Append(room.rows, new) /\ Len(room'.rows) = HeadSeq + 1
    BY <1>0, <2>1, AppendsRow, SeqFacts
  <2>4. CASE relayed
    <3>1. down' = Append(down, f) /\ f.t # "done" /\ f.seq <= Len(room'.rows)
      BY <1>0, <2>1, <2>2, <2>3, <2>4
    <3>2. new.ops \subseteq Seen(doc, Append(down, f), Len(down) + 1)
      BY <1>0, <2>1, <2>2, SeenAppend
    <3> QED BY <2>1, <2>2, <2>3, <2>4, <3>1, <3>2, FlowAppend
  <2>5. CASE ~relayed
    <3>1. resumed' => OwnIn(doc', room'.rows)
      BY <1>0, <2>1, <2>2, <2>3, OwnFacts DEF Flow
    <3> QED BY <2>1, <2>5, <3>1, FlowQuiet
  <2> QED BY <2>4, <2>5
<1> QED BY <1>2, <1>3, <1>4, <1>5, <1>6, <1>7, <1>8, <1>9, <1>10, <1>11, <1>12, <1>13
        DEF SyncNext, Client, HostTasks, Server

-----------------------------------------------------------------------------
(* The invariant holds.                                                     *)

\* The first open of a chat.
LEMMA InitSyncInv == SyncInit => SyncInv
<1> SUFFICES ASSUME SyncInit PROVE SyncInv
  OBVIOUS
<1> USE DEF SyncInit
<1>0. {InitOp} \in SUBSET Ops
  BY DEF Ops, MyOps
<1>1. NewRoom \in Room /\ NoPost \in Post /\ Len(NewRoom.rows) = 0 /\ NewRoom.rows = <<>>
      /\ NewRoom.ckpt = NoPost /\ NewRoom.floor = 0 /\ ~NoPost.there /\ NoPost.ops = {}
      /\ NoPost.seq = 0 /\ NoPost.era = 0
  BY SeqFacts DEF NewRoom, NoPost, Room, Post
<1>2. Shape
  <2>1. up \in Seq(UpFrame) /\ down \in Seq(DownFrame) /\ pending \in Seq(Batch)
        /\ buffer \in Seq(SUBSET Ops)
    BY <1>0, SeqFacts
  <2> QED BY <1>0, <1>1, <2>1 DEF Shape
<1>3. Link
  BY DEF Link
<1>4. Life
  BY <1>1 DEF Life
<1>5. Owned
  <2>1. Len(buffer) = 1 /\ buffer[1] = {InitOp} /\ Len(pending) = 0 /\ Len(up) = 0
    OBVIOUS
  <2> QED BY <2>1 DEF Owned
<1>6. Ckpt
  BY <1>1 DEF Ckpt
<1>7. Sound
  <2>1. \A D : Covers(D, <<>>, 0)
    BY DEF Covers
  <2>2. Cover
    <3>1. Len(down) = 0 /\ Len(up) = 0
      OBVIOUS
    <3> QED BY <1>1, <2>1, <3>1 DEF Cover
  <2>3. Flow
    <3>1. Len(down) = 0 /\ ~resumed /\ ~relayed
      OBVIOUS
    <3> QED BY <3>1 DEF Flow
  <2> QED BY <2>2, <2>3 DEF Sound
<1> QED BY <1>2, <1>3, <1>4, <1>5, <1>6, <1>7 DEF SyncInv

LEMMA FooledStays == ASSUME SyncNext, fooled PROVE fooled'
<1> USE DEF syncHist
<1>1. CASE RecvState \/ PostLands
  BY <1>1 DEF RecvState, PostLands
<1>2. CASE \/ \E o \in LocalOps : Commit(o)
           \/ \E o \in PeerOps : PeerPush(o)
           \/ Server
  BY <1>2 DEF Commit, PeerPush, Server, ServeHello, ServeRows, ServePush
<1>3. CASE SavePlain \/ PostFails \/ Drop \/ Wipe \/ CrashAndReopen \/ FetchMissing
  BY <1>3 DEF SavePlain, PostFails, Drop, Wipe, CrashAndReopen, FetchMissing
<1>4. CASE \/ Dial \/ SkipStale \/ FetchCheckpoint \/ RecvRow \/ RecvRowsDone \/ PushPending
           \/ PushHead \/ RecvAck \/ RecvError
  BY <1>4 DEF Dial, SkipStale, FetchCheckpoint, RecvRow, RecvRowsDone, PushPending, PushHead,
       RecvAck, RecvError
<1>5. CASE Install \/ HandleEvent \/ Bootstrap \/ Maintain
  BY <1>5 DEF Install, HandleEvent, Bootstrap, Maintain
<1> QED BY <1>1, <1>2, <1>3, <1>4, <1>5 DEF SyncNext, Client, HostTasks

\* Every step keeps the invariant.
LEMMA SyncInvStep ==
    ASSUME EarlyRows = FALSE, SyncInv, [SyncNext]_syncVars
    PROVE  SyncInv'
<1>0. Shape /\ Link /\ Life /\ Owned /\ Ckpt /\ Sound
  BY DEF SyncInv
<1>1. CASE UNCHANGED syncVars
  <2> USE DEF syncVars, clientVars, hostVars, netVars, syncHist, faultVars
  <2>1. Shape' /\ Link' /\ Life'
    BY <1>0, <1>1 DEF Shape, Link, Life
  <2>2. Owned' /\ Ckpt'
    BY <1>0, <1>1 DEF Owned, Ckpt
  <2>3. Sound'
    BY <1>0, <1>1 DEF Sound, Cover, Flow
  <2> QED BY <2>1, <2>2, <2>3 DEF SyncInv
<1>2. CASE SyncNext
  <2>1. Shape'
    BY <1>0, <1>2, ShapeStep
  <2>2. /\ down' \in Seq(DownFrame)
        /\ phase' \in {"down", "hello", "fetch", "backfill", "open"}
    BY <2>1 DEF Shape
  <2>3. Link'
    BY <1>0, <1>2, LinkStep
  <2>4. Life'
    BY <1>0, <1>2, LifeStep
  <2>5. Owned'
    BY <1>0, <1>2, OwnedStep
  <2>6. Ckpt'
    BY <1>0, <1>2, <2>2, <2>3, CkptStep
  <2>7. Sound'
    <3>1. SUFFICES ASSUME ~fooled' PROVE Cover' /\ Flow'
      BY DEF Sound
    <3>2. ~fooled
      BY <1>2, <3>1, FooledStays
    <3>3. Cover /\ Flow
      BY <1>0, <3>2 DEF Sound
    <3>4. Cover'
      BY <1>0, <1>2, <2>3, <3>1, <3>3, CoverStep
    <3>5. Flow'
      BY <1>0, <1>2, <2>2, <2>3, <3>3, FlowStep
    <3> QED BY <3>4, <3>5
  <2> QED BY <2>1, <2>3, <2>4, <2>5, <2>6, <2>7 DEF SyncInv
<1> QED BY <1>1, <1>2

\* No step makes the room forget.
LEMMA RoomStepHolds ==
    ASSUME SyncInv, [SyncNext]_syncVars
    PROVE  RoomStep
<1> USE DEF clientVars, hostVars, netVars, syncHist, faultVars
<1> SUFFICES ASSUME wipes' = wipes, ~fooled' PROVE RoomOps \subseteq RoomOps'
  BY DEF RoomStep
<1>0. /\ Shape /\ Life /\ Ckpt /\ (~fooled => Cover)
      /\ room.rows \in Seq(Row) /\ HeadSeq = Len(room.rows) /\ Len(room.rows) \in Nat
      /\ room.floor \in Nat /\ wipes \in Nat
  BY RoomFacts DEF SyncInv, Sound, Shape
<1>1. ASSUME UNCHANGED room PROVE RoomOps \subseteq RoomOps'
  BY <1>1 DEF RoomOps, HeadSeq
<1>2. ASSUME NEW r \in Row, room' = [room EXCEPT !.rows = Append(@, r)]
      PROVE  RoomOps \subseteq RoomOps'
  <2>1. /\ room'.rows = Append(room.rows, r) /\ room'.ckpt = room.ckpt
        /\ room'.floor = room.floor
    BY <1>0, <1>2, AppendsRow
  <2>2. /\ HeadSeq' = HeadSeq + 1
        /\ \A i \in 1..HeadSeq : room'.rows[i] = room.rows[i]
    BY <1>0, <2>1, SeqFacts DEF HeadSeq
  <2>3. \A i \in (room.floor + 1)..HeadSeq :
          i \in (room'.floor + 1)..HeadSeq' /\ room'.rows[i] = room.rows[i]
    BY <1>0, <2>1, <2>2
  <2> QED BY <2>1, <2>3 DEF RoomOps
<1>3. CASE PostLands
  <2>1. /\ posting.there /\ posting.era = wipes /\ ~fooled
        /\ room' = [room EXCEPT !.ckpt = posting, !.floor = posting.seq]
    BY <1>0, <1>3 DEF PostLands, Shape
  <2>2. room'.ckpt = posting /\ room'.floor = posting.seq /\ room'.rows = room.rows
    BY <1>0, <2>1 DEF Shape, Room
  <2>3. /\ room.ckpt.ops \subseteq posting.ops /\ posting.seq \in Nat
        /\ Covers(posting.ops, room.rows, posting.seq)
    BY <1>0, <2>1 DEF Ckpt, Cover, Shape, Post
  <2>4. ASSUME NEW i \in (room.floor + 1)..HeadSeq
        PROVE  \/ room.rows[i].ops \subseteq posting.ops
               \/ i \in (room'.floor + 1)..HeadSeq'
    BY <1>0, <2>2, <2>3 DEF Covers, HeadSeq
  <2> QED BY <2>2, <2>3, <2>4 DEF RoomOps
<1>4. CASE Wipe
  <2>1. wipes' = wipes + 1
    BY <1>4 DEF Wipe
  <2> QED BY <1>0, <2>1
<1>5. CASE ServePush
  BY <1>0, <1>1, <1>2, <1>5, ServeFacts
<1>6. ASSUME NEW o \in PeerOps, PeerPush(o) PROVE RoomOps \subseteq RoomOps'
  BY <1>0, <1>2, <1>6, PeerFacts
<1>7. CASE \/ \E o \in LocalOps : Commit(o)
           \/ SavePlain \/ Dial \/ SkipStale \/ RecvState \/ FetchCheckpoint \/ FetchMissing
           \/ RecvRow \/ RecvRowsDone \/ PushPending \/ PushHead \/ RecvAck \/ RecvError
           \/ Install \/ HandleEvent \/ Bootstrap \/ Maintain \/ ServeHello \/ ServeRows
           \/ PostFails \/ Drop \/ CrashAndReopen
  <2>1. UNCHANGED room
    BY <1>7 DEF Commit, SavePlain, Dial, SkipStale, RecvState, FetchCheckpoint, FetchMissing,
         RecvRow, RecvRowsDone, PushPending, PushHead, RecvAck, RecvError, Install, HandleEvent,
         Bootstrap, Maintain, ServeHello, ServeRows, PostFails, Drop, CrashAndReopen
  <2> QED BY <1>1, <2>1
<1>8. CASE UNCHANGED syncVars
  BY <1>1, <1>8 DEF syncVars
<1> QED BY <1>3, <1>4, <1>5, <1>6, <1>7, <1>8 DEF SyncNext, Client, HostTasks, Server

LEMMA IdsStep ==
    ASSUME Shape, Ids, [SyncNext]_syncVars
    PROVE  Ids'
<1> USE DEF clientVars, hostVars, netVars, syncHist, faultVars
<1>0. minted \in Nat /\ pending \in Seq(Batch)
  BY DEF Shape
<1>1. ASSUME minted' \in Nat, minted <= minted',
             \A i \in 1..Len(pending') : \/ \E j \in 1..Len(pending) : pending'[i] = pending[j]
                                         \/ pending'[i].id \in 1..minted'
      PROVE  Ids'
  <2> SUFFICES ASSUME NEW i \in 1..Len(pending') PROVE pending'[i].id \in 1..minted'
    BY DEF Ids
  <2>1. CASE pending'[i].id \in 1..minted'
    BY <2>1
  <2>2. ASSUME NEW j \in 1..Len(pending), pending'[i] = pending[j]
        PROVE  pending'[i].id \in 1..minted'
    <3>1. pending[j].id \in 1..minted
      BY DEF Ids
    <3> QED BY <1>0, <1>1, <2>2, <3>1
  <2> QED BY <1>1, <2>1, <2>2
<1>2. ASSUME NEW updates \in Seq(SUBSET Ops), Enqueue(updates) PROVE Ids'
  <2>1. /\ minted' \in Nat /\ minted <= minted'
        /\ \A i \in 1..Len(pending') : \/ \E j \in 1..Len(pending) : pending'[i] = pending[j]
                                       \/ pending'[i].id \in 1..minted'
    BY <1>2, EnqueueFacts
  <2> QED BY <1>1, <2>1
<1>3. ASSUME NEW id, pending' = Without(pending, id), UNCHANGED minted PROVE Ids'
  <2>1. \A i \in 1..Len(pending') : \E j \in 1..Len(pending) : pending'[i] = pending[j]
    BY <1>0, <1>3, WithoutFacts
  <2> QED BY <1>0, <1>1, <1>3, <2>1
<1>4. ASSUME UNCHANGED <<pending, minted>> PROVE Ids'
  BY <1>4 DEF Ids
<1>5. ASSUME NEW o \in LocalOps, Commit(o) PROVE Ids'
  <2>1. CASE slot
    <3>1. Enqueue(<<{o}>>) /\ {o} \in SUBSET Ops
      BY <1>5, <2>1 DEF Commit, Ops, MyOps
    <3>2. <<{o}>> \in Seq(SUBSET Ops)
      BY <3>1, SeqFacts
    <3> QED BY <1>2, <3>1, <3>2
  <2>2. CASE ~slot
    BY <1>4, <1>5, <2>2 DEF Commit
  <2> QED BY <2>1, <2>2
<1>6. CASE Install
  <2>1. Enqueue(buffer) /\ buffer \in Seq(SUBSET Ops)
    BY <1>6 DEF Install, Shape
  <2> QED BY <1>2, <2>1
<1>7. CASE RecvAck
  BY <1>3, <1>7 DEF RecvAck
<1>8. CASE RecvError
  <2>1. UNCHANGED minted
    BY <1>8 DEF RecvError
  <2>2. pending' = pending \/ pending' = Without(pending, Head(down).id)
    BY <1>8 DEF RecvError
  <2> QED BY <1>3, <1>4, <2>1, <2>2
<1>9. CASE CrashAndReopen
  <2>1. pending' = <<>>
    BY <1>9 DEF CrashAndReopen
  <2> QED BY <2>1 DEF Ids
<1>10. CASE FetchMissing \/ Drop \/ Wipe
  <2>1. UNCHANGED <<pending, minted>>
    BY <1>10, SessionFacts DEF FetchMissing, Drop, Wipe
  <2> QED BY <1>4, <2>1
<1>11. CASE \/ \E o \in PeerOps : PeerPush(o)
            \/ SavePlain \/ Dial \/ SkipStale \/ RecvState \/ FetchCheckpoint \/ RecvRow
            \/ RecvRowsDone \/ PushPending \/ PushHead \/ HandleEvent \/ Bootstrap \/ Maintain
            \/ ServeHello \/ ServeRows \/ ServePush \/ PostLands \/ PostFails
  BY <1>4, <1>11 DEF PeerPush, SavePlain, Dial, SkipStale, RecvState, FetchCheckpoint, RecvRow,
       RecvRowsDone, PushPending, PushHead, HandleEvent, Bootstrap, Maintain, ServeHello,
       ServeRows, ServePush, PostLands, PostFails
<1>12. CASE UNCHANGED syncVars
  BY <1>4, <1>12 DEF syncVars
<1> QED BY <1>5, <1>6, <1>7, <1>8, <1>9, <1>10, <1>11, <1>12
        DEF SyncNext, Client, HostTasks, Server

-----------------------------------------------------------------------------
(* Nothing is left behind.                                                  *)

\* A batch id names one set of operations, in the queue p.
Same(p, id, ops) == \A i \in 1..Len(p) : p[i].id = id => p[i].ops = ops

\* The queue, the pushes under way and the log agree on what each batch id stands for;
\* ids still to be handed out stand for nothing.
BatchIds ==
    /\ owed \in Nat
    /\ \A i \in 1..Len(pending) : Same(pending, pending[i].id, pending[i].ops)
    /\ \A k \in 1..Len(up) : up[k].t = "push" =>
         up[k].id <= minted /\ Same(pending, up[k].id, up[k].ops)
    /\ \A k \in 1..Len(room.rows) : room.rows[k].own =>
         room.rows[k].id <= minted /\ Same(pending, room.rows[k].id, room.rows[k].ops)

\* What a row brings and what an ack retires is in the room.
Arrives ==
    \A k \in 1..Len(down) :
      /\ down[k].t = "row" => down[k].ops \subseteq RoomOps
      /\ down[k].t = "ack" =>
           /\ down[k].id <= minted
           /\ \A i \in 1..Len(pending) : pending[i].id = down[k].id => pending[i].ops \subseteq RoomOps

\* A state frame promises no checkpoint that is not there, and a client opened in this
\* incarnation of the room counts its rows.
Told ==
    /\ \A k \in 1..Len(down) : down[k].t = "state" /\ down[k].ckpt.there => room.ckpt.there
    /\ opened.era = wipes => era = wipes

\* An operation is in the room, was given up, is queued, buffered or being posted.
Kept(x) ==
    \/ x \in RoomOps \/ x \in stranded
    \/ \E i \in 1..Len(pending) : x \in pending[i].ops
    \/ \E i \in 1..Len(buffer) : x \in buffer[i]
    \/ posting.there /\ x \in posting.ops
\* After a wipe: the client has yet to notice it, or the bootstrap check to post the
\* document.  No checkpoint of the new room exists or is on its way.
Late ==
    /\ ~room.ckpt.there /\ ~(posting.there /\ posting.era = wipes)
    /\ \/ era # wipes
       \/ (boot \/ ~slot) /\ ~view.ckpt
\* Otherwise an event is owed to the watcher, which posts the document.
Tracked == (\A x \in doc : Kept(x)) \/ (slot /\ owed > 0) \/ Late

LeftInv == Ids /\ BatchIds /\ Told /\ (~fooled => Arrives /\ Tracked)

\* enqueue_update: the new batches have new ids, and an update it refuses is reported.
LEMMA EnqueueTracks ==
    ASSUME Shape, owed \in Nat, NEW updates \in Seq(SUBSET Ops), Enqueue(updates)
    PROVE  /\ owed' \in Nat /\ owed' >= owed
           /\ \A i \in 1..Len(pending) : i \in 1..Len(pending') /\ pending'[i] = pending[i]
           /\ \A i \in 1..Len(pending') : i \notin 1..Len(pending) => pending'[i].id > minted
           /\ \A i, j \in 1..Len(pending') :
                i \notin 1..Len(pending) /\ pending'[i].id = pending'[j].id =>
                  i = j \/ j \in 1..Len(pending)
           /\ \/ owed' > 0
              \/ \A j \in 1..Len(updates) : \E i \in 1..Len(pending') : pending'[i].ops = updates[j]
<1> DEFINE refused == {i \in DOMAIN updates : updates[i] \cap Big # {}}
           S       == DOMAIN updates \ refused
           fits    == Picked(updates, S)
           new     == [i \in DOMAIN fits |-> [id |-> minted + i, ops |-> fits[i]]]
           L       == Len(pending)
           N       == Len(fits)
<1>1. /\ pending' = pending \o new /\ owed' = owed + Cardinality(refused)
      /\ DOMAIN updates = 1..Len(updates) /\ Len(updates) \in Nat
  BY DEF Enqueue
<1>2. refused \in SUBSET (1..Len(updates)) /\ S \in SUBSET DOMAIN updates
  BY <1>1
<1>3. IsFiniteSet(refused) /\ Cardinality(refused) \in Nat /\ (Cardinality(refused) = 0 => refused = {})
  <2>1. IsFiniteSet(1..Len(updates))
    BY ONLY updates \in Seq(SUBSET Ops), FS_Interval
  <2> HIDE DEF refused
  <2>2. IsFiniteSet(refused)
    BY <1>2, <2>1, FS_Subset
  <2> QED BY <2>2, FS_CardinalityType, FS_EmptySet
<1>4. refused = {} => S = 1..Len(updates)
  BY <1>1
<1> HIDE DEF refused, S
<1>5. /\ fits \in Seq(SUBSET Ops)
      /\ \A i \in S : \E k \in 1..Len(fits) : fits[k] = updates[i]
  BY ONLY updates \in Seq(SUBSET Ops), <1>2, PickedFacts
<1> HIDE DEF fits
<1>6. DOMAIN fits = 1..N /\ N \in Nat /\ pending \in Seq(Batch) /\ L \in Nat /\ minted \in Nat
  BY <1>5 DEF Shape
<1>7. new \in Seq(Batch) /\ Len(new) = N
      /\ \A k \in 1..N : new[k].id = minted + k /\ new[k].ops = fits[k]
  <2>1. \A i \in 1..N : [id |-> minted + i, ops |-> fits[i]] \in Batch
    BY <1>5, <1>6 DEF Batch
  <2> QED BY <1>6, <2>1
<1> HIDE DEF new
<1>8. /\ Len(pending') = L + N
      /\ \A i \in 1..L : pending'[i] = pending[i]
      /\ \A k \in 1..N : L + k \in 1..(L + N) /\ pending'[L + k] = new[k]
      /\ \A i \in 1..(L + N) : i \notin 1..L => i - L \in 1..N /\ pending'[i] = new[i - L]
  <2>1. pending' = pending \o new
    BY <1>1
  <2>2. /\ Len(pending \o new) = Len(pending) + Len(new)
        /\ \A i \in 1..Len(pending) : (pending \o new)[i] = pending[i]
        /\ \A i \in 1..Len(pending \o new) : i \notin 1..Len(pending) =>
             i - Len(pending) \in 1..Len(new) /\ (pending \o new)[i] = new[i - Len(pending)]
    <3>1. pending \in Seq(Batch) /\ new \in Seq(Batch)
      BY <1>6, <1>7
    <3> QED BY ONLY <3>1, ConcatFacts
  <2>3. /\ Len(pending') = L + N
        /\ \A i \in 1..L : pending'[i] = pending[i]
        /\ \A i \in 1..(L + N) : i \notin 1..L => i - L \in 1..N /\ pending'[i] = new[i - L]
    BY <1>7, <2>1, <2>2
  <2> HIDE DEF L, N
  <2>4. \A k \in 1..N : L + k \in 1..(L + N) /\ L + k \notin 1..L /\ (L + k) - L = k
    BY <1>6
  <2>5. \A k \in 1..N : pending'[L + k] = new[k]
    BY <2>3, <2>4
  <2> QED BY <2>3, <2>4, <2>5
<1>9. \A i \in 1..Len(pending') : i \notin 1..L =>
        i - L \in 1..N /\ pending'[i].id = minted + (i - L)
  BY <1>7, <1>8
<1> HIDE DEF L, N
<1>10. \A i \in 1..L : i \in 1..Len(pending') /\ pending'[i] = pending[i]
  BY <1>6, <1>8
<1>11. \A i \in 1..Len(pending') : i \notin 1..L => pending'[i].id > minted
  BY <1>6, <1>9
<1>12. \A i, j \in 1..Len(pending') :
         i \notin 1..L /\ pending'[i].id = pending'[j].id => i = j \/ j \in 1..L
  BY <1>6, <1>8, <1>9
<1>13. owed' \in Nat /\ owed' >= owed /\ (owed' > 0 \/ refused = {})
  BY <1>1, <1>3
<1>14. ASSUME refused = {}, NEW j \in 1..Len(updates)
       PROVE  \E i \in 1..Len(pending') : pending'[i].ops = updates[j]
  <2>1. PICK k \in 1..Len(fits) : fits[k] = updates[j]
    BY <1>4, <1>5, <1>14
  <2>2. k \in 1..N
    BY <2>1 DEF N
  <2>3. L + k \in 1..Len(pending') /\ pending'[L + k].ops = updates[j]
    BY <1>7, <1>8, <2>1, <2>2
  <2> QED BY <2>3
<1> QED BY <1>10, <1>11, <1>12, <1>13, <1>14 DEF L

\* Retiring the batch of an id: the others are still there.
LEMMA WithoutKeeps ==
    ASSUME NEW batches \in Seq(Batch), NEW id
    PROVE  \A i \in 1..Len(batches) : batches[i].id # id =>
             \E k \in 1..Len(Without(batches, id)) : Without(batches, id)[k] = batches[i]
<1> DEFINE S == DOMAIN batches \ Named(batches, id)
<1>1. S \in SUBSET DOMAIN batches /\ DOMAIN batches = 1..Len(batches)
      /\ \A i \in 1..Len(batches) : batches[i].id # id => i \in S
  BY DEF Named
<1>2. Without(batches, id) = Picked(batches, S)
  BY DEF Without
<1> HIDE DEF S
<1>3. \A i \in S : \E k \in 1..Len(Picked(batches, S)) : Picked(batches, S)[k] = batches[i]
  BY <1>1, PickedFacts
<1> QED BY <1>1, <1>2, <1>3

\* How the queue moves: batches leave it, or new ones join with new ids.
LEMMA PendingMoves ==
    ASSUME Shape, Ids, BatchIds, SyncNext
    PROVE  /\ owed' \in Nat /\ minted <= minted'
           /\ \A i \in 1..Len(pending') : \/ \E j \in 1..Len(pending) : pending'[i] = pending[j]
                                          \/ pending'[i].id > minted
           /\ \A i \in 1..Len(pending') : Same(pending', pending'[i].id, pending'[i].ops)
<1> USE DEF clientVars, hostVars, netVars, syncHist, faultVars
<1>0. /\ pending \in Seq(Batch) /\ minted \in Nat /\ owed \in Nat
      /\ \A i \in 1..Len(pending) : Same(pending, pending[i].id, pending[i].ops)
      /\ \A i \in 1..Len(pending) : pending[i].id \in 1..minted
  BY DEF Shape, BatchIds, Ids
<1> DEFINE Goal == /\ owed' \in Nat /\ minted <= minted'
                   /\ \A i \in 1..Len(pending') : \/ \E j \in 1..Len(pending) : pending'[i] = pending[j]
                                                  \/ pending'[i].id > minted
                   /\ \A i \in 1..Len(pending') : Same(pending', pending'[i].id, pending'[i].ops)
<1> SUFFICES Goal
  OBVIOUS
<1>1. ASSUME owed' \in Nat, UNCHANGED <<pending, minted>> PROVE Goal
  BY <1>0, <1>1
<1>2. ASSUME owed' \in Nat, minted' = minted,
             \A i \in 1..Len(pending') : \E j \in 1..Len(pending) : pending'[i] = pending[j]
      PROVE  Goal
  <2>1. ASSUME NEW i \in 1..Len(pending'), NEW j \in 1..Len(pending'),
               pending'[j].id = pending'[i].id
        PROVE  pending'[j].ops = pending'[i].ops
    <3>1. PICK m \in 1..Len(pending) : pending'[i] = pending[m]
      BY <1>2
    <3>2. PICK n \in 1..Len(pending) : pending'[j] = pending[n]
      BY <1>2
    <3> QED BY <1>0, <2>1, <3>1, <3>2 DEF Same
  <2>2. minted <= minted'
    BY <1>0, <1>2
  <2> QED BY <1>2, <2>1, <2>2 DEF Same
<1>3. ASSUME NEW updates \in Seq(SUBSET Ops), Enqueue(updates) PROVE Goal
  <2>1. minted <= minted'
    BY <1>3, EnqueueFacts
  <2>2. /\ owed' \in Nat
        /\ \A i \in 1..Len(pending) : i \in 1..Len(pending') /\ pending'[i] = pending[i]
        /\ \A i \in 1..Len(pending') : i \notin 1..Len(pending) => pending'[i].id > minted
        /\ \A i, j \in 1..Len(pending') :
             i \notin 1..Len(pending) /\ pending'[i].id = pending'[j].id =>
               i = j \/ j \in 1..Len(pending)
    BY <1>0, <1>3, EnqueueTracks
  <2>3. ASSUME NEW i \in 1..Len(pending'), NEW j \in 1..Len(pending'),
               pending'[j].id = pending'[i].id
        PROVE  pending'[j].ops = pending'[i].ops
    <3>1. CASE i \in 1..Len(pending) /\ j \in 1..Len(pending)
      BY <1>0, <2>2, <2>3, <3>1 DEF Same
    <3>2. CASE i \in 1..Len(pending) /\ j \notin 1..Len(pending)
      <4>1. pending'[i].id \in 1..minted /\ pending'[j].id > minted
        BY <1>0, <2>2, <3>2
      <4> QED BY <1>0, <2>3, <4>1
    <3>3. CASE i \notin 1..Len(pending) /\ j \in 1..Len(pending)
      <4>1. pending'[j].id \in 1..minted /\ pending'[i].id > minted
        BY <1>0, <2>2, <3>3
      <4> QED BY <1>0, <2>3, <4>1
    <3>4. CASE i \notin 1..Len(pending) /\ j \notin 1..Len(pending)
      BY <2>2, <2>3, <3>4
    <3> QED BY <3>1, <3>2, <3>3, <3>4
  <2>4. \A i \in 1..Len(pending') : \/ \E j \in 1..Len(pending) : pending'[i] = pending[j]
                                    \/ pending'[i].id > minted
    BY <2>2
  <2> QED BY <2>1, <2>2, <2>3, <2>4 DEF Same
<1> HIDE DEF Goal
<1>4. ASSUME NEW o \in LocalOps, Commit(o) PROVE Goal
  <2>1. CASE slot
    <3>1. Enqueue(<<{o}>>) /\ {o} \in SUBSET Ops
      BY <1>4, <2>1 DEF Commit, Ops, MyOps
    <3>2. <<{o}>> \in Seq(SUBSET Ops)
      BY <3>1, SeqFacts
    <3> QED BY <1>3, <3>1, <3>2
  <2>2. CASE ~slot
    BY <1>0, <1>1, <1>4, <2>2 DEF Commit
  <2> QED BY <2>1, <2>2
<1>5. CASE Install
  BY <1>3, <1>5 DEF Install, Shape
<1>6. CASE RecvAck \/ RecvError
  <2>1. /\ owed' \in {owed, owed + 1} /\ minted' = minted
        /\ pending' = pending \/ pending' = Without(pending, Head(down).id)
    BY <1>6 DEF RecvAck, RecvError, OwedAfter
  <2>2. \A i \in 1..Len(pending') : \E j \in 1..Len(pending) : pending'[i] = pending[j]
    BY <1>0, <2>1, WithoutFacts
  <2>3. owed' \in Nat
    BY <1>0, <2>1
  <2> QED BY <1>2, <2>1, <2>2, <2>3
<1>7. CASE CrashAndReopen
  <2>1. owed' = 0 /\ pending' = <<>> /\ minted' = minted
    BY <1>7 DEF CrashAndReopen
  <2> QED BY <1>2, <2>1
<1>8. CASE FetchMissing \/ Drop \/ Wipe
  <2>1. UNCHANGED <<pending, minted, owed>>
    BY <1>8, SessionFacts DEF FetchMissing, Drop, Wipe
  <2> QED BY <1>0, <1>1, <2>1
<1>9. CASE RecvState
  <2>1. owed' \in {owed, owed + 1} /\ UNCHANGED <<pending, minted>>
    BY <1>9 DEF RecvState
  <2>2. owed' \in Nat
    BY <1>0, <2>1
  <2> QED BY <1>1, <2>1, <2>2
<1>10. CASE HandleEvent
  <2>1. owed > 0 /\ owed' = owed - 1 /\ UNCHANGED <<pending, minted>>
    BY <1>10 DEF HandleEvent
  <2>2. owed' \in Nat
    BY <1>0, <2>1
  <2> QED BY <1>1, <2>1, <2>2
<1>11. CASE \/ \E o \in PeerOps : PeerPush(o)
            \/ SavePlain \/ Dial \/ SkipStale \/ FetchCheckpoint \/ RecvRow
            \/ RecvRowsDone \/ PushPending \/ PushHead \/ Bootstrap \/ Maintain
            \/ ServeHello \/ ServeRows \/ ServePush \/ PostLands \/ PostFails
  <2>1. UNCHANGED <<pending, minted, owed>>
    BY <1>11 DEF PeerPush, SavePlain, Dial, SkipStale, FetchCheckpoint, RecvRow,
       RecvRowsDone, PushPending, PushHead, Bootstrap, Maintain, ServeHello,
       ServeRows, ServePush, PostLands, PostFails
  <2> QED BY <1>0, <1>1, <2>1
<1> QED
  BY <1>4, <1>5, <1>6, <1>7, <1>8, <1>9, <1>10, <1>11
     DEF SyncNext, Client, HostTasks, Server

\* What is pushed is queued or was; what the log holds of this device was pushed.
LEMMA UpMoves ==
    ASSUME Shape, SyncNext
    PROVE  \A k \in 1..Len(up') : up'[k].t = "push" =>
             \/ \E j \in 1..Len(up) : up'[k] = up[j]
             \/ /\ UNCHANGED <<pending, minted>>
                /\ \E j \in 1..Len(pending) :
                     up'[k].id = pending[j].id /\ up'[k].ops = pending[j].ops
<1> USE DEF clientVars, hostVars, netVars, syncHist, faultVars
<1>0. up \in Seq(UpFrame) /\ pending \in Seq(Batch)
  BY DEF Shape
<1> DEFINE Goal == \A k \in 1..Len(up') : up'[k].t = "push" =>
                     \/ \E j \in 1..Len(up) : up'[k] = up[j]
                     \/ /\ UNCHANGED <<pending, minted>>
                        /\ \E j \in 1..Len(pending) :
                             up'[k].id = pending[j].id /\ up'[k].ops = pending[j].ops
<1> SUFFICES Goal
  OBVIOUS
<1>1. ASSUME up' = up PROVE Goal
  BY <1>1
<1>2. CASE Dial
  <2>1. up' = <<[t |-> "hello"]>>
    BY <1>2 DEF Dial
  <2> QED BY <2>1
<1>3. ASSUME NEW n, up' = Append(up, RowsReq(n)) PROVE Goal
  <2>1. RowsReq(n).t = "rows_req"
    BY DEF RowsReq
  <2> DEFINE r == RowsReq(n)
  <2> HIDE DEF r
  <2>2. /\ Len(Append(up, r)) = Len(up) + 1 /\ Len(up) \in Nat
        /\ \A i \in 1..Len(up) : Append(up, r)[i] = up[i]
        /\ Append(up, r)[Len(up) + 1] = r
    BY <1>0
  <2>3. up' = Append(up, r) /\ r.t = "rows_req"
    BY <1>3, <2>1 DEF r
  <2>4. ASSUME NEW k \in 1..Len(up'), up'[k].t = "push" PROVE \E j \in 1..Len(up) : up'[k] = up[j]
    <3>1. k # Len(up) + 1
      BY <2>2, <2>3, <2>4
    <3>2. k \in 1..Len(up)
      BY <2>2, <2>3, <3>1
    <3> QED BY <2>2, <2>3, <3>2
  <2> QED BY <2>4
<1>4. CASE RecvRowsDone \/ PushPending \/ PushHead
  <2> DEFINE b == IF PushHead
                  THEN IF pending = <<>> THEN <<>> ELSE <<Head(pending)>>
                  ELSE pending
             f == PushFrames(b)
  <2>1. b \in Seq(Batch) /\ \A i \in 1..Len(b) : \E j \in 1..Len(pending) : b[i] = pending[j]
    BY <1>0
  <2>2. up' = up \o PushFrames(b) /\ UNCHANGED <<pending, minted>>
    BY <1>4 DEF RecvRowsDone, PushPending, PushHead
  <2> HIDE DEF b
  <2>3. f \in Seq(UpFrame) /\ Len(f) = Len(b)
        /\ \A i \in 1..Len(b) : f[i].id = b[i].id /\ f[i].ops = b[i].ops
    <3>1. f \in Seq(UpFrame) /\ Len(f) = Len(b)
      BY <2>1, PushFramesFacts
    <3>2. DOMAIN b = 1..Len(b)
      BY <2>1
    <3> QED BY <3>1, <3>2 DEF PushFrames
  <2>4. up' = up \o f
    BY <2>2
  <2> HIDE DEF f
  <2>5. /\ \A i \in 1..Len(up) : up'[i] = up[i]
        /\ \A i \in 1..Len(up') : i \notin 1..Len(up) =>
             i - Len(up) \in 1..Len(f) /\ up'[i] = f[i - Len(up)]
    BY <1>0, <2>3, <2>4
  <2>6. ASSUME NEW k \in 1..Len(up'), k \notin 1..Len(up)
        PROVE  \E j \in 1..Len(pending) :
                 up'[k].id = pending[j].id /\ up'[k].ops = pending[j].ops
    <3>1. k - Len(up) \in 1..Len(b) /\ up'[k] = f[k - Len(up)]
      BY <2>3, <2>5, <2>6
    <3> QED BY <2>1, <2>3, <3>1
  <2> QED BY <2>2, <2>5, <2>6
<1>5. CASE Server
  <2>1. up # <<>> /\ up' = Tail(up)
    BY <1>5 DEF Server, ServeHello, ServeRows, ServePush
  <2>2. \A k \in 1..Len(Tail(up)) : Tail(up)[k] = up[k + 1] /\ k + 1 \in 1..Len(up)
    BY <1>0, <2>1, QueueFacts
  <2> QED BY <2>1, <2>2
<1>6. CASE FetchMissing \/ Drop \/ Wipe \/ CrashAndReopen
  <2>1. up' = <<>>
    BY <1>6, SessionFacts DEF FetchMissing, Drop, Wipe, CrashAndReopen
  <2> QED BY <2>1
<1> HIDE DEF Goal
<1>7. CASE RecvState
  <2>1. up' = up \/ \E n : up' = Append(up, RowsReq(n))
    BY <1>7 DEF RecvState
  <2> QED BY <1>1, <1>3, <2>1
<1>8. CASE FetchCheckpoint
  BY <1>3, <1>8 DEF FetchCheckpoint
<1>9. CASE \/ \E o \in LocalOps : Commit(o)
           \/ \E o \in PeerOps : PeerPush(o)
           \/ SavePlain \/ SkipStale \/ RecvRow \/ RecvAck \/ RecvError \/ Install
           \/ HandleEvent \/ Bootstrap \/ Maintain \/ PostLands \/ PostFails
  <2>1. up' = up
    BY <1>9 DEF Commit, PeerPush, SavePlain, SkipStale, RecvRow, RecvAck, RecvError, Install,
       HandleEvent, Bootstrap, Maintain, PostLands, PostFails
  <2> QED BY <1>1, <2>1
<1> QED
  BY <1>2, <1>4, <1>5, <1>6, <1>7, <1>8, <1>9 DEF SyncNext, Client, HostTasks

\* How the log moves.
LEMMA RowMoves ==
    ASSUME Shape, SyncNext
    PROVE  \A k \in 1..Len(room'.rows) : room'.rows[k].own =>
             \/ \E j \in 1..Len(room.rows) : room'.rows[k] = room.rows[j]
             \/ /\ up # <<>> /\ Head(up).t = "push" /\ UNCHANGED <<pending, minted>>
                /\ room'.rows[k].id = Head(up).id /\ room'.rows[k].ops = Head(up).ops
<1> USE DEF clientVars, hostVars, netVars, syncHist, faultVars
<1>0. room \in Room /\ room.rows \in Seq(Row)
  BY RoomFacts DEF Shape
<1> DEFINE Goal == \A k \in 1..Len(room'.rows) : room'.rows[k].own =>
                     \/ \E j \in 1..Len(room.rows) : room'.rows[k] = room.rows[j]
                     \/ /\ up # <<>> /\ Head(up).t = "push" /\ UNCHANGED <<pending, minted>>
                        /\ room'.rows[k].id = Head(up).id /\ room'.rows[k].ops = Head(up).ops
<1> SUFFICES Goal
  OBVIOUS
<1>1. ASSUME room'.rows = room.rows PROVE Goal
  BY <1>1
<1>2. ASSUME NEW r \in Row, room'.rows = Append(room.rows, r),
             r.own => /\ up # <<>> /\ Head(up).t = "push" /\ UNCHANGED <<pending, minted>>
                      /\ r.id = Head(up).id /\ r.ops = Head(up).ops
      PROVE  Goal
  <2>1. /\ Len(room'.rows) = Len(room.rows) + 1 /\ Len(room.rows) \in Nat
        /\ \A i \in 1..Len(room.rows) : room'.rows[i] = room.rows[i]
        /\ room'.rows[Len(room.rows) + 1] = r
    BY <1>0, <1>2, SeqFacts
  <2>2. \A k \in 1..Len(room'.rows) : k \in 1..Len(room.rows) \/ k = Len(room.rows) + 1
    BY <2>1
  <2> QED BY <1>2, <2>1, <2>2
<1> HIDE DEF Goal
<1>3. CASE ServePush
  <2>1. /\ up # <<>> /\ Head(up).t = "push"
        /\ \/ UNCHANGED room
           \/ LET new == [ops |-> Head(up).ops, own |-> TRUE, id |-> Head(up).id]
              IN  new \in Row /\ room' = [room EXCEPT !.rows = Append(@, new)]
    BY <1>3, ServeFacts
  <2>2. UNCHANGED <<pending, minted>>
    BY <1>3 DEF ServePush
  <2> DEFINE new == [ops |-> Head(up).ops, own |-> TRUE, id |-> Head(up).id]
  <2>3. CASE new \in Row /\ room' = [room EXCEPT !.rows = Append(@, new)]
    <3>1. new.id = Head(up).id /\ new.ops = Head(up).ops
      OBVIOUS
    <3> HIDE DEF new
    <3>2. room'.rows = Append(room.rows, new)
      BY <2>3, AppendsRow
    <3> QED BY <1>2, <2>1, <2>2, <2>3, <3>1, <3>2
  <2> QED BY <1>1, <2>1, <2>3
<1>4. ASSUME NEW o \in PeerOps, PeerPush(o) PROVE Goal
  <2> DEFINE new == [ops |-> {o}, own |-> FALSE, id |-> 0]
  <2>1. new \in Row /\ room' = [room EXCEPT !.rows = Append(@, new)] /\ ~new.own
    BY <1>4, PeerFacts
  <2> HIDE DEF new
  <2>2. room'.rows = Append(room.rows, new)
    BY <2>1, AppendsRow
  <2> QED BY <1>2, <2>1, <2>2
<1>5. CASE Wipe
  <2>1. room'.rows = <<>>
    BY <1>5 DEF Wipe, NewRoom
  <2> QED BY <2>1 DEF Goal
<1>6. CASE PostLands
  <2>1. room' = [room EXCEPT !.ckpt = posting, !.floor = posting.seq]
    BY <1>6 DEF PostLands
  <2>2. room'.rows = room.rows
    BY <1>0, <2>1 DEF Room
  <2> QED BY <1>1, <2>2
<1>7. CASE \/ \E o \in LocalOps : Commit(o)
           \/ SavePlain \/ Dial \/ SkipStale \/ RecvState \/ FetchCheckpoint \/ FetchMissing
           \/ RecvRow \/ RecvRowsDone \/ PushPending \/ PushHead \/ RecvAck \/ RecvError
           \/ Install \/ HandleEvent \/ Bootstrap \/ Maintain \/ ServeHello \/ ServeRows
           \/ PostFails \/ Drop \/ CrashAndReopen
  <2>1. UNCHANGED room
    BY <1>7 DEF Commit, SavePlain, Dial, SkipStale, RecvState, FetchCheckpoint, FetchMissing,
         RecvRow, RecvRowsDone, PushPending, PushHead, RecvAck, RecvError, Install, HandleEvent,
         Bootstrap, Maintain, ServeHello, ServeRows, PostFails, Drop, CrashAndReopen
  <2> QED BY <1>1, <2>1, SMTT(30)
<1> QED
  BY <1>3, <1>4, <1>5, <1>6, <1>7 DEF SyncNext, Client, HostTasks, Server

\* Batch ids keep their meaning.
LEMMA BatchIdsStep ==
    ASSUME Shape, minted' \in Nat, Ids, BatchIds, SyncNext
    PROVE  BatchIds'
<1>0. minted \in Nat /\ up \in Seq(UpFrame)
  BY DEF Shape
<1>1. /\ owed' \in Nat /\ minted <= minted'
      /\ \A i \in 1..Len(pending') : \/ \E j \in 1..Len(pending) : pending'[i] = pending[j]
                                     \/ pending'[i].id > minted
      /\ \A i \in 1..Len(pending') : Same(pending', pending'[i].id, pending'[i].ops)
  BY PendingMoves
<1>2. minted' \in Nat
  OBVIOUS
<1>3. ASSUME NEW id \in Nat, NEW ops, id <= minted, Same(pending, id, ops)
      PROVE  id <= minted' /\ Same(pending', id, ops)
  <2>1. id <= minted'
    BY <1>0, <1>1, <1>2, <1>3
  <2>2. ASSUME NEW i \in 1..Len(pending'), pending'[i].id = id PROVE pending'[i].ops = ops
    <3>1. PICK j \in 1..Len(pending) : pending'[i] = pending[j]
      BY <1>0, <1>1, <1>3, <2>2
    <3> QED BY <1>3, <2>2, <3>1 DEF Same
  <2> QED BY <2>1, <2>2 DEF Same
<1>4. \A j \in 1..Len(pending) :
        /\ pending[j].id \in Nat /\ pending[j].id <= minted
        /\ Same(pending, pending[j].id, pending[j].ops)
  BY <1>0 DEF Ids, BatchIds
<1>5. \A j \in 1..Len(up) : up[j].t = "push" =>
        /\ up[j].id \in Nat /\ up[j].id <= minted /\ Same(pending, up[j].id, up[j].ops)
  <2>1. \A j \in 1..Len(up) : up[j].t = "push" => up[j].id \in Nat
    BY <1>0, FrameFacts
  <2> QED BY <2>1 DEF BatchIds
<1>6. \A j \in 1..Len(room.rows) : room.rows[j].own =>
        /\ room.rows[j].id \in Nat /\ room.rows[j].id <= minted
        /\ Same(pending, room.rows[j].id, room.rows[j].ops)
  <2>1. \A j \in 1..Len(room.rows) : room.rows[j] \in Row
    BY RoomFacts, SMTT(30) DEF Shape
  <2>2. \A j \in 1..Len(room.rows) : room.rows[j].id \in Nat
    BY <2>1 DEF Row
  <2> QED BY <2>2 DEF BatchIds
<1>7. ASSUME NEW k \in 1..Len(up'), up'[k].t = "push"
      PROVE  up'[k].id <= minted' /\ Same(pending', up'[k].id, up'[k].ops)
  <2>1. CASE \E j \in 1..Len(up) : up'[k] = up[j]
    BY <1>3, <1>5, <1>7, <2>1
  <2>2. CASE \E j \in 1..Len(pending) :
               up'[k].id = pending[j].id /\ up'[k].ops = pending[j].ops
    BY <1>3, <1>4, <2>2
  <2> QED BY <1>7, <2>1, <2>2, UpMoves
<1>8. ASSUME NEW k \in 1..Len(room'.rows), room'.rows[k].own
      PROVE  room'.rows[k].id <= minted' /\ Same(pending', room'.rows[k].id, room'.rows[k].ops)
  <2>1. CASE \E j \in 1..Len(room.rows) : room'.rows[k] = room.rows[j]
    BY <1>3, <1>6, <1>8, <2>1
  <2>2. CASE /\ up # <<>> /\ Head(up).t = "push"
             /\ room'.rows[k].id = Head(up).id /\ room'.rows[k].ops = Head(up).ops
    <3>1. Head(up) = up[1] /\ 1 \in 1..Len(up)
      BY <1>0, <2>2, QueueFacts
    <3> QED BY <1>3, <1>5, <2>2, <3>1
  <2> QED BY <1>8, <2>1, <2>2, RowMoves
<1> QED BY <1>1, <1>7, <1>8 DEF BatchIds

\* Every row of the log is in the room, pruned or not.
LEMMA RowsInRoom ==
    ASSUME NEW r \in Room, Covers(r.ckpt.ops, r.rows, r.floor), NEW i \in 1..Len(r.rows)
    PROVE  r.rows[i].ops \subseteq
             r.ckpt.ops \cup UNION {r.rows[j].ops : j \in (r.floor + 1)..Len(r.rows)}
<1>1. r.floor \in Nat /\ r.rows \in Seq(Row) /\ Len(r.rows) \in Nat
  BY DEF Room
<1>2. CASE i <= r.floor
  BY <1>1, <1>2 DEF Covers
<1>3. CASE ~(i <= r.floor)
  <2>1. i \in (r.floor + 1)..Len(r.rows)
    BY <1>1, <1>3
  <2> QED BY <2>1
<1> QED BY <1>2, <1>3

\* What the room sends: its state, rows it holds, the ack of a row in its log.
LEMMA DownMoves ==
    ASSUME Shape, Ckpt, SyncNext
    PROVE  \A k \in 1..Len(down') :
             \/ \E j \in 1..Len(down) : down'[k] = down[j]
             \/ down'[k].t \in {"presence", "done", "error"}
             \/ down'[k].t = "state" /\ down'[k].ckpt = room.ckpt /\ UNCHANGED room
             \/ /\ down'[k].t = "row"
                /\ \E i \in (room'.floor + 1)..Len(room'.rows) : down'[k].ops = room'.rows[i].ops
             \/ /\ down'[k].t = "ack"
                /\ \E i \in 1..Len(room'.rows) :
                     room'.rows[i].own /\ room'.rows[i].id = down'[k].id
<1> USE DEF clientVars, hostVars, netVars, syncHist, faultVars
<1>0. down \in Seq(DownFrame) /\ room \in Room /\ room.rows \in Seq(Row) /\ room.floor \in Nat
      /\ Len(down) \in Nat /\ Len(room.rows) \in Nat /\ HeadSeq = Len(room.rows)
  BY RoomFacts DEF Shape
<1> DEFINE New(f) ==
             \/ f.t \in {"presence", "done", "error"}
             \/ f.t = "state" /\ f.ckpt = room.ckpt /\ UNCHANGED room
             \/ /\ f.t = "row"
                /\ \E i \in (room'.floor + 1)..Len(room'.rows) : f.ops = room'.rows[i].ops
             \/ /\ f.t = "ack"
                /\ \E i \in 1..Len(room'.rows) :
                     room'.rows[i].own /\ room'.rows[i].id = f.id
           Goal == \A k \in 1..Len(down') : (\E j \in 1..Len(down) : down'[k] = down[j]) \/ New(down'[k])
<1> SUFFICES Goal
  OBVIOUS
<1>1. ASSUME down' = down PROVE Goal
  BY <1>1
<1>2. ASSUME down # <<>>, down' = Tail(down) PROVE Goal
  <2>1. \A k \in 1..Len(Tail(down)) : Tail(down)[k] = down[k + 1] /\ k + 1 \in 1..Len(down)
    BY <1>0, <1>2, QueueFacts
  <2> QED BY <1>2, <2>1
<1>3. ASSUME down' = <<>> PROVE Goal
  BY <1>3
<1>4. ASSUME NEW f, down' = Append(down, f), New(f) PROVE Goal
  <2> HIDE DEF New
  <2>1. /\ Len(down') = Len(down) + 1
        /\ \A i \in 1..Len(down) : down'[i] = down[i]
        /\ down'[Len(down) + 1] = f
    BY <1>0, <1>4
  <2>2. \A k \in 1..Len(down') : k \in 1..Len(down) \/ k = Len(down) + 1
    BY <1>0, <2>1
  <2> QED BY <1>4, <2>1, <2>2
<1>5. ASSUME NEW fs \in Seq(DownFrame), down' = down \o fs, \A i \in 1..Len(fs) : New(fs[i])
      PROVE  Goal
  <2> HIDE DEF New
  <2>1. /\ \A i \in 1..Len(down) : down'[i] = down[i]
        /\ \A i \in 1..Len(down') : i \notin 1..Len(down) =>
             i - Len(down) \in 1..Len(fs) /\ down'[i] = fs[i - Len(down)]
    BY <1>0, <1>5
  <2> QED BY <1>5, <2>1
<1>6. CASE ServeHello
  <2> DEFINE st == [t |-> "state", head |-> HeadSeq, ckpt |-> room.ckpt,
                    rowCount |-> HeadSeq - room.floor]
             pr == [t |-> "presence"]
  <2>0. st \in DownFrame /\ pr \in DownFrame
    BY HeadFacts, FrameTypes
  <2>1. UNCHANGED room /\ (down' = down \o <<>> \o <<st>> \/ down' = down \o <<pr>> \o <<st>>)
    BY <1>6 DEF ServeHello
  <2>2. New(st) /\ New(pr)
    BY <2>1
  <2> HIDE DEF st, pr, New
  <2>3. CASE down' = down \o <<>> \o <<st>>
    <3>1. down' = down \o <<st>> /\ <<st>> \in Seq(DownFrame) /\ Len(<<st>>) = 1 /\ <<st>>[1] = st
      BY <1>0, <2>0, <2>3
    <3>2. \A i \in 1..Len(<<st>>) : New(<<st>>[i])
      BY <2>2, <3>1
    <3> HIDE DEF Goal
    <3> QED BY <1>5, <3>1, <3>2
  <2>4. CASE down' = down \o <<pr>> \o <<st>>
    <3> DEFINE fs == <<pr>> \o <<st>>
    <3>0. <<pr>> \in Seq(DownFrame) /\ <<st>> \in Seq(DownFrame)
      BY <2>0, SeqFacts
    <3>1. fs \in Seq(DownFrame) /\ Len(fs) = 2 /\ fs[1] = pr /\ fs[2] = st
      BY <3>0
    <3>2. down' = down \o fs
      <4>1. down \in Seq(DownFrame)
        BY <1>0
      <4>2. (down \o <<pr>>) \o <<st>> = down \o (<<pr>> \o <<st>>)
        BY ONLY <3>0, <4>1, ConcatAssociative
      <4> QED BY <2>4, <4>2
    <3> HIDE DEF fs
    <3>3. \A i \in 1..Len(fs) : New(fs[i])
      BY <2>2, <3>1
    <3> HIDE DEF Goal
    <3> QED BY <1>5, <3>1, <3>2, <3>3
  <2> QED BY <2>1, <2>3, <2>4
<1>7. CASE ServeRows
  <2> DEFINE req == Head(up)
             from == IF req.after > room.floor THEN req.after ELSE room.floor
             sent == {i \in (from + 1)..HeadSeq : ~(req.excludeOwn /\ room.rows[i].own)}
             b == Backfill(req)
             d == [t |-> "done"]
             fs == Append(b, d)
  <2>1. up # <<>> /\ req.t = "rows_req" /\ down' = down \o fs /\ room' = room
    BY <1>7 DEF ServeRows
  <2>2. req.after \in Nat
    BY <2>1, QueueFacts, FrameFacts DEF Shape
  <2>3. b \in Seq(DownFrame) /\ \A k \in 1..Len(b) : \E i \in sent : b[k] = RowFrame(i)
    <3>1. /\ Backfill(req) \in Seq(DownFrame)
          /\ \A k \in 1..Len(Backfill(req)) :
               Nth(sent, k) \in sent /\ Backfill(req)[k] = RowFrame(Nth(sent, k))
      BY <2>2, BackfillFacts
    <3> QED BY <3>1
  <2>4. \A i \in sent : i \in (room'.floor + 1)..Len(room'.rows)
    BY <1>0, <2>1, <2>2
  <2>5. \A i : RowFrame(i).t = "row" /\ RowFrame(i).ops = room.rows[i].ops
    BY DEF RowFrame
  <2> HIDE DEF sent, b
  <2>6. \A k \in 1..Len(b) : New(b[k])
    BY <2>1, <2>3, <2>4, <2>5, SMTT(30)
  <2>7. d \in DownFrame /\ New(d)
    BY DEF DownFrame
  <2> HIDE DEF New, d
  <2>8. fs \in Seq(DownFrame) /\ \A i \in 1..Len(fs) : New(fs[i])
    <3>1. /\ fs \in Seq(DownFrame) /\ Len(fs) = Len(b) + 1 /\ Len(b) \in Nat
          /\ \A i \in 1..Len(b) : fs[i] = b[i]
          /\ fs[Len(b) + 1] = d
      BY <2>3, <2>7, SeqFacts
    <3> HIDE DEF fs
    <3>2. \A i \in 1..Len(fs) : i \in 1..Len(b) \/ i = Len(b) + 1
      BY <3>1
    <3> QED BY <2>6, <2>7, <3>1, <3>2
  <2> HIDE DEF fs, Goal
  <2> QED BY <1>5, <2>1, <2>8
<1>8. CASE ServePush
  <2> DEFINE push == Head(up)
             old  == {i \in 1..HeadSeq : room.rows[i].own /\ room.rows[i].id = push.id}
             new  == [ops |-> push.ops, own |-> TRUE, id |-> push.id]
  <2>1. CASE \E q \in BOOLEAN : down' = Append(down, [t |-> "error", quota |-> q, id |-> push.id])
    <3>1. PICK q \in BOOLEAN : down' = Append(down, [t |-> "error", quota |-> q, id |-> push.id])
      BY <2>1
    <3> DEFINE f == [t |-> "error", quota |-> q, id |-> push.id]
    <3>2. New(f)
      OBVIOUS
    <3> HIDE DEF f, New, Goal
    <3> QED BY <1>4, <3>1, <3>2 DEF f
  <2>2. CASE \E n : /\ down' = Append(down, [t |-> "ack", id |-> push.id, seq |-> n])
                    /\ room' = IF old # {} THEN room
                               ELSE [room EXCEPT !.rows = Append(@, new)]
    <3>1. PICK n : down' = Append(down, [t |-> "ack", id |-> push.id, seq |-> n])
      BY <2>2
    <3>2. room' = IF old # {} THEN room ELSE [room EXCEPT !.rows = Append(@, new)]
      BY <2>2
    <3>3. \E i \in 1..Len(room'.rows) : room'.rows[i].own /\ room'.rows[i].id = push.id
      <4>1. CASE old # {}
        BY <1>0, <3>2, <4>1
      <4>2. CASE old = {}
        <5>1. new \in Row /\ new.own /\ new.id = push.id
          <6>1. up # <<>> /\ Head(up).t = "push"
            BY <1>8 DEF ServePush
          <6>2. Head(up).ops \in SUBSET Ops /\ Head(up).id \in Nat
            BY <6>1, QueueFacts, FrameFacts DEF Shape
          <6> QED BY <6>2 DEF Row
        <5>2. room' = [room EXCEPT !.rows = Append(@, new)]
          BY <3>2, <4>2
        <5> HIDE DEF new
        <5>3. room'.rows = Append(room.rows, new)
          BY <5>1, <5>2, AppendsRow
        <5>4. Len(room'.rows) = Len(room.rows) + 1 /\ room'.rows[Len(room.rows) + 1] = new
          BY <1>0, <5>1, <5>3, SeqFacts
        <5>5. Len(room.rows) + 1 \in 1..Len(room'.rows)
          BY <1>0, <5>4
        <5> QED BY <5>1, <5>4, <5>5
      <4> QED BY <4>1, <4>2
    <3> DEFINE f == [t |-> "ack", id |-> push.id, seq |-> n]
    <3>4. New(f)
      BY <3>3
    <3> HIDE DEF f, New, Goal
    <3> QED BY <1>4, <3>1, <3>4 DEF f
  <2>3. \/ \E q \in BOOLEAN : down' = Append(down, [t |-> "error", quota |-> q, id |-> push.id])
        \/ \E n : /\ down' = Append(down, [t |-> "ack", id |-> push.id, seq |-> n])
                  /\ room' = IF old # {} THEN room
                             ELSE [room EXCEPT !.rows = Append(@, new)]
    BY <1>8 DEF ServePush
  <2> QED BY <2>1, <2>2, <2>3
<1>9. ASSUME NEW o \in PeerOps, PeerPush(o) PROVE Goal
  <2> DEFINE new == [ops |-> {o}, own |-> FALSE, id |-> 0]
             f   == [t |-> "row", seq |-> HeadSeq + 1, ops |-> {o}]
  <2>1. /\ new \in Row /\ room' = [room EXCEPT !.rows = Append(@, new)] /\ new.ops = {o}
        /\ down' = IF relayed THEN Append(down, f) ELSE down
    BY <1>9, PeerFacts
  <2>2. f.t = "row" /\ f.ops = {o}
    OBVIOUS
  <2> HIDE DEF new, f
  <2>3. room'.rows = Append(room.rows, new) /\ room'.floor = room.floor
    BY <2>1, AppendsRow
  <2>4. Len(room'.rows) = Len(room.rows) + 1 /\ room'.rows[Len(room.rows) + 1] = new
    BY <1>0, <2>1, <2>3, SeqFacts
  <2>5. Len(room.rows) + 1 \in (room'.floor + 1)..Len(room'.rows)
    <3>1. room.floor <= Len(room.rows)
      BY DEF Ckpt
    <3> QED BY <1>0, <2>3, <2>4, <3>1
  <2>6. New(f)
    BY <2>1, <2>2, <2>4, <2>5
  <2> HIDE DEF New, Goal
  <2> QED BY <1>1, <1>4, <2>1, <2>6
<1> HIDE DEF Goal
<1>10. CASE SkipStale \/ RecvState \/ RecvRow \/ RecvRowsDone \/ RecvAck \/ RecvError
  <2>1. down # <<>> /\ down' = Tail(down)
    BY <1>10 DEF SkipStale, RecvState, RecvRow, RecvRowsDone, RecvAck, RecvError
  <2> QED BY <1>2, <2>1
<1>11. CASE FetchMissing \/ Drop \/ Wipe \/ CrashAndReopen
  <2>1. down' = <<>>
    BY <1>11, SessionFacts DEF FetchMissing, Drop, Wipe, CrashAndReopen
  <2> QED BY <1>3, <2>1
<1>12. CASE \/ \E o \in LocalOps : Commit(o)
            \/ SavePlain \/ Dial \/ FetchCheckpoint \/ PushPending \/ PushHead \/ Install
            \/ HandleEvent \/ Bootstrap \/ Maintain \/ PostLands \/ PostFails
  <2>1. down' = down
    BY <1>12 DEF Commit, SavePlain, Dial, FetchCheckpoint, PushPending, PushHead, Install,
       HandleEvent, Bootstrap, Maintain, PostLands, PostFails
  <2> QED BY <1>1, <2>1
<1> QED
  BY <1>6, <1>7, <1>8, <1>9, <1>10, <1>11, <1>12 DEF SyncNext, Client, HostTasks, Server

\* Only a wipe is a wipe, and it closes the sockets.
LEMMA WipesStay ==
    ASSUME SyncNext
    PROVE  \/ wipes' = wipes
           \/ Wipe /\ wipes' = wipes + 1 /\ room' = NewRoom /\ down' = <<>>
<1> USE DEF faultVars
<1>1. CASE Wipe
  BY <1>1, SessionFacts DEF Wipe
<1>2. CASE \/ \E o \in LocalOps : Commit(o)
           \/ \E o \in PeerOps : PeerPush(o)
           \/ Server \/ RecvState \/ PostLands
  BY <1>2 DEF Commit, PeerPush, Server, ServeHello, ServeRows, ServePush, RecvState, PostLands
<1>3. CASE SavePlain \/ PostFails \/ Drop \/ CrashAndReopen \/ FetchMissing
  BY <1>3 DEF SavePlain, PostFails, Drop, CrashAndReopen, FetchMissing
<1>4. CASE \/ Dial \/ SkipStale \/ FetchCheckpoint \/ RecvRow \/ RecvRowsDone \/ PushPending
           \/ PushHead \/ RecvAck \/ RecvError
  BY <1>4 DEF Dial, SkipStale, FetchCheckpoint, RecvRow, RecvRowsDone, PushPending, PushHead,
       RecvAck, RecvError
<1>5. CASE Install \/ HandleEvent \/ Bootstrap \/ Maintain
  BY <1>5 DEF Install, HandleEvent, Bootstrap, Maintain
<1> QED BY <1>1, <1>2, <1>3, <1>4, <1>5 DEF SyncNext, Client, HostTasks

\* The room's checkpoint stays until a wipe.
LEMMA CkptStays ==
    ASSUME Shape, SyncNext, wipes' = wipes
    PROVE  room.ckpt.there => room'.ckpt.there
<1> USE DEF clientVars, hostVars, netVars, syncHist, faultVars
<1>0. room \in Room /\ wipes \in Nat
  BY DEF Shape
<1>1. CASE PostLands
  BY <1>0, <1>1 DEF PostLands, Room
<1>2. CASE ServePush
  BY <1>0, <1>2, ServeFacts, AppendsRow
<1>3. ASSUME NEW o \in PeerOps, PeerPush(o) PROVE room.ckpt.there => room'.ckpt.there
  BY <1>0, <1>3, PeerFacts, AppendsRow
<1>4. CASE Wipe
  BY <1>0, <1>4 DEF Wipe
<1>5. CASE \/ \E o \in LocalOps : Commit(o)
           \/ SavePlain \/ Dial \/ SkipStale \/ RecvState \/ FetchCheckpoint \/ FetchMissing
           \/ RecvRow \/ RecvRowsDone \/ PushPending \/ PushHead \/ RecvAck \/ RecvError
           \/ Install \/ HandleEvent \/ Bootstrap \/ Maintain \/ ServeHello \/ ServeRows
           \/ PostFails \/ Drop \/ CrashAndReopen
  <2>1. UNCHANGED room
    BY <1>5 DEF Commit, SavePlain, Dial, SkipStale, RecvState, FetchCheckpoint, FetchMissing,
         RecvRow, RecvRowsDone, PushPending, PushHead, RecvAck, RecvError, Install, HandleEvent,
         Bootstrap, Maintain, ServeHello, ServeRows, PostFails, Drop, CrashAndReopen
  <2> QED BY <2>1
<1> QED BY <1>1, <1>2, <1>3, <1>4, <1>5 DEF SyncNext, Client, HostTasks, Server

\* State frames stay true until the wipe that drops them.
LEMMA ToldStep ==
    ASSUME Shape, Life, Ckpt, Told, SyncNext
    PROVE  Told'
<1> USE DEF clientVars, hostVars, netVars, syncHist, faultVars
<1>0. wipes \in Nat /\ era \in Nat /\ opened.era \in Nat /\ opened.era <= wipes
  BY DEF Shape, Life
<1>1. \A k \in 1..Len(down') : down'[k].t = "state" /\ down'[k].ckpt.there => room'.ckpt.there
  <2>1. CASE wipes' = wipes
    <3>1. room.ckpt.there => room'.ckpt.there
      BY <2>1, CkptStays
    <3> SUFFICES ASSUME NEW k \in 1..Len(down'), down'[k].t = "state", down'[k].ckpt.there
                 PROVE  room'.ckpt.there
      OBVIOUS
    <3>2. CASE \E j \in 1..Len(down) : down'[k] = down[j]
      BY <3>1, <3>2 DEF Told
    <3>3. CASE down'[k].ckpt = room.ckpt
      BY <3>1, <3>3
    <3> QED BY <3>2, <3>3, DownMoves
  <2>2. CASE down' = <<>>
    BY <2>2
  <2> QED BY <2>1, <2>2, WipesStay
<1>2. opened'.era = wipes' => era' = wipes'
  <2>1. CASE FetchMissing \/ Drop
    <3>1. era' \in {era, opened.era} /\ opened' = opened /\ wipes' = wipes
      BY <2>1, SessionFacts DEF FetchMissing, Drop
    <3> QED BY <3>1 DEF Told
  <2>2. CASE Wipe
    <3>1. opened' = opened /\ wipes' = wipes + 1
      BY <2>2, SessionFacts DEF Wipe
    <3> QED BY <1>0, <3>1
  <2>3. CASE CrashAndReopen
    <3>1. opened'.era = saved.era /\ era' = saved.era
      BY <2>3 DEF CrashAndReopen
    <3> QED BY <3>1
  <2>4. CASE RecvState \/ FetchCheckpoint
    <3>1. era' \in {era, wipes} /\ opened' = opened /\ wipes' = wipes
      BY <2>4 DEF RecvState, FetchCheckpoint
    <3> QED BY <3>1 DEF Told
  <2>5. ASSUME UNCHANGED <<opened, era, wipes>> PROVE opened'.era = wipes' => era' = wipes'
    BY <2>5 DEF Told
  <2>6. CASE \/ \E o \in LocalOps : Commit(o)
             \/ \E o \in PeerOps : PeerPush(o)
             \/ SavePlain \/ Dial \/ SkipStale \/ RecvRow \/ RecvRowsDone \/ PushPending
             \/ PushHead \/ RecvAck \/ RecvError
    BY <2>5, <2>6 DEF Commit, PeerPush, SavePlain, Dial, SkipStale, RecvRow, RecvRowsDone,
       PushPending, PushHead, RecvAck, RecvError
  <2>7. CASE \/ Install \/ HandleEvent \/ Bootstrap \/ Maintain \/ ServeHello \/ ServeRows
             \/ ServePush \/ PostLands \/ PostFails
    BY <2>5, <2>7 DEF Install, HandleEvent, Bootstrap, Maintain, ServeHello, ServeRows,
       ServePush, PostLands, PostFails
  <2> QED BY <2>1, <2>2, <2>3, <2>4, <2>6, <2>7 DEF SyncNext, Client, HostTasks, Server
<1> QED BY <1>1, <1>2 DEF Told

\* What is on its way to the client is in the room.
LEMMA ArrivesStep ==
    ASSUME Shape, room' \in Room, minted' \in Nat, Ids, BatchIds, BatchIds', Ckpt, Cover', Arrives,
           wipes' = wipes => RoomOps \subseteq RoomOps', SyncNext
    PROVE  Arrives'
<1>0. minted \in Nat /\ room'.rows \in Seq(Row) /\ down \in Seq(DownFrame)
  BY DEF Shape, Room
<1>1. CASE down' = <<>>
  BY <1>1 DEF Arrives
<1>2. CASE wipes' = wipes
  <2>1. RoomOps \subseteq RoomOps'
    BY <1>2
  <2>2. /\ minted <= minted'
        /\ \A i \in 1..Len(pending') : \/ \E j \in 1..Len(pending) : pending'[i] = pending[j]
                                       \/ pending'[i].id > minted
    BY PendingMoves
  <2>3. RoomOps' = room'.ckpt.ops \cup UNION {room'.rows[j].ops : j \in (room'.floor + 1)..Len(room'.rows)}
    BY DEF RoomOps, HeadSeq
  <2>4. \A i \in 1..Len(room'.rows) : room'.rows[i].ops \subseteq RoomOps'
    <3>1. Covers(room'.ckpt.ops, room'.rows, room'.floor)
      BY DEF Cover
    <3> DEFINE r == room'
    <3>2. r \in Room /\ Covers(r.ckpt.ops, r.rows, r.floor)
      BY <3>1
    <3>3. RoomOps' = r.ckpt.ops \cup UNION {r.rows[j].ops : j \in (r.floor + 1)..Len(r.rows)}
      BY <2>3
    <3> HIDE DEF r
    <3>4. \A i \in 1..Len(r.rows) : r.rows[i].ops \subseteq
            r.ckpt.ops \cup UNION {r.rows[j].ops : j \in (r.floor + 1)..Len(r.rows)}
      BY ONLY <3>2, RowsInRoom
    <3>5. \A i \in 1..Len(r.rows) : r.rows[i].ops \subseteq RoomOps'
      BY ONLY <3>3, <3>4
    <3> QED BY <3>5 DEF r
  <2>5. ASSUME NEW k \in 1..Len(down'), down'[k].t = "row" PROVE down'[k].ops \subseteq RoomOps'
    <3>1. CASE \E j \in 1..Len(down) : down'[k] = down[j]
      BY <2>1, <2>5, <3>1 DEF Arrives
    <3>2. CASE \E i \in (room'.floor + 1)..Len(room'.rows) : down'[k].ops = room'.rows[i].ops
      BY <2>3, <3>2
    <3> QED BY <2>5, <3>1, <3>2, DownMoves
  <2>6. ASSUME NEW k \in 1..Len(down'), down'[k].t = "ack"
        PROVE  /\ down'[k].id <= minted'
               /\ \A i \in 1..Len(pending') : pending'[i].id = down'[k].id => pending'[i].ops \subseteq RoomOps'
    <3>1. CASE \E j \in 1..Len(down) : down'[k] = down[j]
      <4>1. PICK j \in 1..Len(down) : down'[k] = down[j]
        BY <3>1
      <4>2. /\ down[j].id <= minted
            /\ \A i \in 1..Len(pending) : pending[i].id = down[j].id => pending[i].ops \subseteq RoomOps
        BY <2>6, <4>1 DEF Arrives
      <4> DEFINE id == down[j].id
      <4>3. id \in Nat
        <5>1. down[j] \in DownFrame /\ down[j].t = "ack"
          BY <1>0, <2>6, <4>1
        <5> QED BY <5>1 DEF DownFrame
      <4> HIDE DEF id
      <4>4. id <= minted' /\ \A i \in 1..Len(pending') : ~(pending'[i].id = id /\ pending'[i].id > minted)
        BY <1>0, <2>2, <4>2, <4>3 DEF id
      <4>5. ASSUME NEW i \in 1..Len(pending'), pending'[i].id = id PROVE pending'[i].ops \subseteq RoomOps'
        <5>1. PICK m \in 1..Len(pending) : pending'[i] = pending[m]
          BY <2>2, <4>4, <4>5
        <5> QED BY <2>1, <4>2, <4>5, <5>1 DEF id
      <4> QED BY <4>1, <4>4, <4>5 DEF id
    <3>2. CASE \E i \in 1..Len(room'.rows) : room'.rows[i].own /\ room'.rows[i].id = down'[k].id
      <4>1. PICK m \in 1..Len(room'.rows) : room'.rows[m].own /\ room'.rows[m].id = down'[k].id
        BY <3>2
      <4>2. room'.rows[m].id <= minted' /\ Same(pending', room'.rows[m].id, room'.rows[m].ops)
        BY <4>1 DEF BatchIds
      <4> QED BY <2>4, <4>1, <4>2 DEF Same
    <3> QED BY <2>6, <3>1, <3>2, DownMoves
  <2> QED BY <2>5, <2>6 DEF Arrives
<1> QED BY <1>1, <1>2, WipesStay

\* Where an operation may be does not change but for the queue, the buffer and the POST.
LEMMA KeptStays ==
    ASSUME RoomOps \subseteq RoomOps', stranded \subseteq stranded',
           \A i \in 1..Len(pending) : \A x \in pending[i].ops : Kept(x)',
           \A i \in 1..Len(buffer) : \A x \in buffer[i] : Kept(x)',
           posting.there => \A x \in posting.ops : Kept(x)',
           NEW x, Kept(x)
    PROVE  Kept(x)'
<1>1. CASE x \in RoomOps \/ x \in stranded
  BY <1>1 DEF Kept
<1>2. CASE \E i \in 1..Len(pending) : x \in pending[i].ops
  BY <1>2
<1>3. CASE \E i \in 1..Len(buffer) : x \in buffer[i]
  BY <1>3
<1>4. CASE posting.there /\ x \in posting.ops
  BY <1>4
<1> QED BY <1>1, <1>2, <1>3, <1>4 DEF Kept

\* A step that leaves the queue, the buffer and the POST alone.
LEMMA TrackedKeep ==
    ASSUME Tracked, RoomOps \subseteq RoomOps', stranded \subseteq stranded',
           UNCHANGED <<pending, buffer, posting, slot, owed>>,
           \A x \in doc' : x \in doc \/ Kept(x)', Late => Tracked'
    PROVE  Tracked'
<1>1. \A x : Kept(x) => Kept(x)'
  BY DEF Kept
<1>2. CASE \A x \in doc : Kept(x)
  BY <1>1, <1>2 DEF Tracked
<1>3. CASE slot /\ owed > 0
  BY <1>3 DEF Tracked
<1> QED BY <1>2, <1>3 DEF Tracked

\* The wipe goes unnoticed by whoever does not look.
LEMMA LateStays ==
    ASSUME Late, room'.ckpt.there = room.ckpt.there,
           UNCHANGED <<posting, era, wipes, slot, boot, view>>
    PROVE  Tracked'
  BY DEF Late, Tracked

\* StartPost puts the document in the POST, or gives up what nothing else carries.
LEMMA StartPostKeeps ==
    ASSUME pending \in Seq(Batch), StartPost, UNCHANGED <<doc, room, pending>>
    PROVE  \A x \in doc' : Kept(x)'
<1>1. RoomOps' = RoomOps
  BY DEF RoomOps, HeadSeq
<1>2. \A x \in OpsOf(pending) : \E i \in 1..Len(pending) : x \in pending[i].ops
  BY DEF OpsOf, ToSet
<1> SUFFICES ASSUME NEW x \in doc PROVE Kept(x)'
  OBVIOUS
<1>3. CASE posting.there
  <2>1. /\ stranded' = stranded \cup (doc \ (posting.ops \cup RoomOps \cup OpsOf(pending)))
        /\ posting' = posting
    BY <1>3 DEF StartPost
  <2>2. CASE x \in posting.ops
    BY <1>3, <2>1, <2>2 DEF Kept
  <2>3. CASE x \in RoomOps
    BY <1>1, <2>3 DEF Kept
  <2>4. CASE x \in OpsOf(pending)
    BY <1>2, <2>4 DEF Kept
  <2>5. CASE x \in stranded'
    BY <2>5 DEF Kept
  <2> QED BY <2>1, <2>2, <2>3, <2>4, <2>5
<1>4. CASE ~posting.there
  <2>1. posting'.there /\ posting'.ops = doc
    BY <1>4 DEF StartPost, Snapshot
  <2> QED BY <2>1 DEF Kept
<1> QED BY <1>3, <1>4

\* The document stays tracked: the local updates.
LEMMA TrackedLocal ==
    ASSUME Shape, Life, BatchIds, Tracked, (\E o \in LocalOps : Commit(o)) \/ Install
    PROVE  Tracked'
<1> USE DEF clientVars, hostVars, netVars, syncHist, faultVars
<1>0. owed \in Nat /\ pending \in Seq(Batch) /\ buffer \in Seq(SUBSET Ops)
  BY DEF BatchIds, Shape
<1>1. RoomOps' = RoomOps /\ UNCHANGED <<room, stranded, posting, era, wipes, view>>
  BY DEF Commit, Install, RoomOps, HeadSeq
<1>2. ASSUME NEW updates \in Seq(SUBSET Ops), Enqueue(updates)
      PROVE  /\ owed' >= owed /\ owed' \in Nat
             /\ \A i \in 1..Len(pending) : \A x \in pending[i].ops : Kept(x)'
             /\ owed' > 0 \/ \A j \in 1..Len(updates) : \A x \in updates[j] : Kept(x)'
  <2>1. /\ owed' \in Nat /\ owed' >= owed
        /\ \A i \in 1..Len(pending) : i \in 1..Len(pending') /\ pending'[i] = pending[i]
        /\ \/ owed' > 0
           \/ \A j \in 1..Len(updates) : \E i \in 1..Len(pending') : pending'[i].ops = updates[j]
    BY <1>0, <1>2, EnqueueTracks
  <2>3. \A i \in 1..Len(pending) : \A x \in pending[i].ops : Kept(x)'
    BY <2>1 DEF Kept
  <2>4. owed' > 0 \/ \A j \in 1..Len(updates) : \A x \in updates[j] : Kept(x)'
    BY <2>1 DEF Kept
  <2> QED BY <2>1, <2>3, <2>4
<1>3. ASSUME NEW o \in LocalOps, Commit(o) PROVE Tracked'
  <2>1. doc' = doc \cup {o} /\ UNCHANGED <<slot, boot>>
    BY <1>3 DEF Commit
  <2>2. CASE Late
    BY <1>1, <2>1, <2>2, LateStays
  <2>3. CASE slot
    <3>1. Enqueue(<<{o}>>) /\ buffer' = buffer /\ {o} \in SUBSET Ops
      BY <1>3, <2>3 DEF Commit, Ops, MyOps
    <3>2. <<{o}>> \in Seq(SUBSET Ops) /\ 1 \in 1..Len(<<{o}>>) /\ o \in <<{o}>>[1]
      BY <3>1, SeqFacts
    <3> DEFINE u == <<{o}>>
    <3> HIDE DEF u
    <3>3. u \in Seq(SUBSET Ops) /\ Enqueue(u) /\ 1 \in 1..Len(u) /\ o \in u[1]
      BY <3>1, <3>2 DEF u
    <3>4. /\ owed' >= owed /\ owed' \in Nat
          /\ \A i \in 1..Len(pending) : \A x \in pending[i].ops : Kept(x)'
          /\ owed' > 0 \/ \A j \in 1..Len(u) : \A x \in u[j] : Kept(x)'
      BY <1>2, <3>3
    <3>5. CASE owed' > 0
      BY <2>1, <2>3, <3>5 DEF Tracked
    <3>6. CASE ~(owed' > 0)
      <4>1. Kept(o)'
        BY <3>3, <3>4, <3>6
      <4>2. ~(owed > 0)
        BY <1>0, <3>4, <3>6
      <4>3. CASE \A x \in doc : Kept(x)
        <5>1. \A i \in 1..Len(buffer) : \A x \in buffer[i] : Kept(x)'
          BY <3>1 DEF Kept
        <5>2. posting.there => \A x \in posting.ops : Kept(x)'
          BY <1>1 DEF Kept
        <5>3. \A x \in doc : Kept(x)'
          BY <1>1, <3>4, <4>3, <5>1, <5>2, KeptStays
        <5> QED BY <2>1, <4>1, <5>3 DEF Tracked
      <4> QED BY <2>2, <4>2, <4>3 DEF Tracked
    <3> QED BY <3>5, <3>6
  <2>4. CASE ~slot
    <3>1. buffer' = Append(buffer, {o}) /\ pending' = pending
      BY <1>3, <2>4 DEF Commit
    <3>2. {o} \in SUBSET Ops
      BY DEF Ops, MyOps
    <3>3. /\ Len(buffer') = Len(buffer) + 1 /\ Len(buffer) \in Nat
          /\ \A i \in 1..Len(buffer) : buffer'[i] = buffer[i]
          /\ buffer'[Len(buffer) + 1] = {o}
      BY <1>0, <3>1, <3>2, SeqFacts
    <3>4. /\ \A i \in 1..Len(buffer) : i \in 1..Len(buffer')
          /\ Len(buffer) + 1 \in 1..Len(buffer')
      BY <3>3
    <3>5. Kept(o)'
      BY <3>3, <3>4 DEF Kept
    <3>6. CASE \A x \in doc : Kept(x)
      <4>1. \A i \in 1..Len(buffer) : \A x \in buffer[i] : Kept(x)'
        BY <3>3, <3>4 DEF Kept
      <4>2. \A i \in 1..Len(pending) : \A x \in pending[i].ops : Kept(x)'
        BY <3>1 DEF Kept
      <4>3. posting.there => \A x \in posting.ops : Kept(x)'
        BY <1>1 DEF Kept
      <4>4. \A x \in doc : Kept(x)'
        BY <1>1, <3>6, <4>1, <4>2, <4>3, KeptStays
      <4> QED BY <2>1, <3>5, <4>4 DEF Tracked
    <3> QED BY <2>2, <2>4, <3>6 DEF Tracked
  <2> QED BY <2>3, <2>4
<1>4. CASE Install
  <2>1. ~slot /\ slot' = TRUE /\ boot' = TRUE /\ doc' = doc /\ Enqueue(buffer)
    BY <1>4 DEF Install
  <2>2. CASE Late
    BY <1>1, <2>1, <2>2 DEF Late, Tracked
  <2>3. CASE \A x \in doc : Kept(x)
    <3>1. /\ \A i \in 1..Len(pending) : \A x \in pending[i].ops : Kept(x)'
          /\ owed' > 0 \/ \A j \in 1..Len(buffer) : \A x \in buffer[j] : Kept(x)'
      BY <1>0, <1>2, <2>1
    <3>2. CASE owed' > 0
      BY <2>1, <3>2 DEF Tracked
    <3>3. CASE \A j \in 1..Len(buffer) : \A x \in buffer[j] : Kept(x)'
      <4>1. posting.there => \A x \in posting.ops : Kept(x)'
        BY <1>1 DEF Kept
      <4>2. \A x \in doc : Kept(x)'
        BY <1>1, <2>3, <3>1, <3>3, <4>1, KeptStays
      <4> QED BY <2>1, <4>2 DEF Tracked
    <3> QED BY <3>1, <3>2, <3>3
  <2> QED BY <2>1, <2>2, <2>3 DEF Tracked
<1> QED BY <1>3, <1>4

\* The document stays tracked: what the room says.
LEMMA TrackedFrames ==
    ASSUME Shape, Life, BatchIds, Told, Arrives, Tracked, ~fooled',
           RecvState \/ RecvRow \/ RecvAck \/ RecvError
    PROVE  Tracked'
<1> USE DEF clientVars, hostVars, netVars, syncHist, faultVars
<1>0. owed \in Nat /\ pending \in Seq(Batch) /\ slot \in BOOLEAN
  BY DEF BatchIds, Shape
<1>1. /\ RoomOps' = RoomOps
      /\ UNCHANGED <<room, stranded, posting, buffer, wipes, slot, boot>>
  BY DEF RecvState, RecvRow, RecvAck, RecvError, RoomOps, HeadSeq
<1>2. down # <<>> /\ Head(down) = down[1] /\ 1 \in 1..Len(down)
  <2>1. down # <<>> /\ down \in Seq(DownFrame)
    BY DEF RecvState, RecvRow, RecvAck, RecvError, Shape
  <2> QED BY <2>1, QueueFacts
<1>3. /\ \A i \in 1..Len(buffer) : \A x \in buffer[i] : Kept(x)'
      /\ posting.there => \A x \in posting.ops : Kept(x)'
  BY <1>1 DEF Kept
<1>4. CASE RecvRow
  <2>1. /\ Head(down).t = "row" /\ doc' = doc \cup Head(down).ops
        /\ UNCHANGED <<pending, owed, era, view>>
    BY <1>4 DEF RecvRow
  <2>2. Head(down).ops \subseteq RoomOps'
    BY <1>1, <1>2, <2>1 DEF Arrives
  <2>3. \A x \in doc' : x \in doc \/ Kept(x)'
    BY <2>1, <2>2 DEF Kept
  <2>4. Late => Tracked'
    BY <1>1, <2>1, LateStays
  <2> QED BY <1>1, <2>1, <2>3, <2>4, TrackedKeep
<1>5. CASE RecvAck
  <2>1. /\ Head(down).t = "ack" /\ doc' = doc /\ pending' = Without(pending, Head(down).id)
        /\ UNCHANGED <<owed, era, view>>
    BY <1>5 DEF RecvAck
  <2> DEFINE id == Head(down).id
  <2> HIDE DEF id
  <2>2. \A i \in 1..Len(pending) : pending[i].id = id => pending[i].ops \subseteq RoomOps
    BY <1>2, <2>1 DEF Arrives, id
  <2>3. \A i \in 1..Len(pending) : pending[i].id # id =>
          \E k \in 1..Len(pending') : pending'[k] = pending[i]
    BY <1>0, <2>1, WithoutKeeps DEF id
  <2>4. \A i \in 1..Len(pending) : \A x \in pending[i].ops : Kept(x)'
    BY <1>1, <2>2, <2>3 DEF Kept
  <2>5. CASE Late
    BY <1>1, <2>1, <2>5, LateStays
  <2>6. CASE slot /\ owed > 0
    BY <1>1, <2>1, <2>6 DEF Tracked
  <2>7. CASE \A x \in doc : Kept(x)
    <3>1. \A x \in doc : Kept(x)'
      BY <1>1, <1>3, <2>4, <2>7, KeptStays
    <3> QED BY <2>1, <3>1 DEF Tracked
  <2> QED BY <2>5, <2>6, <2>7 DEF Tracked
<1>6. CASE RecvError
  <2>1. doc' = doc /\ UNCHANGED <<era, view>>
    BY <1>6 DEF RecvError
  <2>2. \/ pending' = pending /\ owed' = owed
        \/ pending' = Without(pending, Head(down).id) /\ owed' = OwedAfter(pending' # pending)
    BY <1>6 DEF RecvError
  <2>3. CASE pending' = pending /\ owed' = owed
    <3>1. Late => Tracked'
      BY <1>1, <2>1, LateStays
    <3> QED BY <1>1, <2>1, <2>3, <3>1, TrackedKeep
  <2>4. CASE pending' # pending /\ owed' = OwedAfter(pending' # pending)
    <3>1. pending # <<>>
      <4>1. SUFFICES ASSUME pending = <<>> PROVE FALSE
        OBVIOUS
      <4>2. pending' = Without(pending, Head(down).id)
        BY <2>2, <2>4
      <4>3. pending' \in Seq(Batch) /\ \A i \in 1..Len(pending') : \E j \in 1..Len(pending) : TRUE
        BY <1>0, <4>2, WithoutFacts
      <4>4. Len(pending') \in Nat /\ \A i \in 1..Len(pending') : FALSE
        BY <4>1, <4>3
      <4>5. pending' = <<>>
        BY <4>3, <4>4
      <4> QED BY <2>4, <4>1, <4>5
    <3>2. slot
      BY <3>1 DEF Life
    <3>3. owed' > 0
      BY <1>0, <2>4, <3>2 DEF OwedAfter
    <3> QED BY <1>1, <3>2, <3>3 DEF Tracked
  <2> QED BY <2>2, <2>3, <2>4 DEF OwedAfter
<1>7. CASE RecvState
  <2> DEFINE st == Head(down)
             plan == PlanCatchUp(cursor, st, st.ckpt.ops \subseteq doc)
  <2>1. /\ doc' = doc /\ pending' = pending /\ st.t = "state"
        /\ view'.ckpt = st.ckpt.there
        /\ owed' = IF slot /\ cursor > st.head THEN owed + 1 ELSE owed
        /\ era' = IF plan.fetch THEN era ELSE wipes
        /\ fooled' = (fooled \/ (era # wipes /\ cursor <= st.head))
    BY <1>7 DEF RecvState
  <2>2. cursor \in Nat /\ st.head \in Nat /\ st.ckpt \in Post
    <3>1. st \in DownFrame
      BY <1>2 DEF Shape
    <3> HIDE DEF st
    <3> QED BY <2>1, <3>1, FrameFacts DEF Shape
  <2>3. ~st.ckpt.there => ~plan.fetch
    BY DEF PlanCatchUp
  <2> HIDE DEF st, plan
  <2>4. CASE slot /\ owed > 0
    BY <1>0, <1>1, <2>1, <2>4 DEF Tracked
  <2>5. CASE \A x \in doc : Kept(x)
    <3>1. \A x : Kept(x) => Kept(x)'
      BY <1>1, <2>1 DEF Kept
    <3> QED BY <2>1, <2>5, <3>1 DEF Tracked
  <2>6. CASE Late
    <3>1. ~st.ckpt.there
      BY <1>2, <2>1, <2>6 DEF Late, Told, st
    <3>2. era' = wipes' /\ ~view'.ckpt
      BY <1>1, <2>1, <2>3, <3>1
    <3>3. CASE era # wipes /\ slot
      <4>1. cursor > st.head
        <5>1. ~(cursor <= st.head)
          BY <2>1, <3>3, Zenon
        <5> QED BY <2>2, <5>1
      <4>2. owed' > 0
        BY <1>0, <2>1, <3>3, <4>1
      <4> QED BY <1>1, <3>3, <4>2 DEF Tracked
    <3>4. CASE era = wipes \/ ~slot
      BY <1>1, <2>6, <3>2, <3>4 DEF Late, Tracked
    <3> QED BY <3>3, <3>4
  <2> QED BY <2>4, <2>5, <2>6 DEF Tracked
<1> QED BY <1>4, <1>5, <1>6, <1>7

\* The document stays tracked: the checkpoints.
LEMMA TrackedPosts ==
    ASSUME Shape, Life, Tracked, ~fooled', wipes' = wipes => RoomOps \subseteq RoomOps',
           HandleEvent \/ Bootstrap \/ Maintain \/ PostLands \/ PostFails \/ FetchCheckpoint
    PROVE  Tracked'
<1> USE DEF clientVars, hostVars, netVars, syncHist, faultVars
<1>0. pending \in Seq(Batch) /\ posting \in Post /\ room \in Room
  BY DEF Shape
<1>1. /\ UNCHANGED <<pending, buffer, slot, wipes>>
      /\ RoomOps \subseteq RoomOps'
  <2>1. UNCHANGED <<pending, buffer, slot, wipes>>
    BY DEF HandleEvent, Bootstrap, Maintain, PostLands, PostFails, FetchCheckpoint
  <2> QED BY <2>1
<1>2. /\ \A i \in 1..Len(buffer) : \A x \in buffer[i] : Kept(x)'
      /\ \A i \in 1..Len(pending) : \A x \in pending[i].ops : Kept(x)'
  BY <1>1 DEF Kept
<1>3. \A x \in OpsOf(pending) : \E i \in 1..Len(pending) : x \in pending[i].ops
  BY <1>0 DEF OpsOf, ToSet
<1>4. CASE HandleEvent
  <2>1. StartPost /\ UNCHANGED <<doc, room, pending>>
    BY <1>4 DEF HandleEvent
  <2> QED BY <1>0, <2>1, StartPostKeeps DEF Tracked
<1>5. CASE Bootstrap
  <2>1. UNCHANGED <<doc, room, pending, owed, era, view>>
    BY <1>5 DEF Bootstrap
  <2>2. CASE view.ckpt /\ UNCHANGED <<posting, stranded>>
    <3>1. Late => Tracked'
      BY <1>1, <2>1, <2>2 DEF Late, Tracked
    <3> QED BY <1>1, <2>1, <2>2, <3>1, TrackedKeep
  <2>3. CASE StartPost
    BY <1>0, <2>1, <2>3, StartPostKeeps DEF Tracked
  <2>4. CASE stranded' = stranded \cup (doc \ (RoomOps \cup OpsOf(pending)))
    <3>1. \A x \in doc' : Kept(x)'
      BY <1>1, <1>3, <2>1, <2>4 DEF Kept
    <3> QED BY <3>1 DEF Tracked
  <2> QED BY <1>5, <2>2, <2>3, <2>4 DEF Bootstrap
<1>6. CASE Maintain
  <2>1. doc' = doc /\ posting'.there /\ posting'.ops = doc
    BY <1>6 DEF Maintain, Snapshot
  <2> QED BY <2>1 DEF Tracked, Kept
<1>7. CASE PostLands
  <2>1. /\ posting.there /\ room' = [room EXCEPT !.ckpt = posting, !.floor = posting.seq]
        /\ posting.era = wipes /\ UNCHANGED <<doc, stranded, owed>>
    BY <1>7 DEF PostLands
  <2>2. posting.ops \subseteq RoomOps'
    <3>1. room'.ckpt = posting
      BY <1>0, <2>1 DEF Room
    <3> QED BY <3>1 DEF RoomOps
  <2>3. ~Late
    BY <2>1 DEF Late
  <2>4. CASE slot /\ owed > 0
    BY <1>1, <2>1, <2>4 DEF Tracked
  <2>5. CASE \A x \in doc : Kept(x)
    <3>1. posting.there => \A x \in posting.ops : Kept(x)'
      BY <2>2 DEF Kept
    <3>2. \A x \in doc : Kept(x)'
      BY <1>1, <1>2, <2>1, <2>5, <3>1, KeptStays
    <3> QED BY <2>1, <3>2 DEF Tracked
  <2> QED BY <2>3, <2>4, <2>5 DEF Tracked
<1>8. CASE PostFails
  <2>1. /\ posting' = NoPost /\ UNCHANGED <<doc, room, owed, era, boot, view>>
        /\ stranded' = stranded \cup (posting.ops \ (RoomOps \cup OpsOf(pending)))
    BY <1>8 DEF PostFails
  <2>2. CASE Late
    <3>1. ~posting'.there
      BY <2>1 DEF NoPost
    <3> QED BY <1>1, <2>1, <2>2, <3>1 DEF Late, Tracked
  <2>3. CASE slot /\ owed > 0
    BY <1>1, <2>1, <2>3 DEF Tracked
  <2>4. CASE \A x \in doc : Kept(x)
    <3>1. \A x \in posting.ops : Kept(x)'
      BY <1>1, <1>3, <2>1 DEF Kept
    <3>2. stranded \subseteq stranded'
      BY <2>1
    <3>3. \A x \in doc : Kept(x)'
      BY <1>1, <1>2, <2>4, <3>1, <3>2, KeptStays
    <3> QED BY <2>1, <3>3 DEF Tracked
  <2> QED BY <2>2, <2>3, <2>4 DEF Tracked
<1>9. CASE FetchCheckpoint
  <2>1. /\ room.ckpt.there /\ doc' = doc \cup room.ckpt.ops
        /\ UNCHANGED <<room, posting, owed, stranded>>
    BY <1>9 DEF FetchCheckpoint
  <2>2. \A x \in doc' : x \in doc \/ Kept(x)'
    BY <2>1 DEF Kept, RoomOps
  <2>3. ~Late
    BY <2>1 DEF Late
  <2> QED BY <1>1, <2>1, <2>2, <2>3, TrackedKeep
<1> QED BY <1>4, <1>5, <1>6, <1>7, <1>8, <1>9

\* The document stays tracked: a lost session, a wipe, a crash.
LEMMA TrackedFaults ==
    ASSUME Shape, Life, Told, Tracked, Drop \/ FetchMissing \/ Wipe \/ CrashAndReopen
    PROVE  Tracked'
<1> USE DEF clientVars, hostVars, netVars, syncHist, faultVars
<1>0. wipes \in Nat /\ era \in Nat /\ opened.era \in Nat /\ posting.era \in Nat
      /\ era <= wipes /\ opened.era <= wipes /\ posting.era <= wipes
  BY DEF Shape, Life, Post
<1>1. CASE Drop \/ FetchMissing
  <2>1. /\ era' \in {era, opened.era} /\ RoomOps' = RoomOps
        /\ UNCHANGED <<doc, room, stranded, pending, buffer, posting, slot, owed, boot, view, wipes>>
    BY <1>1 DEF Drop, FetchMissing, SessionEnds, RoomOps, HeadSeq
  <2>2. Late => Tracked'
    BY <2>1 DEF Late, Tracked, Told
  <2> QED BY <2>1, <2>2, TrackedKeep
<1>2. CASE Wipe
  <2>1. /\ wipes' = wipes + 1 /\ room' = NewRoom /\ era' \in {era, opened.era} /\ posting' = posting
    BY <1>2 DEF Wipe, SessionEnds
  <2>2. ~room'.ckpt.there
    BY <2>1 DEF NewRoom, NoPost
  <2>3. era' # wipes' /\ posting'.era # wipes'
    BY <1>0, <2>1
  <2> QED BY <2>2, <2>3 DEF Late, Tracked
<1>3. CASE CrashAndReopen
  <2>1. /\ doc' = saved.doc /\ buffer' = FirstContact /\ room' = room
        /\ stranded' = IF saved.cursor = 0 THEN stranded ELSE stranded \cup (saved.doc \ RoomOps)
    BY <1>3 DEF CrashAndReopen
  <2>2. CASE saved.cursor = 0
    <3>1. buffer' = <<saved.doc>>
      BY <2>1, <2>2 DEF FirstContact
    <3>2. 1 \in 1..Len(buffer') /\ buffer'[1] = doc'
      BY <2>1, <3>1
    <3> QED BY <3>2 DEF Kept, Tracked
  <2>3. CASE saved.cursor # 0
    <3>1. RoomOps' = RoomOps
      BY <2>1 DEF RoomOps, HeadSeq
    <3> QED BY <2>1, <2>3, <3>1 DEF Kept, Tracked
  <2> QED BY <2>2, <2>3
<1> QED BY <1>1, <1>2, <1>3

\* The document stays tracked.
LEMMA TrackedStep ==
    ASSUME Shape, Life, BatchIds, Told, Arrives, Tracked, ~fooled',
           wipes' = wipes => RoomOps \subseteq RoomOps', SyncNext
    PROVE  Tracked'
<1> USE DEF clientVars, hostVars, netVars, syncHist, faultVars
<1>1. ASSUME UNCHANGED <<doc, stranded, pending, buffer, posting, slot, owed, era, wipes, boot, view>>,
             room'.ckpt = room.ckpt
      PROVE  Tracked'
  <2>1. Late => Tracked'
    BY <1>1, LateStays
  <2> QED BY <1>1, <2>1, TrackedKeep
<1>2. CASE ServePush
  <2>1. room'.ckpt = room.ckpt
    BY <1>2, ServeFacts, AppendsRow
  <2>2. UNCHANGED <<doc, stranded, pending, buffer, posting, slot, owed, era, wipes, boot, view>>
    BY <1>2 DEF ServePush
  <2> QED BY <1>1, <2>1, <2>2
<1>3. ASSUME NEW o \in PeerOps, PeerPush(o) PROVE Tracked'
  <2>1. room'.ckpt = room.ckpt
    BY <1>3, PeerFacts, AppendsRow
  <2>2. UNCHANGED <<doc, stranded, pending, buffer, posting, slot, owed, era, wipes, boot, view>>
    BY <1>3 DEF PeerPush
  <2> QED BY <1>1, <2>1, <2>2
<1>4. CASE SavePlain \/ Dial \/ SkipStale \/ RecvRowsDone \/ PushPending \/ PushHead
           \/ ServeHello \/ ServeRows
  <2>1. UNCHANGED <<doc, stranded, pending, buffer, posting, slot, owed, era, wipes, boot, view, room>>
    BY <1>4 DEF SavePlain, Dial, SkipStale, RecvRowsDone, PushPending, PushHead, ServeHello,
       ServeRows
  <2> QED BY <1>1, <2>1
<1>5. CASE (\E o \in LocalOps : Commit(o)) \/ Install
  BY <1>5, TrackedLocal
<1>6. CASE RecvState \/ RecvRow \/ RecvAck \/ RecvError
  BY <1>6, TrackedFrames
<1>7. CASE HandleEvent \/ Bootstrap \/ Maintain \/ PostLands \/ PostFails \/ FetchCheckpoint
  BY <1>7, TrackedPosts
<1>8. CASE Drop \/ FetchMissing \/ Wipe \/ CrashAndReopen
  BY <1>8, TrackedFaults
<1> QED BY <1>2, <1>3, <1>4, <1>5, <1>6, <1>7, <1>8 DEF SyncNext, Client, HostTasks, Server

\* A fresh chat: the document is buffered.
LEMMA InitLeftInv == SyncInit => LeftInv
<1> SUFFICES ASSUME SyncInit PROVE LeftInv
  OBVIOUS
<1>1. Ids /\ BatchIds
  BY DEF SyncInit, Ids, BatchIds, NewRoom
<1>2. Told /\ Arrives
  BY DEF SyncInit, Told, Arrives
<1>3. Tracked
  <2>1. doc = {InitOp} /\ buffer = <<{InitOp}>>
    BY DEF SyncInit
  <2>2. 1 \in 1..Len(buffer) /\ buffer[1] = doc
    BY <2>1
  <2> QED BY <2>2 DEF Tracked, Kept
<1> QED BY <1>1, <1>2, <1>3 DEF LeftInv

\* Every step keeps all of it.
LEMMA LeftInvStep ==
    ASSUME EarlyRows = FALSE, SyncInv, LeftInv, [SyncNext]_syncVars
    PROVE  LeftInv'
<1>0. Shape /\ Life /\ Ckpt /\ Ids /\ BatchIds /\ Told
  BY DEF SyncInv, LeftInv
<1>1. CASE UNCHANGED syncVars
  <2> USE DEF syncVars, clientVars, hostVars, netVars, syncHist, faultVars
  <2>1. Ids' /\ BatchIds' /\ Told'
    BY <1>0, <1>1 DEF Ids, BatchIds, Told, Same
  <2>2. ASSUME ~fooled' PROVE Arrives' /\ Tracked'
    <3>1. Arrives /\ Tracked
      BY <1>1, <2>2 DEF LeftInv
    <3>2. RoomOps' = RoomOps
      BY <1>1 DEF RoomOps, HeadSeq
    <3>3. Arrives'
      BY <1>1, <3>1, <3>2 DEF Arrives
    <3>4. Tracked'
      BY <1>1, <3>1, <3>2 DEF Tracked, Late, Kept
    <3> QED BY <3>3, <3>4
  <2> QED BY <2>1, <2>2 DEF LeftInv
<1>2. CASE SyncNext
  <2>1. SyncInv'
    BY SyncInvStep
  <2>2. minted' \in Nat /\ room' \in Room
    BY <2>1 DEF SyncInv, Shape
  <2>3. Ids'
    BY <1>0, IdsStep
  <2>4. BatchIds'
    BY <1>0, <1>2, <2>2, BatchIdsStep
  <2>5. Told'
    BY <1>0, <1>2, ToldStep
  <2>6. ASSUME ~fooled' PROVE Arrives' /\ Tracked'
    <3>1. ~fooled
      BY <1>2, <2>6, FooledStays
    <3>2. Arrives /\ Tracked
      BY <3>1 DEF LeftInv
    <3>3. Cover'
      BY <2>1, <2>6 DEF SyncInv, Sound
    <3>4. wipes' = wipes => RoomOps \subseteq RoomOps'
      BY <2>6, RoomStepHolds DEF RoomStep
    <3>5. Arrives'
      BY <1>0, <1>2, <2>2, <2>4, <3>2, <3>3, <3>4, ArrivesStep
    <3>6. Tracked'
      BY <1>0, <1>2, <2>6, <3>2, <3>4, TrackedStep
    <3> QED BY <3>5, <3>6
  <2> QED BY <2>3, <2>4, <2>5, <2>6 DEF LeftInv
<1> QED BY <1>1, <1>2

-----------------------------------------------------------------------------
(* The theorems.                                                            *)

\* The invariant, for a room that relays live rows only after the backfill it served
\* (chat_client.rs counts on it: handle_frame advances the cursor to any row it reads).
THEOREM SyncInvHolds ==
    ASSUME EarlyRows = FALSE
    PROVE  SyncSpec => []SyncInv
<1>1. SyncInv /\ [SyncNext]_syncVars => SyncInv'
  BY SyncInvStep
<1> QED BY <1>1, InitSyncInv, PTL DEF SyncSpec

\* Types, batch ids from the counter, and a client that is installed or open only
\* after its first join (spawn_chat2_join).
THEOREM SyncTypes ==
    ASSUME EarlyRows = FALSE
    PROVE  SyncSpec => []SyncTypeOK
<1>1. SyncInit => Ids
  BY DEF SyncInit, Ids
<1>2. SyncInv /\ Ids /\ [SyncNext]_syncVars => Ids'
  BY IdsStep DEF SyncInv
<1>3. SyncInv /\ Ids => SyncTypeOK
  <2> SUFFICES ASSUME Shape, Life, Ids PROVE SyncTypeOK
    BY DEF SyncInv
  <2>1. DOMAIN pending = 1..Len(pending)
    BY DEF Shape
  <2>2. phase = "open" => resumed
    BY DEF Life
  <2> QED BY <2>1, <2>2 DEF SyncTypeOK, Shape, Life, Ids, Ops
<1> QED BY <1>1, <1>2, <1>3, SyncInvHolds, PTL DEF SyncSpec

\* The snapshot row never claims rows the document beside it lacks: whatever was lost,
\* pruned, rolled back, rejected or resent, a restart that resumes from the saved cursor
\* (save_snapshot_with_cursor) misses nothing below it.
THEOREM SavedCursorIsCovered ==
    ASSUME EarlyRows = FALSE
    PROVE  SyncSpec => []CursorIsCovered
<1>1. SyncInv => CursorIsCovered
  <2> SUFFICES ASSUME SyncInv, saved.era = wipes, ~fooled
               PROVE  \A i \in {j \in 1..HeadSeq : j <= saved.cursor} :
                        room.rows[i].ops \subseteq saved.doc
    BY DEF CursorIsCovered
  <2>1. Covers(saved.doc, room.rows, saved.cursor) /\ saved.cursor \in Nat
    BY DEF SyncInv, Sound, Cover, Shape
  <2> QED BY <2>1 DEF Covers
<1> QED BY <1>1, SyncInvHolds, PTL

\* A client that finished its backfill and read what it was sent holds everything the
\* room holds (ChatEvent::CaughtUp), although a backfill leaves out its own rows and the
\* pruned ones.
THEOREM CaughtUpHoldsTheRoom ==
    ASSUME EarlyRows = FALSE
    PROVE  SyncSpec => []CaughtUpIsConverged
<1>1. SyncInv => CaughtUpIsConverged
  <2> SUFFICES ASSUME SyncInv, phase = "open", down = <<>>, ~fooled PROVE RoomOps \subseteq doc
    BY DEF CaughtUpIsConverged
  <2>1. relayed /\ room.ckpt.ops \subseteq doc /\ room.floor \in Nat
    BY RoomFacts DEF SyncInv, Link, Ckpt, Shape
  <2>2. Seen(doc, down, Len(down)) = doc
    BY DEF Seen
  <2>3. Covers(doc, room.rows, HeadSeq)
    BY <2>1, <2>2 DEF SyncInv, Sound, Flow, HeadSeq
  <2>4. \A i \in (room.floor + 1)..HeadSeq : room.rows[i].ops \subseteq doc
    BY <2>1, <2>3 DEF Covers
  <2> QED BY <2>1, <2>4 DEF RoomOps
<1> QED BY <1>1, SyncInvHolds, PTL

\* The rows a checkpoint prunes are in it (spawn_chat2_checkpoint reads the cursor
\* before it exports the document), so only a wipe makes the room forget.
THEOREM CheckpointsForgetNothing ==
    ASSUME EarlyRows = FALSE
    PROVE  SyncSpec => RoomNeverForgets
<1>1. SyncInv /\ [SyncNext]_syncVars => RoomStep
  BY RoomStepHolds
<1> QED BY <1>1, SyncInvHolds, PTL DEF SyncSpec, RoomNeverForgets

\* When nothing is left to do, the room holds the document but for what the code gave up:
\* every operation was queued, buffered or posted until it was in the room, and a retired
\* batch, a refused update and a wipe each left an event or a bootstrap check behind that
\* posts the whole document.
THEOREM RoomGetsTheDocument ==
    ASSUME EarlyRows = FALSE
    PROVE  SyncSpec => []NothingLeftBehind
<1>1. SyncInit => SyncInv /\ LeftInv
  BY InitSyncInv, InitLeftInv
<1>2. SyncInv /\ LeftInv /\ [SyncNext]_syncVars => (SyncInv /\ LeftInv)'
  BY SyncInvStep, LeftInvStep
<1>3. SyncInv /\ LeftInv => NothingLeftBehind
  <2> SUFFICES ASSUME SyncInv, LeftInv, Quiet, NEW x \in doc PROVE x \in RoomOps \cup stranded
    BY DEF NothingLeftBehind
  <2>1. Tracked
    BY DEF Quiet, LeftInv
  <2>2. era = wipes /\ slot /\ ~boot
    BY DEF Quiet, SyncInv, Life
  <2>3. ~Late
    BY <2>2 DEF Late
  <2>4. ~(owed > 0)
    BY DEF Quiet
  <2>5. Kept(x)
    BY <2>1, <2>3, <2>4 DEF Tracked
  <2>6. /\ ~\E i \in 1..Len(pending) : x \in pending[i].ops
        /\ ~\E i \in 1..Len(buffer) : x \in buffer[i]
    BY DEF Quiet
  <2> QED BY <2>5, <2>6 DEF Kept, Quiet
<1> QED BY <1>1, <1>2, <1>3, PTL DEF SyncSpec
=============================================================================
