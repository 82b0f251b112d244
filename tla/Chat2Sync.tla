------------------------------ MODULE Chat2Sync ------------------------------
(***************************************************************************)
(* One chat's document and its chat2 room: ChatClient                      *)
(* (crates/sync/src/chat_client.rs), the sink that lands remote bytes      *)
(* (crates/engine/src/chat2_host.rs) and the hosting duties of             *)
(* crates/engine/src/doc_host.rs (join, checkpoints).                      *)
(*                                                                         *)
(* The room keeps a log of rows and at most one checkpoint that covers a   *)
(* prefix of it; covered rows are pruned.  The client remembers how far it *)
(* has read (cursor), pushes local updates in batches that stay queued     *)
(* until acknowledged, and catches up after every dial: the checkpoint if  *)
(* its frontier is not contained in the document, then the rows after it.  *)
(*                                                                         *)
(* A document is the set of operations it holds.  This device hosts the    *)
(* chat; peers write to the room directly.                                 *)
(***************************************************************************)
EXTENDS Naturals, Sequences, FiniteSets, SequencesExt

CONSTANTS
    InitOp,      \* SessionDoc::init's own operations
    LocalOps,    \* operations this device commits later
    PeerOps,     \* operations of other devices
    Bad,         \* local operations the room rejects for good
    Big,         \* local operations over MAX_PUSH_BYTES
    EarlyRows,   \* live rows are relayed to a socket that has not backfilled
    RowLimit,    \* the row count past which a checkpoint is due
    MaxDrops, MaxReopens, MaxWipes, MaxQuota,   \* bounds on each fault
    MaxFaults    \* and on their number

VARIABLES
    doc,         \* the live document
    saved,       \* the snapshot row: a document and a cursor (and its era)
    cursor,      \* Shared::cursor
    opened,      \* the cursor read when the handle was opened
    pending,     \* Shared::pending: batches until their ack
    buffer,      \* chat2_pending_local: updates made before the join
    slot,        \* the joined client is installed in the handle
    phase,       \* where the actor is: down, hello, fetch, backfill, open
    joined,      \* the first join of this client has resolved
    resumed,     \* Actor::resumed
    wanted,      \* the catch-up plan: rows after this one
    view,        \* Shared::server: is there a checkpoint, how many rows
    nudged,      \* the nudge channel holds a token
    quota,       \* Shared::quota_blocked and whether retry_at is armed
    owed,        \* recovery events the host's watcher has not read
    boot,        \* the bootstrap check after the join has not run
    posting,     \* the checkpoint POST in flight, if any
    up, down,    \* frames on the way to the room and to the client
    relayed,     \* the room relays live rows to this socket
    room,        \* rows, floor and checkpoint
    minted,      \* batch ids handed out
    rejected,    \* history: operations retired without a row
    stranded,    \* history: operations the code gave up pushing
    era,         \* history: the room's incarnation the cursor counts rows of
    fooled,      \* history: an old cursor passed for one of the wiped room
    drops, reopens, wipes, quotas

clientVars == <<cursor, opened, pending, slot, phase, joined, resumed, wanted, view,
                nudged, quota>>
hostVars   == <<owed, boot, posting>>
netVars    == <<up, down, relayed>>
syncHist   == <<rejected, stranded, era, fooled>>
faultVars  == <<drops, reopens, wipes, quotas>>
syncVars == <<doc, saved, buffer, clientVars, hostVars, netVars, room, minted, syncHist,
          faultVars>>

MyOps   == {InitOp} \cup LocalOps
NoPost  == [there |-> FALSE, seq |-> 0, ops |-> {}, era |-> 0]
NewRoom == [rows |-> <<>>, floor |-> 0, ckpt |-> NoPost]
NoView  == [ckpt |-> FALSE, rows |-> 0]
Calm    == [blocked |-> FALSE, armed |-> FALSE]

HeadSeq == Len(room.rows)
\* What a cold reader of the room can get.
RoomOps == room.ckpt.ops \cup UNION {room.rows[i].ops : i \in (room.floor + 1)..HeadSeq}
OpsOf(batches) == UNION {b.ops : b \in ToSet(batches)}

\* The k-th smallest number of S, and the members of s at the indices S, in order.
Nth(S, k)    == CHOOSE i \in S : Cardinality({j \in S : j <= i}) = k
Picked(s, S) == [k \in 1..Cardinality(S) |-> s[Nth(S, k)]]

FaultsLeft == drops + reopens + wipes + quotas < MaxFaults

SyncInit ==
    /\ doc = {InitOp}
    /\ saved = [doc |-> {InitOp}, cursor |-> 0, era |-> 0]
    /\ buffer = <<{InitOp}>>
    /\ cursor = 0 /\ opened = [cursor |-> 0, era |-> 0]
    /\ pending = <<>>
    /\ slot = FALSE /\ phase = "down" /\ joined = FALSE /\ resumed = FALSE
    /\ wanted = 0 /\ view = NoView
    /\ nudged = FALSE /\ quota = Calm
    /\ owed = 0 /\ boot = FALSE /\ posting = NoPost
    /\ up = <<>> /\ down = <<>> /\ relayed = FALSE
    /\ room = NewRoom
    /\ minted = 0
    /\ rejected = {} /\ stranded = {} /\ era = 0 /\ fooled = FALSE
    /\ drops = 0 /\ reopens = 0 /\ wipes = 0 /\ quotas = 0

-----------------------------------------------------------------------------
(* Local updates.                                                          *)

\* enqueue_update of a sequence of updates: an update over the cap is refused
\* and reported, the others get a batch id and the actor is nudged.
Enqueue(updates) ==
    LET refused == {i \in DOMAIN updates : updates[i] \cap Big # {}}
        fits    == Picked(updates, DOMAIN updates \ refused)
    IN  /\ pending' = pending \o [i \in DOMAIN fits |-> [id |-> minted + i, ops |-> fits[i]]]
        /\ minted' = minted + Len(fits)
        /\ nudged' = (nudged \/ fits # <<>>)
        /\ owed' = owed + Cardinality(refused)
        /\ rejected' = rejected \cup UNION {updates[i] : i \in refused}

\* A commit: the local-update subscription feeds the client, or the buffer
\* while no client is installed.
Commit(o) ==
    /\ o \in LocalOps \ (doc \cup rejected)
    /\ o \notin RoomOps /\ o \notin saved.doc /\ o \notin stranded
    /\ doc' = doc \cup {o}
    /\ IF slot THEN Enqueue(<<{o}>>) /\ UNCHANGED buffer
       ELSE /\ buffer' = Append(buffer, {o})
            /\ UNCHANGED <<pending, minted, nudged, owed, rejected>>
    /\ UNCHANGED <<saved, cursor, opened, slot, phase, joined, resumed, wanted, view, quota,
                   boot, posting, netVars, room, stranded, era, fooled, faultVars>>

\* save_snapshot leaves the cursor column alone.
SavePlain ==
    /\ saved.doc # doc
    /\ saved' = [saved EXCEPT !.doc = doc]
    /\ UNCHANGED <<doc, buffer, clientVars, hostVars, netVars, room, minted, syncHist,
                   faultVars>>

\* Slip: the cursor is saved without the document it belongs to.
PersistCursorOnly(d, c) == [saved EXCEPT !.cursor = c]

\* persist_with_cursor: document and cursor in one transaction.
PersistWithCursor(d, c) == [doc |-> d, cursor |-> c, era |-> wipes]

-----------------------------------------------------------------------------
(* The actor: dial, hello, catch-up.                                       *)

\* The session ends.  Before the first join resolved, the whole client goes
\* and the join loop makes a new one with the cursor of the open.
SessionEnds ==
    /\ phase' = "down"
    /\ up' = <<>> /\ down' = <<>> /\ relayed' = FALSE
    /\ cursor' = IF joined THEN cursor ELSE opened.cursor
    /\ era' = IF joined THEN era ELSE opened.era
    /\ UNCHANGED <<opened, pending, slot, joined, resumed, wanted, view, nudged, quota>>

Dial ==
    /\ phase = "down"
    /\ phase' = "hello"
    /\ up' = <<[t |-> "hello"]>>
    /\ relayed' = EarlyRows
    /\ UNCHANGED <<doc, saved, buffer, cursor, opened, pending, slot, joined, resumed,
                   wanted, view, nudged, quota, hostVars, down, room, minted, syncHist,
                   faultVars>>

\* A broadcast that overtakes the state frame is skipped.
SkipStale ==
    /\ phase = "hello" /\ down # <<>> /\ Head(down).t # "state"
    /\ down' = Tail(down)
    /\ UNCHANGED <<doc, saved, buffer, clientVars, hostVars, up, relayed, room, minted,
                   syncHist, faultVars>>

RowsReq(after) == [t |-> "rows_req", after |-> after, excludeOwn |-> resumed]

\* Slip: a cursor from before a wipe is kept.
PlanTrustsCursor(c, st, contained) ==
    IF ~st.ckpt.there \/ contained
      THEN [fetch |-> FALSE, after |-> IF c > st.ckpt.seq THEN c ELSE st.ckpt.seq]
      ELSE [fetch |-> TRUE, after |-> st.ckpt.seq]

\* plan_catch_up.  A cursor beyond the head belongs to a room that was wiped.
PlanCatchUp(c, st, contained) ==
    LET honest == IF c > st.head THEN 0 ELSE c
    IN  IF ~st.ckpt.there THEN [fetch |-> FALSE, after |-> honest]
        ELSE IF contained
          THEN [fetch |-> FALSE, after |-> IF honest > st.ckpt.seq THEN honest ELSE st.ckpt.seq]
          ELSE [fetch |-> TRUE, after |-> st.ckpt.seq]

\* The state frame: the reset signal, the plan, and - unless a checkpoint has
\* to be fetched first - the clamped cursor and the rows request.  The host's
\* watcher only hears events of a client that is installed.
RecvState ==
    /\ phase = "hello" /\ down # <<>> /\ Head(down).t = "state"
    /\ LET st   == Head(down)
           plan == PlanCatchUp(cursor, st, st.ckpt.ops \subseteq doc)
       IN  /\ view' = [ckpt |-> st.ckpt.there, rows |-> st.rowCount]
           /\ owed' = IF slot /\ cursor > st.head THEN owed + 1 ELSE owed
           /\ wanted' = plan.after
           /\ IF plan.fetch
                THEN phase' = "fetch" /\ UNCHANGED <<cursor, up>>
                ELSE /\ phase' = "backfill"
                     /\ cursor' = IF plan.after < cursor THEN plan.after ELSE cursor
                     /\ up' = Append(up, RowsReq(plan.after))
           /\ era' = IF plan.fetch THEN era ELSE wipes
           /\ fooled' = (fooled \/ (era # wipes /\ cursor <= st.head))
    /\ down' = Tail(down)
    /\ UNCHANGED <<doc, saved, buffer, opened, pending, slot, joined, resumed, nudged, quota,
                   boot, posting, relayed, room, minted, rejected, stranded, faultVars>>

\* The checkpoint arrives: whatever the room holds by now, recorded under the
\* sequence number of the state frame.
FetchCheckpoint ==
    /\ phase = "fetch" /\ room.ckpt.there
    /\ doc' = doc \cup room.ckpt.ops
    /\ saved' = PersistWithCursor(doc', wanted)
    /\ cursor' = wanted
    /\ era' = wipes
    /\ phase' = "backfill"
    /\ up' = Append(up, RowsReq(wanted))
    /\ UNCHANGED <<buffer, opened, pending, slot, joined, resumed, wanted, view, nudged,
                   quota, hostVars, down, relayed, room, minted, rejected, stranded, fooled,
                   faultVars>>

\* A row: imported and saved with its sequence number, then the cursor.
RecvRow ==
    /\ phase \in {"backfill", "open"} /\ down # <<>> /\ Head(down).t = "row"
    /\ LET row == Head(down) IN
       /\ doc' = doc \cup row.ops
       /\ saved' = PersistWithCursor(doc', row.seq)
       /\ cursor' = IF row.seq > cursor THEN row.seq ELSE cursor
    /\ down' = Tail(down)
    /\ UNCHANGED <<buffer, opened, pending, slot, phase, joined, resumed, wanted, view,
                   nudged, quota, hostVars, up, relayed, room, minted, syncHist, faultVars>>

PushFrames(batches) == [i \in DOMAIN batches |-> [t |-> "push", id |-> batches[i].id,
                                                  ops |-> batches[i].ops]]

\* Backfill complete: caught up, and everything pending is pushed.
RecvRowsDone ==
    /\ phase = "backfill" /\ down # <<>> /\ Head(down).t = "done"
    /\ phase' = "open" /\ joined' = TRUE /\ resumed' = TRUE
    /\ up' = up \o PushFrames(pending)
    /\ down' = Tail(down)
    /\ UNCHANGED <<doc, saved, buffer, cursor, opened, pending, slot, wanted, view, nudged,
                   quota, hostVars, relayed, room, minted, syncHist, faultVars>>

\* spawn_chat2_join: install the client and drain the buffer, in one lock.
Install ==
    /\ joined /\ ~slot
    /\ slot' = TRUE
    /\ Enqueue(buffer)
    /\ buffer' = <<>>
    /\ boot' = TRUE
    /\ UNCHANGED <<doc, saved, cursor, opened, phase, joined, resumed, wanted, view, quota,
                   posting, netVars, room, stranded, era, fooled, faultVars>>

-----------------------------------------------------------------------------
(* The actor: steady state.                                                *)

\* A nudge pushes everything pending, again if need be.
PushPending ==
    /\ phase = "open" /\ nudged
    /\ nudged' = FALSE
    /\ up' = up \o PushFrames(pending)
    /\ UNCHANGED <<doc, saved, buffer, cursor, opened, pending, slot, phase, joined, resumed,
                   wanted, view, quota, hostVars, down, relayed, room, minted, syncHist,
                   faultVars>>

\* The quota clock: probe with the head batch only.
PushHead ==
    /\ phase = "open" /\ quota.armed
    /\ quota' = [quota EXCEPT !.armed = FALSE]
    /\ up' = up \o PushFrames(IF pending = <<>> THEN <<>> ELSE <<Head(pending)>>)
    /\ UNCHANGED <<doc, saved, buffer, cursor, opened, pending, slot, phase, joined, resumed,
                   wanted, view, nudged, hostVars, down, relayed, room, minted, syncHist,
                   faultVars>>

\* The indices of a batch, and the batches without it.
Named(batches, id)   == {i \in DOMAIN batches : batches[i].id = id}
Without(batches, id) == Picked(batches, DOMAIN batches \ Named(batches, id))

\* Each grant probes the next batch until the queue is empty.
QuotaAfterAck(left) ==
    IF ~quota.blocked THEN quota
    ELSE IF left = <<>> THEN [quota EXCEPT !.blocked = FALSE]
    ELSE [quota EXCEPT !.armed = TRUE]

RecvAck ==
    /\ phase \in {"backfill", "open"} /\ down # <<>> /\ Head(down).t = "ack"
    /\ LET ack  == Head(down)
           left == Without(pending, ack.id)
       IN  /\ pending' = left
           /\ cursor' = IF ack.seq > cursor THEN ack.seq ELSE cursor
           /\ saved' = PersistWithCursor(doc, cursor')
           /\ quota' = QuotaAfterAck(left)
    /\ down' = Tail(down)
    /\ UNCHANGED <<doc, buffer, opened, slot, phase, joined, resumed, wanted, view, nudged,
                   hostVars, up, relayed, room, minted, syncHist, faultVars>>

\* Slip: a batch is retired without a word.
OwedSilently(retired) == owed

\* A rejection is reported when it retired a batch.
OwedAfter(retired) == IF slot /\ retired THEN owed + 1 ELSE owed

\* An error frame: a permanent verdict retires the batch and is reported; a
\* quota rejection keeps it and arms the clock.
RecvError ==
    /\ phase \in {"backfill", "open"} /\ down # <<>> /\ Head(down).t = "error"
    /\ LET err == Head(down) IN
       IF err.quota
         THEN /\ quota' = [blocked |-> TRUE, armed |-> TRUE]
              /\ UNCHANGED <<pending, owed, rejected>>
         ELSE /\ pending' = Without(pending, err.id)
              /\ owed' = OwedAfter(pending' # pending)
              /\ rejected' = rejected \cup UNION {pending[i].ops : i \in Named(pending, err.id)}
              /\ UNCHANGED quota
    /\ down' = Tail(down)
    /\ UNCHANGED <<doc, saved, buffer, cursor, opened, slot, phase, joined, resumed, wanted,
                   view, nudged, boot, posting, up, relayed, room, minted, stranded, era, fooled,
                   faultVars>>

-----------------------------------------------------------------------------
(* The host's checkpoints.                                                 *)

\* Slip: the checkpoint claims everything the room was known to hold.
CoversHead == [there |-> TRUE, seq |-> HeadSeq, ops |-> doc, era |-> era]

\* spawn_chat2_checkpoint: the cursor first, then the document.
Snapshot == [there |-> TRUE, seq |-> cursor, ops |-> doc, era |-> era]

\* One POST at a time: a trigger that finds one in flight is dropped.
StartPost ==
    IF posting.there
      THEN /\ stranded' = stranded \cup (doc \ (posting.ops \cup RoomOps \cup OpsOf(pending)))
           /\ UNCHANGED posting
      ELSE posting' = Snapshot /\ UNCHANGED stranded

\* The watcher reads ServerReset or PushRejected.
HandleEvent ==
    /\ slot /\ owed > 0
    /\ owed' = owed - 1
    /\ StartPost
    /\ UNCHANGED <<doc, saved, buffer, clientVars, boot, netVars, room, minted, rejected,
                   era, fooled, faultVars>>

\* Three seconds after the join: a room with no checkpoint gets one, but not of
\* a document without an entry.
Bootstrap ==
    /\ boot
    /\ boot' = FALSE
    /\ \/ view.ckpt /\ UNCHANGED <<posting, stranded>>
       \/ ~view.ckpt /\ doc # {InitOp} /\ StartPost
       \/ /\ ~view.ckpt /\ doc = {InitOp}
          /\ stranded' = stranded \cup (doc \ (RoomOps \cup OpsOf(pending)))
          /\ UNCHANGED posting
    /\ UNCHANGED <<doc, saved, buffer, clientVars, owed, netVars, room, minted, rejected,
                   era, fooled, faultVars>>

\* chat2_maintenance on the snapshot tick, by the last known row count.
Maintain ==
    /\ slot /\ view.rows > RowLimit /\ ~posting.there
    /\ posting' = Snapshot
    /\ UNCHANGED <<doc, saved, buffer, clientVars, owed, boot, netVars, room, minted,
                   syncHist, faultVars>>

\* The room takes a checkpoint of a prefix of its log that is not older than
\* the one it has, and prunes the rows it covers.
Accepts(p) == p.seq <= HeadSeq /\ (room.ckpt.there => p.seq >= room.ckpt.seq)

PostLands ==
    /\ posting.there /\ Accepts(posting)
    /\ room' = [room EXCEPT !.ckpt = posting, !.floor = posting.seq]
    /\ view' = [ckpt |-> TRUE, rows |-> 0]
    /\ posting' = NoPost
    /\ fooled' = (fooled \/ posting.era # wipes)
    /\ UNCHANGED <<doc, saved, buffer, cursor, opened, pending, slot, phase, joined, resumed,
                   wanted, nudged, quota, owed, boot, netVars, minted, rejected, stranded, era,
                   faultVars>>

\* Rejected, or the request failed: nobody tries again.
PostFails ==
    /\ posting.there
    /\ ~Accepts(posting) \/ (drops < MaxDrops /\ FaultsLeft)
    /\ drops' = IF Accepts(posting) THEN drops + 1 ELSE drops
    /\ posting' = NoPost
    /\ stranded' = stranded \cup (posting.ops \ (RoomOps \cup OpsOf(pending)))
    /\ UNCHANGED <<doc, saved, buffer, clientVars, owed, boot, netVars, room, minted,
                   rejected, era, fooled, reopens, wipes, quotas>>

-----------------------------------------------------------------------------
(* The room and the other devices: external.                               *)

\* The answer to a hello; a presence beat may have been relayed before it.
ServeHello ==
    /\ up # <<>> /\ Head(up).t = "hello"
    /\ up' = Tail(up)
    /\ \E early \in {<<>>, <<[t |-> "presence"]>>} :
         down' = down \o early \o <<[t |-> "state", head |-> HeadSeq, ckpt |-> room.ckpt,
                                    rowCount |-> HeadSeq - room.floor]>>
    /\ UNCHANGED <<doc, saved, buffer, clientVars, hostVars, relayed, room, minted, syncHist,
                   faultVars>>

RowFrame(i) == [t |-> "row", seq |-> i, ops |-> room.rows[i].ops]

\* The rows after the cursor in order, without those of this device if asked.
Backfill(req) ==
    LET from == IF req.after > room.floor THEN req.after ELSE room.floor
        sent == {i \in (from + 1)..HeadSeq : ~(req.excludeOwn /\ room.rows[i].own)}
    IN  [k \in 1..Cardinality(sent) |-> RowFrame(Nth(sent, k))]

ServeRows ==
    /\ up # <<>> /\ Head(up).t = "rows_req"
    /\ up' = Tail(up)
    /\ down' = down \o Append(Backfill(Head(up)), [t |-> "done"])
    /\ relayed' = TRUE
    /\ UNCHANGED <<doc, saved, buffer, clientVars, hostVars, room, minted, syncHist,
                   faultVars>>

\* A push: a verdict on bad bytes, a quota refusal, or an ack; a batch that is
\* already in the log is acknowledged again and adds no row.
ServePush ==
    /\ up # <<>> /\ Head(up).t = "push"
    /\ LET push == Head(up)
           old  == {i \in 1..HeadSeq : room.rows[i].own /\ room.rows[i].id = push.id}
       IN  \/ /\ push.ops \cap Bad # {}
              /\ down' = Append(down, [t |-> "error", quota |-> FALSE, id |-> push.id])
              /\ UNCHANGED <<room, quotas>>
           \/ /\ quotas < MaxQuota /\ FaultsLeft
              /\ quotas' = quotas + 1
              /\ down' = Append(down, [t |-> "error", quota |-> TRUE, id |-> push.id])
              /\ UNCHANGED room
           \/ /\ push.ops \cap Bad = {}
              /\ room' = IF old # {} THEN room
                         ELSE [room EXCEPT !.rows = Append(@, [ops |-> push.ops, own |-> TRUE,
                                                               id |-> push.id])]
              /\ down' = Append(down, [t |-> "ack", id |-> push.id,
                                       seq |-> IF old # {} THEN CHOOSE i \in old : TRUE
                                               ELSE HeadSeq + 1])
              /\ UNCHANGED quotas
    /\ up' = Tail(up)
    /\ UNCHANGED <<doc, saved, buffer, clientVars, hostVars, relayed, minted, syncHist, drops,
                   reopens, wipes>>

\* Another device's batch: appended and relayed.
PeerPush(o) ==
    /\ o \in PeerOps \ (RoomOps \cup doc \cup saved.doc \cup stranded)
    /\ room' = [room EXCEPT !.rows = Append(@, [ops |-> {o}, own |-> FALSE, id |-> 0])]
    /\ down' = IF relayed THEN Append(down, [t |-> "row", seq |-> HeadSeq + 1, ops |-> {o}])
               ELSE down
    /\ UNCHANGED <<doc, saved, buffer, clientVars, hostVars, up, relayed, minted, syncHist,
                   faultVars>>

\* A lost socket, a missed deadline, a failed fetch: redial.
Drop ==
    /\ phase # "down" /\ drops < MaxDrops /\ FaultsLeft
    /\ drops' = drops + 1
    /\ SessionEnds
    /\ UNCHANGED <<doc, saved, buffer, hostVars, room, minted, rejected, stranded, fooled,
                   reopens, wipes, quotas>>

\* The fetch finds no checkpoint any more.
FetchMissing ==
    /\ phase = "fetch" /\ ~room.ckpt.there
    /\ SessionEnds
    /\ UNCHANGED <<doc, saved, buffer, hostVars, room, minted, rejected, stranded, fooled,
                   faultVars>>

\* An operator wipes the room, which closes its sockets.
Wipe ==
    /\ wipes < MaxWipes /\ FaultsLeft /\ room # NewRoom
    /\ wipes' = wipes + 1
    /\ room' = NewRoom
    /\ SessionEnds
    /\ UNCHANGED <<doc, saved, buffer, hostVars, minted, rejected, stranded, fooled, drops,
                   reopens, quotas>>

\* First contact (cursor 0) pushes the whole document.
FirstContact == IF saved.cursor = 0 THEN <<saved.doc>> ELSE <<>>

\* The engine dies and opens the chat again.  Past the first contact, what was
\* still queued is not pushed again.
CrashAndReopen ==
    /\ reopens < MaxReopens /\ FaultsLeft
    /\ reopens' = reopens + 1
    /\ doc' = saved.doc
    /\ buffer' = FirstContact
    /\ cursor' = saved.cursor /\ opened' = [cursor |-> saved.cursor, era |-> saved.era]
    /\ pending' = <<>> /\ slot' = FALSE /\ phase' = "down" /\ joined' = FALSE
    /\ resumed' = FALSE /\ wanted' = 0 /\ view' = NoView /\ nudged' = FALSE /\ quota' = Calm
    /\ owed' = 0 /\ boot' = FALSE /\ posting' = NoPost
    /\ up' = <<>> /\ down' = <<>> /\ relayed' = FALSE
    /\ stranded' = IF saved.cursor = 0 THEN stranded ELSE stranded \cup (saved.doc \ RoomOps)
    /\ era' = saved.era
    /\ UNCHANGED <<saved, room, minted, rejected, fooled, drops, wipes, quotas>>

-----------------------------------------------------------------------------
Client == \/ Dial \/ SkipStale \/ RecvState \/ FetchCheckpoint \/ FetchMissing \/ RecvRow
          \/ RecvRowsDone \/ PushPending \/ PushHead \/ RecvAck \/ RecvError
Server == ServeHello \/ ServeRows \/ ServePush
HostTasks == Install \/ HandleEvent \/ Bootstrap \/ Maintain \/ PostLands

SyncNext ==
    \/ \E o \in LocalOps : Commit(o)
    \/ \E o \in PeerOps : PeerPush(o)
    \/ SavePlain \/ Client \/ HostTasks \/ Server
    \/ PostFails \/ Drop \/ Wipe \/ CrashAndReopen

SyncSpec == SyncInit /\ [][SyncNext]_syncVars

-----------------------------------------------------------------------------
\* The client's state has the shape the code gives it; a client is installed
\* only after its first join, and is open only then.
SyncTypeOK ==
    /\ doc \subseteq MyOps \cup PeerOps
    /\ cursor \in Nat /\ saved.cursor \in Nat
    /\ \A i \in DOMAIN pending : pending[i].id \in 1..minted
    /\ phase \in {"down", "hello", "fetch", "backfill", "open"}
    /\ slot => joined
    /\ phase = "open" => resumed

\* ChatEvent::CaughtUp: a client that finished its backfill and has read what
\* was sent to it holds everything the room holds, whatever was lost, pruned,
\* rolled back or wiped before.
CaughtUpIsConverged ==
    phase = "open" /\ down = <<>> /\ ~fooled => RoomOps \subseteq doc

\* save_snapshot_with_cursor: the document on disk holds every row of the
\* room's log up to the cursor saved with it.
CursorIsCovered ==
    saved.era = wipes /\ ~fooled =>
      UNION {room.rows[i].ops : i \in {j \in 1..HeadSeq : j <= saved.cursor}} \subseteq saved.doc

\* spawn_chat2_checkpoint: a checkpoint never makes the room forget anything:
\* the rows it prunes are in it.
RoomStep == wipes' = wipes /\ ~fooled' => RoomOps \subseteq RoomOps'
RoomNeverForgets == [][RoomStep]_syncVars

Quiet == /\ phase = "open" /\ slot /\ pending = <<>> /\ buffer = <<>> /\ up = <<>>
         /\ down = <<>> /\ owed = 0 /\ ~boot /\ ~posting.there /\ ~fooled

\* When nothing is left to do, the room holds everything the document holds -
\* updates made before the join, offline, refused or rejected, and the whole
\* document after a wipe - except what the code gave up: a push queue lost in a
\* crash, compensating checkpoints that were dropped or failed, and an empty
\* document's first operations when the room was wiped while the engine was down.
NothingLeftBehind == Quiet => doc \subseteq RoomOps \cup stranded
=============================================================================
