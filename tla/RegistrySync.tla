---------------------------- MODULE RegistrySync ----------------------------
(***************************************************************************)
(* The workspace registry: every device's replica of one row               *)
(* (RegistryDoc, crates/doc/src/registry.rs), the client that keeps it in  *)
(* step with the registry room (crates/sync/src/registry.rs), and the room *)
(* as crates/sync/src/registry/mock_server.rs implements it.               *)
(*                                                                         *)
(* A field's value is identified by the clock of the write that set it;    *)
(* whether that write cleared the field is kept apart (has).  A clock is a *)
(* number: tick * number of devices + device, so that, as in encode_hlc,   *)
(* two devices never tie.  0 stands for "never written".  Rows do not      *)
(* influence each other, so one row is modelled and a batch carries its    *)
(* one op.                                                                 *)
(***************************************************************************)
EXTENDS Naturals, FiniteSets, Sequences, SequencesExt

CONSTANTS
    Fields,      \* the row's fields
    Claimed,     \* those claim_chat writes
    NDevices,    \* number of devices
    MaxTick,     \* bound on the ticks local writes are stamped with
    MaxGcFloor,  \* bound on the room's tombstone horizon
    Budgets      \* bounds, one for each behaviour: local writes, lost connections,
                 \* crashes and operator wipes of the room

ASSUME FieldsAssumption  == Claimed \subseteq Fields /\ IsFiniteSet(Fields)
ASSUME DevicesAssumption == NDevices \in Nat \ {0}
ASSUME BoundsAssumption  ==
    /\ {MaxTick, MaxGcFloor} \subseteq Nat
    /\ Budgets \subseteq [writes : Nat, drops : Nat, crashes : Nat, resets : Nat]

Devices == 1..NDevices

VARIABLES
    doc,      \* [Devices -> RegistryDoc]: auth, cursor, pending, fresh (generation 0)
    clock,    \* [Devices -> last tick handed out]
    disk,     \* [Devices -> the last snapshot saved]
    conn,     \* [Devices -> "down", "hello" (waiting for state), "open"]
    up,       \* [Devices -> frames on the way to the room]
    down,     \* [Devices -> frames on the way back]
    ready,    \* [Devices -> the room has answered this connection's hello]
    room,     \* the room: row, seq, gcFloor
    left,     \* what is left of the behaviour's budget
    wiped,    \* the room was wiped
    acked,    \* history: ops whose batch was retired by an ack
    merged,   \* history: ops the room has merged
    rejoined  \* history: devices whose hello was answered since the last wipe

vars == <<doc, clock, disk, conn, up, down, ready, room, left, wiped, acked, merged,
          rejoined>>

-----------------------------------------------------------------------------
(* Rows and ops.                                                           *)

NoRow == [here |-> FALSE, deleted |-> FALSE, del |-> 0, seq |-> 0,
          has |-> [f \in Fields |-> FALSE], clk |-> [f \in Fields |-> 0]]

Hlc(tick, d) == tick * NDevices + d

LiveRow(row) == row.here /\ ~row.deleted

\* Slip: per-field clocks are not compared on deletes.
BeatsTombstone(op, row) == op.hlc > row.del

\* The op is newer than everything on a live row, or than the tombstone (which
\* has no field clocks).
Beats(op, row) == op.hlc > row.del /\ \A f \in Fields : op.hlc > row.clk[f]

DeleteRow(op, row) ==
    IF ~row.here \/ Beats(op, row)
      THEN [row     |-> [NoRow EXCEPT !.here = TRUE, !.deleted = TRUE, !.del = op.hlc,
                                      !.seq = row.seq],
            changed |-> TRUE]
      ELSE [row |-> row, changed |-> FALSE]

\* Upserts create and revive (a revived row keeps its tombstone clock and
\* nothing else); updates never do.  Fields merge by their own clocks.
WriteRow(op, row) ==
    LET refused == ~LiveRow(row) /\ (op.op = "update" \/ (row.here /\ op.hlc <= row.del))
        base    == IF LiveRow(row) THEN row
                   ELSE [NoRow EXCEPT !.here = TRUE, !.del = row.del, !.seq = row.seq]
        wins    == {f \in Fields : op.set[f] # "keep" /\ op.clk[f] > base.clk[f]}
    IN  IF refused THEN [row |-> row, changed |-> FALSE]
        ELSE [row |-> [base EXCEPT
                         !.has = [f \in Fields |-> IF f \in wins THEN op.set[f] = "value" ELSE @[f]],
                         !.clk = [f \in Fields |-> IF f \in wins THEN op.clk[f] ELSE @[f]]],
              changed |-> ~LiveRow(row) \/ wins # {}]

ApplyOp(row, op) == IF op.op = "delete" THEN DeleteRow(op, row) ELSE WriteRow(op, row)

Clocks(row)   == {row.del} \cup {row.clk[f] : f \in Fields}
MaxClock(row) == Max(Clocks(row))

\* row_to_seed_op: only fields that hold a value are carried.
SeedOp(row) ==
    [op  |-> IF row.deleted THEN "delete" ELSE "upsert",
     hlc |-> IF row.deleted THEN row.del ELSE MaxClock(row),
     set |-> [f \in Fields |-> IF row.has[f] THEN "value" ELSE "keep"],
     clk |-> row.clk]

WriteOp(kind, set, hlc) ==
    [op |-> kind, hlc |-> hlc, set |-> set, clk |-> [f \in Fields |-> hlc]]

Keep == [f \in Fields |-> "keep"]

-----------------------------------------------------------------------------
(* RegistryDoc.                                                            *)

NewDoc == [auth |-> NoRow, cursor |-> 0, pending |-> <<>>, fresh |-> TRUE]

\* overlay_row, tombstones included.
Overlay(rd) == FoldLeft(LAMBDA row, b : ApplyOp(row, b.op).row, rd.auth, rd.pending)

Enqueue(rd, id, op) ==
    [rd EXCEPT !.pending = Append(@, [id |-> id, op |-> op, inFlight |-> FALSE]),
               !.fresh = FALSE]

\* The elements of s at the positions keep, in their order (retain, and the loop of
\* take_pushable).
Chosen(s, keep) ==
    LET F[i \in 0..Len(s)] == IF i = 0 THEN <<>>
                              ELSE IF i \in keep THEN Append(F[i - 1], s[i]) ELSE F[i - 1]
    IN  F[Len(s)]

\* Slip: a disconnect leaves the in-flight marks.
StillInFlight(rd) == rd

MarkDisconnected(rd) ==
    [rd EXCEPT !.pending = [i \in DOMAIN @ |-> [@[i] EXCEPT !.inFlight = FALSE]]]

\* The state a restart loads; a fresh connection means nothing is in flight.
FromBytes(rd) == [MarkDisconnected(rd) EXCEPT !.fresh = TRUE]

PutRow(rd, row) == IF row.here THEN [rd EXCEPT !.auth = row] ELSE rd

\* apply_state: a delta; a room behind this replica (rows kept, re-seeded); a
\* full replacement, which re-seeds what the room does not have.
ApplyState(rd, frame, id) ==
    LET reset   == frame.full /\ frame.seq < rd.cursor
        kept    == IF frame.full /\ ~reset THEN [rd EXCEPT !.auth = frame.row]
                   ELSE PutRow(rd, frame.row)
        stepped == [kept EXCEPT !.cursor = frame.seq, !.fresh = FALSE]
        seeds   == rd.auth.here /\ (reset \/ (frame.full /\ ~frame.row.here))
    IN  IF seeds THEN Enqueue(stepped, id, SeedOp(rd.auth)) ELSE stepped

ApplyRows(rd, frame) ==
    [PutRow(rd, frame.row) EXCEPT !.cursor = Max({@, frame.seq}), !.fresh = FALSE]

AckBatch(rd, frame) ==
    [rd EXCEPT !.pending = Chosen(@, {i \in DOMAIN @ : @[i].id # frame.id}),
               !.cursor = Max({@, frame.seq}),
               !.fresh = @ /\ \A i \in DOMAIN rd.pending : rd.pending[i].id # frame.id]

Pushable(rd) == Chosen(rd.pending, {i \in DOMAIN rd.pending : ~rd.pending[i].inFlight})
TakePushable(rd) ==
    [rd EXCEPT !.pending = [i \in DOMAIN @ |-> [@[i] EXCEPT !.inFlight = TRUE]]]

PushFrames(rd) == [i \in DOMAIN Pushable(rd) |->
                     [t |-> "push", id |-> Pushable(rd)[i].id, op |-> Pushable(rd)[i].op]]

-----------------------------------------------------------------------------
Init ==
    /\ doc = [d \in Devices |-> NewDoc]
    /\ clock = [d \in Devices |-> 0]
    /\ disk = [d \in Devices |-> NewDoc]
    /\ conn = [d \in Devices |-> "down"]
    /\ up = [d \in Devices |-> <<>>]
    /\ down = [d \in Devices |-> <<>>]
    /\ ready = [d \in Devices |-> FALSE]
    /\ room = [row |-> NoRow, seq |-> 0, gcFloor |-> 0]
    /\ left \in Budgets /\ wiped = FALSE
    /\ acked = {} /\ merged = {} /\ rejoined = {}

\* A local write: stamp it with a tick of this device's clock (wall clocks may
\* run ahead of each other) and queue its batch.
Write(d, kind, set) ==
    /\ left.writes > 0
    /\ left' = [left EXCEPT !.writes = @ - 1]
    /\ \E tick \in (clock[d] + 1)..MaxTick :
         /\ clock' = [clock EXCEPT ![d] = tick]
         /\ doc' = [doc EXCEPT ![d] = Enqueue(@, Hlc(tick, d), WriteOp(kind, set, Hlc(tick, d)))]
    /\ UNCHANGED <<disk, conn, up, down, ready, room, wiped, acked, merged, rejoined>>

UpsertChat(d) == Write(d, "upsert", [f \in Fields |-> "value"])

\* claim_chat: a partial row, when the chat has none.
ClaimChat(d) ==
    /\ ~LiveRow(Overlay(doc[d]))
    /\ Write(d, "upsert", [f \in Fields |-> IF f \in Claimed THEN "value" ELSE "keep"])

\* rename_chat, set_chat_archived and the other single-field setters.
UpdateChat(d, f, v) ==
    /\ LiveRow(Overlay(doc[d]))
    /\ Write(d, "update", [Keep EXCEPT ![f] = v])

DeleteChat(d) == Write(d, "delete", Keep)

\* The debounced snapshot; taken while a crash can still ask for it.
SaveSnapshot(d) ==
    /\ left.crashes > 0
    /\ disk[d] # doc[d]
    /\ disk' = [disk EXCEPT ![d] = doc[d]]
    /\ UNCHANGED <<doc, clock, conn, up, down, ready, room, left, wiped, acked, merged,
                   rejoined>>

-----------------------------------------------------------------------------
(* The client.                                                             *)

\* Dial, and hello with the cursor; none for a replica that never held anything.
Connect(d) ==
    /\ conn[d] = "down"
    /\ conn' = [conn EXCEPT ![d] = "hello"]
    /\ up' = [up EXCEPT ![d] = <<[t |-> "hello",
                                  none |-> doc[d].fresh /\ doc[d].cursor = 0 /\ doc[d].pending = <<>>,
                                  cursor |-> doc[d].cursor]>>]
    /\ UNCHANGED <<doc, clock, disk, down, ready, room, left, wiped, acked, merged,
                   rejoined>>

\* The state frame, and then everything pending is pushed.
RecvState(d) ==
    /\ conn[d] = "hello" /\ ready[d]
    /\ LET next == ApplyState(doc[d], Head(down[d]), Hlc(clock[d] + 1, d)) IN
       /\ doc' = [doc EXCEPT ![d] = TakePushable(next)]
       /\ clock' = [clock EXCEPT ![d] = IF Len(next.pending) > Len(doc[d].pending)
                                          THEN @ + 1 ELSE @]
       /\ up' = [up EXCEPT ![d] = PushFrames(next)]
    /\ down' = [down EXCEPT ![d] = Tail(@)]
    /\ conn' = [conn EXCEPT ![d] = "open"]
    /\ UNCHANGED <<disk, ready, room, left, wiped, acked, merged, rejoined>>

\* A rows or ack frame.
RecvRows(d) ==
    /\ conn[d] = "open" /\ down[d] # <<>> /\ Head(down[d]).t = "rows"
    /\ doc' = [doc EXCEPT ![d] = ApplyRows(@, Head(down[d]))]
    /\ down' = [down EXCEPT ![d] = Tail(@)]
    /\ UNCHANGED <<clock, disk, conn, up, ready, room, left, wiped, acked, merged,
                   rejoined>>

RecvAck(d) ==
    /\ conn[d] = "open" /\ down[d] # <<>> /\ Head(down[d]).t = "ack"
    /\ LET frame == Head(down[d]) IN
       /\ doc' = [doc EXCEPT ![d] = AckBatch(@, frame)]
       /\ acked' = acked \cup {b.op : b \in {b \in ToSet(doc[d].pending) : b.id = frame.id}}
    /\ down' = [down EXCEPT ![d] = Tail(@)]
    /\ UNCHANGED <<clock, disk, conn, up, ready, room, left, wiped, merged, rejoined>>

\* A nudge after a local write.
PushPending(d) ==
    /\ conn[d] = "open" /\ Pushable(doc[d]) # <<>>
    /\ up' = [up EXCEPT ![d] = @ \o PushFrames(doc[d])]
    /\ doc' = [doc EXCEPT ![d] = TakePushable(@)]
    /\ UNCHANGED <<clock, disk, conn, down, ready, room, left, wiped, acked, merged,
                   rejoined>>

Closed(d) ==
    /\ conn' = [conn EXCEPT ![d] = "down"]
    /\ up' = [up EXCEPT ![d] = <<>>]
    /\ down' = [down EXCEPT ![d] = <<>>]
    /\ ready' = [ready EXCEPT ![d] = FALSE]

\* The connection is lost with whatever was on the way in either direction.
Drop(d) ==
    /\ conn[d] # "down" /\ left.drops > 0
    /\ left' = [left EXCEPT !.drops = @ - 1]
    /\ Closed(d)
    /\ doc' = [doc EXCEPT ![d] = MarkDisconnected(@)]
    /\ UNCHANGED <<clock, disk, room, wiped, acked, merged, rejoined>>

\* The engine dies and restarts from its snapshot.  The wall clock has moved
\* on, so ticks are not handed out again.
Crash(d) ==
    /\ left.crashes > 0
    /\ left' = [left EXCEPT !.crashes = @ - 1]
    /\ Closed(d)
    /\ doc' = [doc EXCEPT ![d] = FromBytes(disk[d])]
    /\ disk' = [disk EXCEPT ![d] = FromBytes(@)]
    /\ UNCHANGED <<clock, room, wiped, acked, merged, rejoined>>

-----------------------------------------------------------------------------
(* The room.                                                               *)

\* hello: the full state for a cursor the room cannot continue from.
ServeHello(d) ==
    /\ up[d] # <<>> /\ Head(up[d]).t = "hello"
    /\ LET frame == Head(up[d])
           full  == frame.none \/ frame.cursor < room.gcFloor \/ frame.cursor > room.seq
           sent  == IF full \/ room.row.seq > frame.cursor THEN room.row ELSE NoRow
       IN  down' = [down EXCEPT ![d] = <<[t |-> "state", seq |-> room.seq, full |-> full,
                                          row |-> sent]>>]
    /\ up' = [up EXCEPT ![d] = Tail(@)]
    /\ ready' = [ready EXCEPT ![d] = TRUE]
    /\ rejoined' = rejoined \cup {d}
    /\ UNCHANGED <<doc, clock, disk, conn, room, left, wiped, acked, merged>>

\* Slip: the ack leaves before the rows.
AckThenRows(rows, ack) == <<ack>> \o rows

RowsThenAck(rows, ack) == rows \o <<ack>>

\* push: merge, broadcast the row if it changed (sockets that have not said
\* hello discard it), acknowledge.
ServePush(d) ==
    /\ up[d] # <<>> /\ Head(up[d]).t = "push"
    /\ LET frame  == Head(up[d])
           next   == ApplyOp(room.row, frame.op)
           seq    == IF next.changed THEN room.seq + 1 ELSE room.seq
           rows   == IF next.changed
                       THEN <<[t |-> "rows", seq |-> seq, row |-> [next.row EXCEPT !.seq = seq]]>>
                       ELSE <<>>
           ack    == [t |-> "ack", id |-> frame.id, seq |-> seq]
       IN  /\ room' = IF next.changed
                        THEN [room EXCEPT !.seq = seq, !.row = [next.row EXCEPT !.seq = seq]]
                        ELSE room
           /\ down' = [e \in Devices |-> down[e] \o
                         (IF e = d THEN RowsThenAck(rows, ack)
                          ELSE IF ready[e] THEN rows ELSE <<>>)]
    /\ merged' = merged \cup {Head(up[d]).op}
    /\ up' = [up EXCEPT ![d] = Tail(@)]
    /\ UNCHANGED <<doc, clock, disk, conn, ready, left, wiped, acked, rejoined>>

\* The tombstone horizon moves: older cursors get the full state.
RaiseGcFloor ==
    /\ room.gcFloor < room.seq /\ room.seq <= MaxGcFloor
    /\ room' = [room EXCEPT !.gcFloor = room.seq]
    /\ UNCHANGED <<doc, clock, disk, conn, up, down, ready, left, wiped, acked, merged,
                   rejoined>>

\* An operator wipes the room.
Reset ==
    /\ left.resets > 0
    /\ left' = [left EXCEPT !.resets = @ - 1] /\ wiped' = TRUE
    /\ room' = [row |-> NoRow, seq |-> 0, gcFloor |-> 0]
    /\ rejoined' = {}
    /\ UNCHANGED <<doc, clock, disk, conn, up, down, ready, acked, merged>>

-----------------------------------------------------------------------------
LocalStep(d) ==
    \/ UpsertChat(d) \/ ClaimChat(d) \/ DeleteChat(d)
    \/ \E f \in Fields, v \in {"value", "null"} : UpdateChat(d, f, v)
    \/ SaveSnapshot(d)

SyncStep(d) == \/ Connect(d) \/ RecvState(d) \/ RecvRows(d) \/ RecvAck(d)
               \/ PushPending(d) \/ ServeHello(d) \/ ServePush(d)

Next == \/ \E d \in Devices : LocalStep(d) \/ SyncStep(d) \/ Drop(d) \/ Crash(d)
        \/ RaiseGcFloor \/ Reset

Spec == Init /\ [][Next]_vars

\* The client redials for ever with backoff and is nudged after every write;
\* the room answers.  Connections are only lost finitely often.
FairSpec == Spec /\ \A d \in Devices : WF_vars(SyncStep(d))

-----------------------------------------------------------------------------
Rows == [here : BOOLEAN, deleted : BOOLEAN, del : Nat, seq : Nat,
         has : [Fields -> BOOLEAN], clk : [Fields -> Nat]]

\* Every row, replica and connection has the shape the code gives it; a cleared
\* or missing field holds no value, and a tombstone holds no fields.
TypeOK ==
    /\ room \in [row : Rows, seq : Nat, gcFloor : Nat]
    /\ \A d \in Devices :
         /\ {doc[d].auth, disk[d].auth} \subseteq Rows
         /\ doc[d].cursor \in Nat /\ doc[d].fresh \in BOOLEAN
         /\ conn[d] \in {"down", "hello", "open"} /\ ready[d] \in BOOLEAN
         /\ \A f \in Fields : doc[d].auth.has[f] => LiveRow(doc[d].auth) /\ doc[d].auth.clk[f] # 0

\* A replica that is connected and has read everything sent to it shows the
\* room's row, whatever was lost, repeated or restarted before (no wipes).
CaughtUpMeansEqual ==
    ~wiped =>
      \A d \in Devices : conn[d] = "open" /\ down[d] = <<>> => doc[d].auth = room.row

\* What the row's history keeps of a write: its fields or newer ones, or a
\* tombstone at least as new; an update may also have met a tombstone.
Reflected(op, row) ==
    /\ row.here
    /\ \/ row.del >= op.hlc
       \/ op.op = "update" /\ row.del # 0
       \/ op.op # "delete" /\ \A f \in Fields : op.set[f] # "keep" => row.clk[f] >= op.clk[f]
       \/ op.op = "delete" /\ \E f \in Fields : row.clk[f] > op.hlc

\* A write the room acknowledged is in the room's row (no wipes).
AckedWriteSurvives == ~wiped => \A op \in acked : Reflected(op, room.row)

\* After a wipe an acknowledged write is in the room's row again once every replica
\* has rejoined and re-seeded it.  It does not hold: an update still pending is pushed
\* before the re-seed and dropped, and a replica that restarted from an old snapshot
\* has no row to seed.  No run checks it.
ReseedRestoresAcked ==
    (\A d \in Devices : /\ d \in rejoined /\ conn[d] = "open" /\ doc[d].pending = <<>>
                        /\ up[d] = <<>> /\ down[d] = <<>>)
      => \A op \in acked : Reflected(op, room.row)

\* Retiring an acknowledged batch never changes what its device shows: the
\* merged row was applied before the ack.
AckNeverFlickers ==
    [][\A d \in Devices : RecvAck(d) /\ ~wiped =>
          [Overlay(doc[d]) EXCEPT !.seq = 0]' = [Overlay(doc[d]) EXCEPT !.seq = 0]]_vars

\* The row's newest clock never goes back in the room, through deletes,
\* revivals and late or repeated pushes (wipes apart).
RoomClockNeverRegresses ==
    [][left'.resets = left.resets =>
         \A c \in Clocks(room.row) : \E e \in Clocks(room.row') : e >= c]_vars

\* A batch pushed again after a reconnect, because its ack was lost, changes
\* nothing.  The head of registry.rs says so of the strict clock compare; it does
\* not hold: with three writes and a lost connection an upsert pushed again after
\* a delete and a claim wins the fields the claim did not write.  No run checks it.
RepushChangesNothing ==
    [][\A d \in Devices : ServePush(d) /\ Head(up[d]).op \in merged => room' = room]_vars

\* Every local write is acknowledged in the end, whatever connections are lost.
EveryBatchIsAcked == \A d \in Devices : doc[d].pending # <<>> ~> doc[d].pending = <<>>
=============================================================================
