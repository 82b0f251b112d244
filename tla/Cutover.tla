------------------------------- MODULE Cutover --------------------------------
(***************************************************************************)
(* One chat's move from its s2 room to the chat2 relay                     *)
(* (crates/engine/src/doc_host.rs): open, the quiet seed of the hosting    *)
(* device, the cutover watcher, eviction and the snapshot saves, on the    *)
(* host and on one viewer.                                                 *)
(*                                                                         *)
(* A document is the set of what it holds and its lineage: the chat2       *)
(* document is rebuilt, not converted, so merging the two lineages would   *)
(* show every message twice.  The seed's steps interleave with everything  *)
(* else on the host; the rooms' protocols are Chat2Sync's and the s2       *)
(* client's, here one synchronising step each.                             *)
(***************************************************************************)
EXTENDS Naturals, FiniteSets

CONSTANTS
    Host, Viewer,
    Messages,      \* what runs on the host write
    Commands,      \* what the viewer queues
    MaxCrashes, MaxEvicts, MaxSeeds   \* bounds

ASSUME DevicesDiffer == Host # Viewer
ASSUME ItemsDiffer ==           \* messages, commands and statuses are different items
    /\ Messages \cap Commands = {}
    /\ \A c \in Commands : <<c>> \notin Messages \cup Commands

VARIABLES
    gen,           \* roomGen of the chat's row as each device sees it, 0 without a row
    s2, chat2,     \* what the rooms hold
    disk,          \* the saved snapshot: its lineage, its epoch label, its items
    rollback,      \* the .pre-chat2 copy
    handle,        \* the cached handle
    seed,          \* where the host's seed is, and what it rebuilt
    processed,     \* the host's processed_commands ledger
    written,       \* history: messages that reached the host's disk
    unsaved,       \* history: commands in a handle dropped without a save
    raced,         \* history: the host's document moved after the seed's check
    unsealed,      \* history: the seed went on without a handle to check
    clobbered,     \* history: a document was saved over the seed's before its handle retired
    crashes, evicts, seeds

histVars == <<written, unsaved, raced, unsealed, clobbered>>
faults == <<crashes, evicts, seeds>>
cutoverVars == <<gen, s2, chat2, disk, rollback, handle, seed, processed, histVars, faults>>

Dev == {Host, Viewer}
Resolved(c) == <<c>>          \* a command's terminal status, as an item of its own
Items == Messages \cup Commands \cup {Resolved(c) : c \in Commands}

NoDoc == [lin |-> "none", epoch |-> 0, items |-> {}]
NoHandle == [gen |-> 0, lin |-> "none", items |-> {}, retired |-> FALSE, joined |-> FALSE,
             writer |-> FALSE]
NoSeed == [at |-> "no", items |-> {}]
Open(d) == handle[d].gen # 0

Pending(items) == {c \in Commands \cap items : Resolved(c) \notin items}

CutoverInit ==
    /\ gen \in {[d \in Dev |-> 1], [d \in Dev |-> 0]}   \* 0: the row is still being created
    /\ s2 = {} /\ chat2 = {}
    /\ disk = [d \in Dev |-> NoDoc] /\ rollback = [d \in Dev |-> NoDoc]
    /\ handle = [d \in Dev |-> NoHandle]
    /\ seed = NoSeed /\ processed = {}
    /\ written = {} /\ unsaved = {}
    /\ raced = FALSE /\ unsealed = FALSE /\ clobbered = FALSE
    /\ crashes = 0 /\ evicts = 0 /\ seeds = 0

(***************************************************************************)
(* Handles.                                                                *)
(***************************************************************************)
\* A live writer, or commands the host still owes.  A watched transcript pins a
\* handle too; the viewer's is watched by choice of when it is dropped.
Pinned(d) == handle[d].writer \/ (d = Host /\ Pending(handle[d].items) \ processed # {})

RegistryGen(d) == IF gen[d] = 0 THEN 2 ELSE gen[d]

\* open: a stale or retired handle is dropped unless it is pinned.
Cached(d) ==
    /\ Open(d)
    /\ \/ Pinned(d)
       \/ ~handle[d].retired /\ ~(RegistryGen(d) = 2 /\ handle[d].gen = 1)

\* The document an open starts from, and what it does to the stored copies.
OpenThin(d) ==
    /\ handle' = [handle EXCEPT ![d] =
         [NoHandle EXCEPT !.gen = 2, !.lin = disk[d].lin, !.items = disk[d].items]]
    /\ gen' = [gen EXCEPT ![d] = IF @ = 1 THEN 2 ELSE @]     \* completes an interrupted flip
    /\ UNCHANGED <<disk, rollback>>

KeepRollback(d) ==
    rollback' = IF rollback[d].lin = "none" THEN [rollback EXCEPT ![d] = disk[d]] ELSE rollback

\* Discard and adopt: our own unresolved commands are queued again.
OpenAdopt(d) ==
    /\ KeepRollback(d)
    /\ handle' = [handle EXCEPT ![d] =
         [NoHandle EXCEPT !.gen = 2, !.lin = "thin",
                          !.items = IF d = Viewer THEN Pending(disk[d].items) ELSE {}]]
    /\ UNCHANGED <<gen, disk>>

\* Born on chat2: the epoch is stamped at once.
OpenBorn(d) ==
    /\ handle' = [handle EXCEPT ![d] = [NoHandle EXCEPT !.gen = 2, !.lin = "thin", !.items = {}]]
    /\ disk' = [disk EXCEPT ![d] = [lin |-> "thin", epoch |-> 2, items |-> {}]]
    /\ UNCHANGED <<gen, rollback>>

OpenS2(d) ==
    /\ handle' = [handle EXCEPT ![d] =
         [NoHandle EXCEPT !.gen = 1, !.lin = IF disk[d].lin = "none" THEN "fat" ELSE disk[d].lin,
                          !.items = disk[d].items]]
    /\ UNCHANGED <<gen, disk, rollback>>

\* Slip: only the registry decides.
BranchByRow(d) ==
    CASE RegistryGen(d) < 2                                -> OpenS2(d)
      [] disk[d].epoch = 2 /\ RegistryGen(d) = 2           -> OpenThin(d)
      [] disk[d].epoch < 2 /\ disk[d].lin # "none" /\ RegistryGen(d) = 2 -> OpenAdopt(d)
      [] OTHER                                             -> OpenBorn(d)

\* The cutover branch: the row's generation or the local epoch.
OpenBranch(d) ==
    CASE disk[d].epoch = 2                              -> OpenThin(d)
      [] disk[d].epoch < 2 /\ RegistryGen(d) < 2        -> OpenS2(d)
      [] disk[d].epoch < 2 /\ disk[d].lin # "none" /\ RegistryGen(d) = 2 -> OpenAdopt(d)
      [] OTHER                                          -> OpenBorn(d)

DropUnsaved(d) == unsaved' = unsaved \cup (Commands \cap (handle[d].items \ disk[d].items))

DoOpen(d) ==
    /\ ~Cached(d)
    /\ DropUnsaved(d)
    /\ OpenBranch(d)
    /\ UNCHANGED <<s2, chat2, seed, processed, written, raced, unsealed, clobbered, faults>>

(***************************************************************************)
(* Saving, evicting, crashing.                                             *)
(***************************************************************************)
\* A plain save keeps the row's epoch, a new row's is 0.
PlainSave(d, h) ==
    disk' = [disk EXCEPT ![d] = [lin |-> h.lin, epoch |-> disk[d].epoch, items |-> h.items]]

\* save_snapshot: a retired handle does not write over a chat2 document.
Saves(d, h) == ~(h.retired /\ disk[d].epoch = 2)

SaveSnapshot(d) ==
    LET h == handle[d] IN
    IF Saves(d, h)
    THEN /\ PlainSave(d, h)
         /\ written' = IF d = Host THEN written \cup (Messages \cap h.items) ELSE written
         /\ clobbered' = (clobbered \/ (h.gen = 1 /\ disk[d].epoch = 2))
    ELSE UNCHANGED <<disk, written, clobbered>>

\* The debounced save of chat_task, and flush_all.
Save(d) ==
    /\ Open(d)
    /\ SaveSnapshot(d)
    /\ UNCHANGED <<gen, s2, chat2, rollback, handle, seed, processed, unsaved, raced, unsealed,
                   faults>>

Evict(d) ==
    /\ Open(d) /\ ~Pinned(d) /\ evicts < MaxEvicts
    /\ SaveSnapshot(d)
    /\ handle' = [handle EXCEPT ![d] = NoHandle]
    /\ evicts' = evicts + 1
    /\ UNCHANGED <<gen, s2, chat2, rollback, seed, processed, unsaved, raced, unsealed,
                   crashes, seeds>>

\* What was not saved is gone; a command of the viewer with it.
Crash(d) ==
    /\ crashes < MaxCrashes
    /\ crashes' = crashes + 1
    /\ handle' = [handle EXCEPT ![d] = NoHandle]
    /\ seed' = IF d = Host THEN NoSeed ELSE seed
    /\ DropUnsaved(d)
    /\ UNCHANGED <<gen, s2, chat2, disk, rollback, processed, written, raced, unsealed,
                   clobbered, evicts, seeds>>

(***************************************************************************)
(* Rooms and the registry.                                                 *)
(***************************************************************************)
\* A joined s2 client exchanges everything with its room.
SyncS2(d) ==
    /\ handle[d].gen = 1
    /\ handle' = [handle EXCEPT ![d].joined = TRUE, ![d].items = @ \cup s2]
    /\ s2' = s2 \cup handle[d].items
    /\ UNCHANGED <<gen, chat2, disk, rollback, seed, processed, histVars, faults>>

\* A chat2 client catches up, pushes, and persists its cursor with the epoch.
SyncChat2(d) ==
    /\ handle[d].gen = 2
    /\ LET all == handle[d].items \cup chat2 IN
        /\ handle' = [handle EXCEPT ![d].joined = TRUE, ![d].items = all]
        /\ chat2' = all
        /\ disk' = [disk EXCEPT ![d] = [lin |-> handle[d].lin, epoch |-> 2, items |-> all]]
        /\ written' = IF d = Host THEN written \cup (Messages \cap all) ELSE written
    /\ UNCHANGED <<gen, s2, rollback, seed, processed, unsaved, raced, unsealed, clobbered,
                   faults>>

\* CreateChat mints the row on generation 2; rows travel between the devices.
CreateChat ==
    /\ gen[Host] = 0 /\ gen' = [gen EXCEPT ![Host] = 2]
    /\ UNCHANGED <<s2, chat2, disk, rollback, handle, seed, processed, histVars, faults>>

SyncRow(d, e) ==
    /\ gen[d] < gen[e]
    /\ gen' = [gen EXCEPT ![d] = gen[e]]
    /\ UNCHANGED <<s2, chat2, disk, rollback, handle, seed, processed, histVars, faults>>

(***************************************************************************)
(* Runs and commands.                                                      *)
(***************************************************************************)
PastCheck == seed.at \in {"checked", "saved", "flipped"}

RunStarts ==
    /\ Open(Host) /\ ~handle[Host].writer
    /\ handle' = [handle EXCEPT ![Host].writer = TRUE]
    /\ raced' = (raced \/ PastCheck)
    /\ UNCHANGED <<gen, s2, chat2, disk, rollback, seed, processed, written, unsaved,
                   unsealed, clobbered, faults>>

RunWrites ==
    /\ handle[Host].writer
    /\ \E m \in Messages \ handle[Host].items :
        handle' = [handle EXCEPT ![Host].items = @ \cup {m}]
    /\ UNCHANGED <<gen, s2, chat2, disk, rollback, seed, processed, histVars, faults>>

RunEnds ==
    /\ handle[Host].writer
    /\ handle' = [handle EXCEPT ![Host].writer = FALSE]
    /\ UNCHANGED <<gen, s2, chat2, disk, rollback, seed, processed, histVars, faults>>

QueueCommand ==
    /\ Open(Viewer)
    /\ \E c \in Commands \ (handle[Viewer].items \cup unsaved \cup s2 \cup chat2 \cup disk[Viewer].items) :
        handle' = [handle EXCEPT ![Viewer].items = @ \cup {c}]
    /\ UNCHANGED <<gen, s2, chat2, disk, rollback, seed, processed, histVars, faults>>

\* drain_commands on the host's document; the ledger keeps an id from running twice.
DrainCommands ==
    /\ Open(Host)
    /\ \E c \in Pending(handle[Host].items) :
        /\ handle' = [handle EXCEPT ![Host].items = @ \cup {Resolved(c)}]
        /\ processed' = processed \cup {c}
    /\ UNCHANGED <<gen, s2, chat2, disk, rollback, seed, histVars, faults>>

(***************************************************************************)
(* The seed.                                                               *)
(***************************************************************************)
\* The room has joined and the document has been quiet: rebuild it.
SeedRebuilds ==
    /\ seed.at = "no" /\ seeds < MaxSeeds
    /\ handle[Host].gen = 1 /\ handle[Host].joined /\ ~handle[Host].retired
    /\ seed' = [at |-> "rebuilt", items |-> handle[Host].items]
    /\ seeds' = seeds + 1
    /\ UNCHANGED <<gen, s2, chat2, disk, rollback, handle, processed, histVars, crashes, evicts>>

\* The checkpoint replaces the room's.
SeedPosts ==
    /\ seed.at = "rebuilt"
    /\ \/ chat2' = seed.items /\ seed' = [seed EXCEPT !.at = "posted"]
       \/ seed' = NoSeed /\ UNCHANGED chat2
    /\ UNCHANGED <<gen, s2, disk, rollback, handle, processed, histVars, faults>>

\* Slip: the frontier is not sealed.
Unblocked == Open(Host) => ~Pinned(Host)

\* seed_blocked and the frontier seal, on the cached handle if there is one.
Sealed == Open(Host) => ~Pinned(Host) /\ handle[Host].items = seed.items

SeedChecks ==
    /\ seed.at = "posted"
    /\ seed' = IF Sealed THEN [seed EXCEPT !.at = "checked"] ELSE NoSeed
    /\ unsealed' = (unsealed \/ (Sealed /\ ~Open(Host)))
    /\ UNCHANGED <<gen, s2, chat2, disk, rollback, handle, processed, written, unsaved,
                   raced, clobbered, faults>>

SeedSaves ==
    /\ seed.at = "checked"
    /\ IF disk[Host].lin # "none" THEN KeepRollback(Host) ELSE UNCHANGED rollback
    /\ disk' = [disk EXCEPT ![Host] = [lin |-> "thin", epoch |-> 2, items |-> seed.items]]
    /\ seed' = [seed EXCEPT !.at = "saved"]
    /\ raced' = (raced \/ (Open(Host) /\ handle[Host].items # seed.items))
    /\ written' = written \cup (Messages \cap seed.items)
    /\ UNCHANGED <<gen, s2, chat2, handle, processed, unsaved, unsealed, clobbered, faults>>

SeedFlips ==
    /\ seed.at = "saved"
    /\ gen' = [gen EXCEPT ![Host] = 2]
    /\ seed' = [seed EXCEPT !.at = "flipped"]
    /\ UNCHANGED <<s2, chat2, disk, rollback, handle, processed, histVars, faults>>

SeedRetires ==
    /\ seed.at = "flipped"
    /\ LET h == handle[Host] IN
        /\ raced' = (raced \/ (h.gen = 1 /\ h.items # seed.items))
        /\ handle' = [handle EXCEPT ![Host] =
             IF h.gen = 0 \/ ~h.writer THEN NoHandle ELSE [h EXCEPT !.retired = TRUE]]
    /\ seed' = NoSeed
    /\ UNCHANGED <<gen, s2, chat2, disk, rollback, processed, written, unsaved, unsealed,
                   clobbered, faults>>

\* The cutover watcher drops an s2 handle nobody writes through; the host then
\* reopens.
WatcherDrops(d) ==
    /\ gen[d] = 2 /\ handle[d].gen = 1 /\ ~handle[d].writer
    /\ DropUnsaved(d)
    /\ raced' = (raced \/ (d = Host /\ PastCheck /\ handle[d].items # seed.items))
    /\ IF d = Host THEN OpenBranch(d)
       ELSE handle' = [handle EXCEPT ![d] = NoHandle] /\ UNCHANGED <<gen, disk, rollback>>
    /\ UNCHANGED <<s2, chat2, seed, processed, written, unsealed, clobbered, faults>>

CutoverNext ==
    \/ \E d \in Dev :
        \/ DoOpen(d) \/ Save(d) \/ Evict(d) \/ Crash(d) \/ SyncS2(d) \/ SyncChat2(d)
        \/ WatcherDrops(d)
        \/ \E e \in Dev : SyncRow(d, e)
    \/ CreateChat \/ RunStarts \/ RunWrites \/ RunEnds \/ QueueCommand \/ DrainCommands
    \/ SeedRebuilds \/ SeedPosts \/ SeedChecks \/ SeedSaves \/ SeedFlips \/ SeedRetires

CutoverSpec == CutoverInit /\ [][CutoverNext]_cutoverVars

(***************************************************************************)
(* Properties.                                                             *)
(***************************************************************************)
\* Every variable stays in its range, and only one of the two lineages is ever
\* stored under the chat2 epoch.
CutoverTypeOK ==
    /\ gen \in [Dev -> 0..2]
    /\ s2 \subseteq Items /\ chat2 \subseteq Items
    /\ \A d \in Dev :
        /\ disk[d].items \subseteq Items /\ disk[d].lin \in {"none", "fat", "thin"}
        /\ handle[d].items \subseteq Items /\ handle[d].gen \in 0..2
        /\ disk[d].epoch \in {0, 2}
    /\ seed.at \in {"no", "rebuilt", "posted", "checked", "saved", "flipped"}
    /\ processed \subseteq Commands

\* The two lineages never meet: no s2 room is joined with the rebuilt document
\* and no chat2 room with the old one, whatever crashed between the seed's save
\* and its flip, and the rollback copy is the old transcript, never the
\* near-empty document of an adoption that was cut short (but for a save that
\* slipped in before the handle was retired).
LineagesNeverMix ==
    clobbered \/ \A d \in Dev :
        /\ Open(d) => handle[d].lin = IF handle[d].gen = 2 THEN "thin" ELSE "fat"
        /\ rollback[d].lin \in {"none", "fat"}

\* A message that was on the host's disk stays within the host's reach through
\* the cutover: on disk or in the room the next open joins, and in the open
\* document or its room.  A command of the viewer that reached a room is executed
\* or still on the viewer, which queues it again (but for one its device had not
\* saved when the handle was dropped).
HistorySurvives ==
    /\ raced \/ unsealed \/ clobbered \/
         /\ written \subseteq disk[Host].items \cup chat2
         /\ Open(Host) => written \subseteq handle[Host].items \cup chat2
    /\ Commands \cap (s2 \cup chat2)
         \subseteq processed \cup unsaved \cup handle[Viewer].items \cup disk[Viewer].items
=============================================================================
