---------------------------- MODULE CutoverProofs ----------------------------
(***************************************************************************)
(* Theorems about Cutover, for every set of messages and commands and every *)
(* bound.                                                                  *)
(***************************************************************************)
EXTENDS Cutover, TLAPS

-----------------------------------------------------------------------------
(* The shape of the state.                                                 *)

Lineages == {"none", "fat", "thin"}
Docs == [lin : Lineages, epoch : {0, 2}, items : SUBSET Items]
Handles == [gen : 0..2, lin : Lineages, items : SUBSET Items, retired : BOOLEAN,
            joined : BOOLEAN, writer : BOOLEAN]
Seeds == [at : {"no", "rebuilt", "posted", "checked", "saved", "flipped"}, items : SUBSET Items]

CutoverShape ==
    /\ gen \in [Dev -> 0..2]
    /\ s2 \in SUBSET Items /\ chat2 \in SUBSET Items
    /\ disk \in [Dev -> Docs] /\ rollback \in [Dev -> Docs] /\ handle \in [Dev -> Handles]
    /\ seed \in Seeds
    /\ processed \in SUBSET Commands
    /\ \A d \in Dev :
        /\ ~Open(d) => handle[d] = NoHandle
        /\ Open(d) => handle[d].lin # "none"
        /\ disk[d].lin = "none" => disk[d].items = {} /\ disk[d].epoch = 0

LEMMA Blank == NoDoc \in Docs /\ NoHandle \in Handles /\ NoSeed \in Seeds
BY DEF NoDoc, NoHandle, NoSeed, Docs, Handles, Seeds, Lineages

\* A handle an open hands out.
Opened(g, l, i) == [NoHandle EXCEPT !.gen = g, !.lin = l, !.items = i]

LEMMA OpenedShape ==
    ASSUME NEW g \in 0..2, NEW l \in Lineages, NEW i \in SUBSET Items
    PROVE  /\ Opened(g, l, i) \in Handles /\ Opened(g, l, i).gen = g /\ Opened(g, l, i).lin = l
           /\ Opened(g, l, i).items = i /\ ~Opened(g, l, i).retired /\ ~Opened(g, l, i).writer
           /\ ~Opened(g, l, i).joined
BY DEF Opened, NoHandle, Handles

LEMMA DevTwo == Host \in Dev /\ Viewer \in Dev /\ Host # Viewer /\ \A d \in Dev : d = Host \/ d = Viewer
BY DevicesDiffer DEF Dev

LEMMA ItemSets == Messages \subseteq Items /\ Commands \subseteq Items
                  /\ \A c \in Commands : Resolved(c) \in Items
BY DEF Items

\* The four ways a chat opens: what the device then has cached and stored, and
\* which generation its row names.
Thin(d) ==
    /\ disk[d].epoch = 2
    /\ handle'[d] = Opened(2, disk[d].lin, disk[d].items)
    /\ gen'[d] = (IF gen[d] = 1 THEN 2 ELSE gen[d])
    /\ disk'[d] = disk[d] /\ rollback'[d] = rollback[d]
OnS2(d) ==
    /\ disk[d].epoch = 0 /\ RegistryGen(d) = 1 /\ gen[d] = 1
    /\ handle'[d] = Opened(1, IF disk[d].lin = "none" THEN "fat" ELSE disk[d].lin, disk[d].items)
    /\ gen'[d] = gen[d] /\ disk'[d] = disk[d] /\ rollback'[d] = rollback[d]
Adopts(d) ==
    /\ disk[d].epoch = 0 /\ RegistryGen(d) = 2 /\ disk[d].lin # "none"
    /\ handle'[d] = Opened(2, "thin", IF d = Viewer THEN Pending(disk[d].items) ELSE {})
    /\ gen'[d] = gen[d] /\ disk'[d] = disk[d]
    /\ rollback'[d] = IF rollback[d].lin = "none" THEN disk[d] ELSE rollback[d]
Born(d) ==
    /\ disk[d].epoch = 0 /\ RegistryGen(d) = 2 /\ disk[d].lin = "none"
    /\ handle'[d] = Opened(2, "thin", {})
    /\ disk'[d] = [lin |-> "thin", epoch |-> 2, items |-> {}]
    /\ gen'[d] = gen[d] /\ rollback'[d] = rollback[d]

OpenShape ==
    /\ gen' \in [Dev -> 0..2] /\ handle' \in [Dev -> Handles]
    /\ disk' \in [Dev -> Docs] /\ rollback' \in [Dev -> Docs]

LEMMA Branches ==
    ASSUME CutoverShape, NEW d \in Dev, OpenBranch(d)
    PROVE  /\ Thin(d) \/ OnS2(d) \/ Adopts(d) \/ Born(d)
           /\ OpenShape
           /\ \A e \in Dev : e # d => /\ handle'[e] = handle[e] /\ disk'[e] = disk[e]
                                      /\ rollback'[e] = rollback[e] /\ gen'[e] = gen[e]
<1>0. /\ disk[d] \in Docs /\ disk[d].epoch \in {0, 2} /\ gen[d] \in 0..2 /\ disk[d].lin \in Lineages
      /\ disk[d].items \in SUBSET Items /\ gen \in [Dev -> 0..2] /\ disk \in [Dev -> Docs]
      /\ rollback \in [Dev -> Docs] /\ handle \in [Dev -> Handles]
  BY DEF CutoverShape, Docs
<1>1. CASE disk[d].epoch = 2
  <2>1. OpenThin(d)
    BY <1>0, <1>1 DEF OpenBranch
  <2>2. /\ handle' = [handle EXCEPT ![d] = Opened(2, disk[d].lin, disk[d].items)]
        /\ gen' = [gen EXCEPT ![d] = IF @ = 1 THEN 2 ELSE @] /\ UNCHANGED <<disk, rollback>>
    BY <2>1 DEF OpenThin, Opened
  <2>3. Opened(2, disk[d].lin, disk[d].items) \in Handles
    BY <1>0, OpenedShape
  <2> QED BY <1>0, <1>1, <2>2, <2>3 DEF Thin, OpenShape
<1>2. CASE disk[d].epoch # 2 /\ RegistryGen(d) < 2
  <2>1. OpenS2(d) /\ gen[d] = 1 /\ RegistryGen(d) = 1 /\ disk[d].epoch = 0
    BY <1>0, <1>2 DEF OpenBranch, RegistryGen
  <2> DEFINE l == IF disk[d].lin = "none" THEN "fat" ELSE disk[d].lin
  <2>2. /\ handle' = [handle EXCEPT ![d] = Opened(1, l, disk[d].items)]
        /\ UNCHANGED <<gen, disk, rollback>>
    BY <2>1 DEF OpenS2, Opened
  <2>3. Opened(1, l, disk[d].items) \in Handles
    BY <1>0, OpenedShape DEF Lineages
  <2> QED BY <1>0, <2>1, <2>2, <2>3 DEF OnS2, OpenShape
<1>3. CASE disk[d].epoch # 2 /\ ~(RegistryGen(d) < 2)
  <2>0. RegistryGen(d) = 2 /\ disk[d].epoch = 0
    BY <1>0, <1>3 DEF RegistryGen
  <2>1. CASE disk[d].lin # "none"
    <3> DEFINE i == IF d = Viewer THEN Pending(disk[d].items) ELSE {}
    <3>1. OpenAdopt(d)
      BY <1>0, <1>3, <2>0, <2>1 DEF OpenBranch
    <3>2. i \in SUBSET Items
      BY ItemSets DEF Pending
    <3>3. /\ handle' = [handle EXCEPT ![d] = Opened(2, "thin", i)]
          /\ UNCHANGED <<gen, disk>>
          /\ rollback' = IF rollback[d].lin = "none" THEN [rollback EXCEPT ![d] = disk[d]]
                         ELSE rollback
      BY <3>1 DEF OpenAdopt, KeepRollback, Opened
    <3> HIDE DEF i
    <3>4. Opened(2, "thin", i) \in Handles
      BY <3>2, OpenedShape DEF Lineages
    <3>5. handle' \in [Dev -> Handles] /\ rollback' \in [Dev -> Docs]
      BY <3>3, <3>4, <1>0
    <3> QED BY <1>0, <2>0, <2>1, <3>3, <3>5 DEF Adopts, OpenShape, i
  <2>2. CASE disk[d].lin = "none"
    <3>1. OpenBorn(d)
      BY <1>0, <1>3, <2>0, <2>2 DEF OpenBranch
    <3>2. /\ handle' = [handle EXCEPT ![d] = Opened(2, "thin", {})]
          /\ disk' = [disk EXCEPT ![d] = [lin |-> "thin", epoch |-> 2, items |-> {}]]
          /\ UNCHANGED <<gen, rollback>>
      BY <3>1 DEF OpenBorn, Opened
    <3>3. /\ Opened(2, "thin", {}) \in Handles
          /\ [lin |-> "thin", epoch |-> 2, items |-> {}] \in Docs
      BY OpenedShape DEF Lineages, Docs
    <3> QED BY <1>0, <2>0, <2>2, <3>2, <3>3 DEF Born, OpenShape
  <2> QED BY <2>1, <2>2
<1> QED BY <1>1, <1>2, <1>3

-----------------------------------------------------------------------------
(* What the other actions do to a device's handle and snapshot.            *)

\* What an update of a handle's items, of its joining and of its writer leaves alone.
Kept(d) ==
    /\ handle'[d].gen = handle[d].gen /\ handle'[d].lin = handle[d].lin
    /\ handle'[d].retired = handle[d].retired

Others(d) == \A e \in Dev : e # d => handle'[e] = handle[e]

LEMMA HandleFields ==
    ASSUME CutoverShape, NEW d \in Dev
    PROVE  /\ handle[d] \in Handles /\ handle[d].gen \in 0..2 /\ handle[d].lin \in Lineages
           /\ handle[d].items \in SUBSET Items /\ handle[d].retired \in BOOLEAN
           /\ handle[d].writer \in BOOLEAN /\ handle[d].joined \in BOOLEAN
           /\ disk[d] \in Docs /\ disk[d].lin \in Lineages /\ disk[d].epoch \in {0, 2}
           /\ disk[d].items \in SUBSET Items /\ gen[d] \in 0..2
           /\ rollback[d] \in Docs /\ rollback[d].lin \in Lineages
<1>1. handle[d] \in Handles /\ disk[d] \in Docs /\ rollback[d] \in Docs /\ gen[d] \in 0..2
  BY DEF CutoverShape
<1> QED BY <1>1 DEF Handles, Docs

\* A save writes the handle's document under the epoch of the row, or does nothing.
LEMMA SnapshotEffect ==
    ASSUME CutoverShape, NEW d \in Dev, SaveSnapshot(d)
    PROVE  /\ disk' \in [Dev -> Docs] /\ \A e \in Dev : e # d => disk'[e] = disk[e]
           /\ \/ /\ ~(handle[d].retired /\ disk[d].epoch = 2)
                 /\ disk'[d].lin = handle[d].lin /\ disk'[d].epoch = disk[d].epoch
                 /\ disk'[d].items = handle[d].items
                 /\ written' = IF d = Host THEN written \cup (Messages \cap handle[d].items)
                               ELSE written
                 /\ clobbered' = (clobbered \/ (handle[d].gen = 1 /\ disk[d].epoch = 2))
              \/ handle[d].retired /\ disk[d].epoch = 2 /\ UNCHANGED <<disk, written, clobbered>>
<1>0. disk \in [Dev -> Docs]
  BY DEF CutoverShape
<1> DEFINE h == handle[d]
           r == [lin |-> h.lin, epoch |-> disk[d].epoch, items |-> h.items]
<1>1. CASE Saves(d, h)
  <2>1. disk' = [disk EXCEPT ![d] = r]
        /\ written' = (IF d = Host THEN written \cup (Messages \cap h.items) ELSE written)
        /\ clobbered' = (clobbered \/ (h.gen = 1 /\ disk[d].epoch = 2))
    BY <1>1 DEF SaveSnapshot, PlainSave
  <2>2. r \in Docs /\ r.lin = h.lin /\ r.epoch = disk[d].epoch /\ r.items = h.items
    BY HandleFields DEF Docs
  <2>3. ~(h.retired /\ disk[d].epoch = 2)
    BY <1>1 DEF Saves
  <2> HIDE DEF r
  <2> QED BY <1>0, <2>1, <2>2, <2>3
<1>2. CASE ~Saves(d, h)
  BY <1>0, <1>2 DEF SaveSnapshot, Saves
<1> QED BY <1>1, <1>2

LEMMA SyncS2Effect ==
    ASSUME CutoverShape, NEW d \in Dev, SyncS2(d)
    PROVE  /\ handle' \in [Dev -> Handles] /\ Others(d) /\ Kept(d)
           /\ handle'[d].writer = handle[d].writer /\ handle'[d].joined
           /\ handle'[d].items = handle[d].items \cup s2
<1>1. handle \in [Dev -> Handles] /\ s2 \in SUBSET Items /\ handle[d].items \in SUBSET Items
  BY HandleFields DEF CutoverShape
<1> DEFINE r == [handle[d] EXCEPT !.joined = TRUE, !.items = handle[d].items \cup s2]
<1>2. handle' = [handle EXCEPT ![d] = r]
  BY <1>1 DEF SyncS2, Handles
<1>3. /\ r \in Handles /\ r.gen = handle[d].gen /\ r.lin = handle[d].lin
      /\ r.retired = handle[d].retired /\ r.writer = handle[d].writer /\ r.joined
      /\ r.items = handle[d].items \cup s2
  BY <1>1, HandleFields DEF Handles
<1> HIDE DEF r
<1> QED BY <1>1, <1>2, <1>3 DEF Others, Kept

LEMMA SyncChat2Effect ==
    ASSUME CutoverShape, NEW d \in Dev, SyncChat2(d)
    PROVE  /\ handle' \in [Dev -> Handles] /\ Others(d) /\ Kept(d)
           /\ handle'[d].writer = handle[d].writer /\ handle'[d].joined
           /\ handle'[d].items = handle[d].items \cup chat2
           /\ chat2' = handle[d].items \cup chat2
           /\ disk' \in [Dev -> Docs] /\ \A e \in Dev : e # d => disk'[e] = disk[e]
           /\ disk'[d].lin = handle[d].lin /\ disk'[d].epoch = 2
           /\ disk'[d].items = handle[d].items \cup chat2
           /\ written' = IF d = Host THEN written \cup (Messages \cap (handle[d].items \cup chat2))
                         ELSE written
<1> DEFINE all == handle[d].items \cup chat2
<1>1. /\ handle \in [Dev -> Handles] /\ all \in SUBSET Items /\ disk \in [Dev -> Docs]
      /\ handle[d].lin \in Lineages
  BY HandleFields DEF CutoverShape
<1> DEFINE r == [handle[d] EXCEPT !.joined = TRUE, !.items = all]
           q == [lin |-> handle[d].lin, epoch |-> 2, items |-> all]
<1>2. handle' = [handle EXCEPT ![d] = r]
  BY <1>1 DEF SyncChat2, Handles
<1>3. /\ r \in Handles /\ r.gen = handle[d].gen /\ r.lin = handle[d].lin
      /\ r.retired = handle[d].retired /\ r.writer = handle[d].writer /\ r.joined
      /\ r.items = all
  BY <1>1, HandleFields DEF Handles
<1>4. /\ disk' = [disk EXCEPT ![d] = q] /\ chat2' = all
      /\ written' = IF d = Host THEN written \cup (Messages \cap all) ELSE written
  BY DEF SyncChat2
<1>5. q \in Docs /\ q.lin = handle[d].lin /\ q.epoch = 2 /\ q.items = all
  BY <1>1 DEF Docs
<1> HIDE DEF r, q
<1> QED BY <1>1, <1>2, <1>3, <1>4, <1>5 DEF Others, Kept

\* An item is added to a handle.
LEMMA AddEffect ==
    ASSUME CutoverShape, NEW d \in Dev, NEW i \in Items,
           handle' = [handle EXCEPT ![d].items = @ \cup {i}]
    PROVE  /\ handle' \in [Dev -> Handles] /\ Others(d) /\ Kept(d)
           /\ handle'[d].writer = handle[d].writer /\ handle'[d].joined = handle[d].joined
           /\ handle'[d].items = handle[d].items \cup {i}
<1>1. handle \in [Dev -> Handles] /\ handle[d].items \in SUBSET Items
  BY HandleFields DEF CutoverShape
<1> DEFINE r == [handle[d] EXCEPT !.items = handle[d].items \cup {i}]
<1>2. handle' = [handle EXCEPT ![d] = r]
  BY <1>1 DEF Handles
<1>3. /\ r \in Handles /\ r.gen = handle[d].gen /\ r.lin = handle[d].lin
      /\ r.retired = handle[d].retired /\ r.writer = handle[d].writer
      /\ r.joined = handle[d].joined /\ r.items = handle[d].items \cup {i}
  BY <1>1, HandleFields DEF Handles
<1> HIDE DEF r
<1> QED BY <1>1, <1>2, <1>3 DEF Others, Kept

LEMMA WriterEffect ==
    ASSUME CutoverShape, NEW w \in BOOLEAN, handle' = [handle EXCEPT ![Host].writer = w]
    PROVE  /\ handle' \in [Dev -> Handles] /\ Others(Host) /\ Kept(Host)
           /\ handle'[Host].writer = w /\ handle'[Host].joined = handle[Host].joined
           /\ handle'[Host].items = handle[Host].items
<1>1. handle \in [Dev -> Handles] /\ Host \in Dev
  BY DevTwo DEF CutoverShape
<1> DEFINE r == [handle[Host] EXCEPT !.writer = w]
<1>2. handle' = [handle EXCEPT ![Host] = r]
  BY <1>1 DEF Handles
<1>3. /\ r \in Handles /\ r.gen = handle[Host].gen /\ r.lin = handle[Host].lin
      /\ r.retired = handle[Host].retired /\ r.writer = w
      /\ r.joined = handle[Host].joined /\ r.items = handle[Host].items
  BY <1>1, HandleFields DEF Handles
<1> HIDE DEF r
<1> QED BY <1>1, <1>2, <1>3 DEF Others, Kept

\* A handle is dropped.
LEMMA DropEffect ==
    ASSUME CutoverShape, NEW d \in Dev, handle' = [handle EXCEPT ![d] = NoHandle]
    PROVE  /\ handle' \in [Dev -> Handles] /\ Others(d) /\ handle'[d] = NoHandle
           /\ handle'[d].gen = 0 /\ handle'[d].items = {} /\ ~handle'[d].retired
           /\ ~handle'[d].writer /\ ~handle'[d].joined
<1>1. handle \in [Dev -> Handles]
  BY DEF CutoverShape
<1>2. handle'[d] = NoHandle /\ Others(d) /\ handle' \in [Dev -> Handles]
  BY <1>1, Blank DEF Others
<1> QED BY <1>2 DEF NoHandle

\* A retired handle stays cached for its writer; any other is dropped.
LEMMA RetireEffect ==
    ASSUME CutoverShape, SeedRetires
    PROVE  /\ handle' \in [Dev -> Handles] /\ Others(Host)
           /\ \/ handle'[Host] = NoHandle
              \/ /\ Open(Host) /\ handle[Host].writer
                 /\ handle'[Host].gen = handle[Host].gen /\ handle'[Host].lin = handle[Host].lin
                 /\ handle'[Host].items = handle[Host].items /\ handle'[Host].retired
                 /\ handle'[Host].joined = handle[Host].joined /\ handle'[Host].writer
<1>1. handle \in [Dev -> Handles] /\ Host \in Dev /\ handle[Host] \in Handles
  BY DevTwo, HandleFields DEF CutoverShape
<1> DEFINE h == handle[Host]
           r == [h EXCEPT !.retired = TRUE]
<1>2. handle' = [handle EXCEPT ![Host] = IF h.gen = 0 \/ ~h.writer THEN NoHandle ELSE r]
  BY DEF SeedRetires
<1>3. /\ r \in Handles /\ r.gen = h.gen /\ r.lin = h.lin /\ r.retired /\ r.writer = h.writer
      /\ r.joined = h.joined /\ r.items = h.items
  BY <1>1 DEF Handles
<1> HIDE DEF r
<1> QED BY <1>1, <1>2, <1>3, Blank DEF Others, Open

\* The seed moves on to its next step.
LEMMA SeedMoves ==
    ASSUME CutoverShape, seed' = [seed EXCEPT !.at = "posted"] \/ seed' = [seed EXCEPT !.at = "checked"]
                         \/ seed' = [seed EXCEPT !.at = "saved"] \/ seed' = [seed EXCEPT !.at = "flipped"]
    PROVE  /\ seed' \in Seeds /\ seed'.items = seed.items
           /\ seed' = [seed EXCEPT !.at = "posted"] => seed'.at = "posted"
           /\ seed' = [seed EXCEPT !.at = "checked"] => seed'.at = "checked"
           /\ seed' = [seed EXCEPT !.at = "saved"] => seed'.at = "saved"
           /\ seed' = [seed EXCEPT !.at = "flipped"] => seed'.at = "flipped"
<1>1. seed \in Seeds
  BY DEF CutoverShape
<1> QED BY <1>1 DEF Seeds

LEMMA SeedSavesEffect ==
    ASSUME CutoverShape, SeedSaves
    PROVE  /\ disk' \in [Dev -> Docs] /\ \A e \in Dev : e # Host => disk'[e] = disk[e]
           /\ disk'[Host].lin = "thin" /\ disk'[Host].epoch = 2 /\ disk'[Host].items = seed.items
           /\ rollback' \in [Dev -> Docs] /\ \A e \in Dev : e # Host => rollback'[e] = rollback[e]
           /\ \/ rollback'[Host] = rollback[Host]
              \/ disk[Host].lin # "none" /\ rollback'[Host] = disk[Host] /\ rollback[Host].lin = "none"
           /\ seed.at = "checked" /\ seed'.at = "saved" /\ seed'.items = seed.items /\ seed' \in Seeds
<1>1. /\ disk \in [Dev -> Docs] /\ rollback \in [Dev -> Docs] /\ Host \in Dev /\ disk[Host] \in Docs
      /\ seed.items \in SUBSET Items
  BY DevTwo, HandleFields DEF CutoverShape, Seeds
<1> DEFINE q == [lin |-> "thin", epoch |-> 2, items |-> seed.items]
<1>2. disk' = [disk EXCEPT ![Host] = q]
  BY DEF SeedSaves
<1>3. q \in Docs /\ q.lin = "thin" /\ q.epoch = 2 /\ q.items = seed.items
  BY <1>1 DEF Docs, Lineages
<1>4. \/ rollback' = rollback
      \/ /\ disk[Host].lin # "none" /\ rollback' = [rollback EXCEPT ![Host] = disk[Host]]
         /\ rollback[Host].lin = "none"
  BY DEF SeedSaves, KeepRollback
<1>5. seed.at = "checked" /\ seed'.at = "saved" /\ seed'.items = seed.items /\ seed' \in Seeds
  BY SeedMoves DEF SeedSaves
<1> HIDE DEF q
<1> QED BY <1>1, <1>2, <1>3, <1>4, <1>5

\* Every step keeps the shape of the state.
LEMMA ShapeStep ==
    ASSUME CutoverShape, [CutoverNext]_cutoverVars
    PROVE  CutoverShape'
<1> DEFINE Sound(d) == /\ ~Open(d) => handle[d] = NoHandle
                       /\ Open(d) => handle[d].lin # "none"
                       /\ disk[d].lin = "none" => disk[d].items = {} /\ disk[d].epoch = 0
<1>s. /\ gen \in [Dev -> 0..2] /\ s2 \in SUBSET Items /\ chat2 \in SUBSET Items
      /\ disk \in [Dev -> Docs] /\ rollback \in [Dev -> Docs] /\ handle \in [Dev -> Handles]
      /\ seed \in Seeds /\ seed.items \in SUBSET Items /\ processed \in SUBSET Commands
      /\ \A d \in Dev : Sound(d)
  BY DEF CutoverShape, Seeds
<1>g. CutoverShape' <=>
        /\ gen' \in [Dev -> 0..2] /\ s2' \in SUBSET Items /\ chat2' \in SUBSET Items
        /\ disk' \in [Dev -> Docs] /\ rollback' \in [Dev -> Docs] /\ handle' \in [Dev -> Handles]
        /\ seed' \in Seeds /\ processed' \in SUBSET Commands /\ \A d \in Dev : Sound(d)'
  BY DEF CutoverShape
<1>o. ASSUME NEW d \in Dev, OpenBranch(d), UNCHANGED <<s2, chat2, seed, processed>>
      PROVE  CutoverShape'
  <2>1. /\ Thin(d) \/ OnS2(d) \/ Adopts(d) \/ Born(d)
        /\ OpenShape
        /\ \A e \in Dev : e # d => handle'[e] = handle[e] /\ disk'[e] = disk[e]
    BY <1>o, Branches
  <2>d. disk[d].lin \in Lineages /\ disk[d].items \in SUBSET Items /\ Pending(disk[d].items) \in SUBSET Items
    BY HandleFields, ItemSets DEF Pending
  <2>2. Sound(d)'
    <3>1. CASE Thin(d)
      <4>1. disk[d].lin # "none" /\ disk'[d] = disk[d]
        BY <1>s, <3>1 DEF Thin
      <4>2. handle'[d].gen = 2 /\ handle'[d].lin = disk[d].lin
        BY <3>1, <2>d, OpenedShape DEF Thin
      <4> QED BY <4>1, <4>2 DEF Open
    <3>2. CASE OnS2(d)
      <4>1. handle'[d].gen = 1 /\ handle'[d].lin # "none"
        BY <3>2, <2>d, OpenedShape DEF OnS2, Lineages
      <4> QED BY <1>s, <3>2, <4>1 DEF OnS2, Open
    <3>3. CASE Adopts(d)
      <4>1. handle'[d].gen = 2 /\ handle'[d].lin = "thin"
        BY <3>3, <2>d, OpenedShape DEF Adopts, Lineages
      <4> QED BY <1>s, <3>3, <4>1 DEF Adopts, Open
    <3>4. CASE Born(d)
      <4>1. handle'[d].gen = 2 /\ handle'[d].lin = "thin"
        BY <3>4, OpenedShape DEF Born, Lineages
      <4> QED BY <3>4, <4>1 DEF Born, Open
    <3> QED BY <2>1, <3>1, <3>2, <3>3, <3>4
  <2>3. \A e \in Dev : Sound(e)'
    BY <1>s, <2>1, <2>2 DEF Open
  <2> QED BY <1>s, <1>g, <1>o, <2>1, <2>3 DEF OpenShape
\* an action that changes handles, but not which are open
<1>h. ASSUME NEW d \in Dev, handle' \in [Dev -> Handles], Others(d), Kept(d), Open(d),
             UNCHANGED disk
      PROVE  \A e \in Dev : Sound(e)'
  BY <1>s, <1>h DEF Others, Kept, Open
\* an action that changes no handle and no snapshot
<1>u. ASSUME UNCHANGED <<handle, disk>>
      PROVE  \A e \in Dev : Sound(e)'
  BY <1>s, <1>u DEF Open
<1>1. ASSUME NEW d \in Dev, DoOpen(d) PROVE CutoverShape'
  BY <1>1, <1>o DEF DoOpen
<1>2. ASSUME NEW d \in Dev, Save(d) PROVE CutoverShape'
  <2>1. \A e \in Dev : Sound(e)'
    BY <1>s, <1>2, SnapshotEffect DEF Save, Open
  <2> QED BY <1>s, <1>g, <1>2, <2>1, SnapshotEffect DEF Save
<1>3. ASSUME NEW d \in Dev, Evict(d) PROVE CutoverShape'
  <2>1. \A e \in Dev : Sound(e)'
    <3>1. /\ Open(d) /\ handle'[d] = NoHandle /\ handle'[d].gen = 0 /\ Others(d)
          /\ \A e \in Dev : e # d => disk'[e] = disk[e]
      BY <1>3, SnapshotEffect, DropEffect DEF Evict
    <3>2. disk'[d] = disk[d] \/ disk'[d].lin = handle[d].lin
      BY <1>3, SnapshotEffect DEF Evict
    <3>3. Sound(d)'
      BY <1>s, <3>1, <3>2 DEF Open
    <3> QED BY <1>s, <3>1, <3>3 DEF Open, Others
  <2> QED BY <1>s, <1>g, <1>3, <2>1, SnapshotEffect, DropEffect DEF Evict
<1>4. ASSUME NEW d \in Dev, Crash(d) PROVE CutoverShape'
  <2>1. \A e \in Dev : Sound(e)'
    BY <1>s, <1>4, DropEffect DEF Crash, Open, Others
  <2> QED BY <1>s, <1>g, <1>4, <2>1, DropEffect, Blank DEF Crash
<1>5. ASSUME NEW d \in Dev, SyncS2(d) PROVE CutoverShape'
  <2>1. \A e \in Dev : Sound(e)'
    <3>1. Open(d) /\ UNCHANGED disk
      BY <1>5 DEF SyncS2, Open
    <3> QED BY <1>5, <1>h, <3>1, SyncS2Effect
  <2>2. s2' \in SUBSET Items
    BY <1>s, <1>5, HandleFields DEF SyncS2
  <2> QED BY <1>s, <1>g, <1>5, <2>1, <2>2, SyncS2Effect DEF SyncS2
<1>6. ASSUME NEW d \in Dev, SyncChat2(d) PROVE CutoverShape'
  <2>1. \A e \in Dev : Sound(e)'
    <3>1. /\ handle[d].gen = 2 /\ handle'[d].gen = 2 /\ handle'[d].lin = handle[d].lin /\ Others(d)
          /\ disk'[d].lin = handle[d].lin /\ \A e \in Dev : e # d => disk'[e] = disk[e]
      BY <1>6, SyncChat2Effect DEF SyncChat2, Kept
    <3>2. Sound(d)'
      BY <1>s, <3>1 DEF Open
    <3> QED BY <1>s, <3>1, <3>2 DEF Open, Others
  <2>2. chat2' \in SUBSET Items
    BY <1>s, <1>6, HandleFields, SyncChat2Effect
  <2> QED BY <1>s, <1>g, <1>6, <2>1, <2>2, SyncChat2Effect DEF SyncChat2
<1>7. ASSUME NEW d \in Dev, WatcherDrops(d) PROVE CutoverShape'
  <2>1. CASE d = Host
    BY <1>7, <1>o, <2>1 DEF WatcherDrops
  <2>2. CASE d # Host
    <3>1. handle' = [handle EXCEPT ![d] = NoHandle]
          /\ UNCHANGED <<gen, disk, rollback, s2, chat2, seed, processed>>
      BY <1>7, <2>2 DEF WatcherDrops
    <3>2. \A e \in Dev : Sound(e)'
      BY <1>s, <3>1, DropEffect DEF Open, Others
    <3> QED BY <1>s, <1>g, <3>1, <3>2, DropEffect
  <2> QED BY <2>1, <2>2
<1>8. ASSUME NEW d \in Dev, NEW e \in Dev, SyncRow(d, e) PROVE CutoverShape'
  BY <1>s, <1>g, <1>8, <1>u DEF SyncRow
<1>9. ASSUME CreateChat PROVE CutoverShape'
  <2>1. gen' \in [Dev -> 0..2]
    <3>1. gen' = [gen EXCEPT ![Host] = 2] /\ 2 \in 0..2 /\ gen \in [Dev -> 0..2]
      BY <1>s, <1>9 DEF CreateChat
    <3> QED BY <3>1
  <2>2. \A e \in Dev : Sound(e)'
    BY <1>9, <1>u DEF CreateChat
  <2> QED BY <1>s, <1>g, <1>9, <2>1, <2>2 DEF CreateChat
<1>10. ASSUME RunStarts PROVE CutoverShape'
  BY <1>s, <1>g, <1>10, <1>h, WriterEffect, DevTwo DEF RunStarts
<1>w. ASSUME handle[Host].writer PROVE Open(Host)
  BY <1>s, <1>w, DevTwo DEF NoHandle
<1>11. ASSUME RunWrites PROVE CutoverShape'
  <2>1. PICK m \in Messages : handle' = [handle EXCEPT ![Host].items = @ \cup {m}]
    BY <1>11 DEF RunWrites
  <2>2. m \in Items
    BY ItemSets
  <2> QED BY <1>s, <1>g, <1>11, <1>h, <1>w, <2>1, <2>2, AddEffect, DevTwo DEF RunWrites
<1>12. ASSUME RunEnds PROVE CutoverShape'
  BY <1>s, <1>g, <1>12, <1>h, <1>w, WriterEffect, DevTwo DEF RunEnds
<1>13. ASSUME QueueCommand PROVE CutoverShape'
  <2>1. PICK c \in Commands : handle' = [handle EXCEPT ![Viewer].items = @ \cup {c}]
    BY <1>13 DEF QueueCommand
  <2>2. c \in Items
    BY ItemSets
  <2> QED BY <1>s, <1>g, <1>13, <1>h, <2>1, <2>2, AddEffect, DevTwo DEF QueueCommand
<1>14. ASSUME DrainCommands PROVE CutoverShape'
  <2>1. PICK c \in Commands : /\ handle' = [handle EXCEPT ![Host].items = @ \cup {Resolved(c)}]
                             /\ processed' = processed \cup {c}
    BY <1>14 DEF DrainCommands, Pending
  <2>2. Resolved(c) \in Items
    BY ItemSets
  <2> QED BY <1>s, <1>g, <1>14, <1>h, <2>1, <2>2, AddEffect, DevTwo DEF DrainCommands
<1>15. ASSUME SeedRebuilds PROVE CutoverShape'
  <2>1. seed' \in Seeds
    BY <1>15, HandleFields, DevTwo DEF SeedRebuilds, Seeds
  <2> QED BY <1>s, <1>g, <1>u, <1>15, <2>1 DEF SeedRebuilds
<1>16. ASSUME SeedPosts PROVE CutoverShape'
  <2>1. seed' \in Seeds /\ chat2' \in SUBSET Items
    BY <1>s, <1>16, SeedMoves, Blank DEF SeedPosts
  <2> QED BY <1>s, <1>g, <1>u, <1>16, <2>1 DEF SeedPosts
<1>17. ASSUME SeedChecks PROVE CutoverShape'
  <2>1. seed' \in Seeds
    BY <1>17, SeedMoves, Blank DEF SeedChecks
  <2> QED BY <1>s, <1>g, <1>u, <1>17, <2>1 DEF SeedChecks
<1>18. ASSUME SeedSaves PROVE CutoverShape'
  <2>1. \A e \in Dev : Sound(e)'
    BY <1>s, <1>18, SeedSavesEffect DEF SeedSaves, Open
  <2> QED BY <1>s, <1>g, <1>18, <2>1, SeedSavesEffect DEF SeedSaves
<1>19. ASSUME SeedFlips PROVE CutoverShape'
  <2>1. seed' \in Seeds
    BY <1>19, SeedMoves DEF SeedFlips
  <2>2. gen' \in [Dev -> 0..2]
    <3>1. gen' = [gen EXCEPT ![Host] = 2] /\ 2 \in 0..2 /\ gen \in [Dev -> 0..2]
      BY <1>s, <1>19 DEF SeedFlips
    <3> QED BY <3>1
  <2>3. \A e \in Dev : Sound(e)'
    BY <1>19, <1>u DEF SeedFlips
  <2> QED BY <1>s, <1>g, <1>19, <2>1, <2>2, <2>3 DEF SeedFlips
<1>20. ASSUME SeedRetires PROVE CutoverShape'
  <2>1. \A e \in Dev : Sound(e)'
    <3>1. Others(Host) /\ UNCHANGED disk /\ Host \in Dev
      BY <1>20, RetireEffect, DevTwo DEF SeedRetires
    <3>2. \/ handle'[Host] = NoHandle /\ handle'[Host].gen = 0
          \/ Open(Host) /\ handle'[Host].gen = handle[Host].gen /\ handle'[Host].lin = handle[Host].lin
      BY <1>20, RetireEffect DEF NoHandle
    <3>3. Sound(Host)'
      BY <1>s, <3>1, <3>2 DEF Open
    <3> QED BY <1>s, <3>1, <3>3 DEF Open, Others
  <2> QED BY <1>s, <1>g, <1>20, <2>1, RetireEffect, Blank DEF SeedRetires
<1>21. ASSUME UNCHANGED cutoverVars PROVE CutoverShape'
  BY <1>s, <1>g, <1>u, <1>21 DEF cutoverVars
<1> QED
  BY <1>1, <1>2, <1>3, <1>4, <1>5, <1>6, <1>7, <1>8, <1>9, <1>10, <1>11, <1>12, <1>13, <1>14,
     <1>15, <1>16, <1>17, <1>18, <1>19, <1>20, <1>21 DEF CutoverNext

-----------------------------------------------------------------------------
(* Rows, epochs and the seed.  The row of a chat is moved forward by the    *)
(* host alone, and only once the rebuilt document is on its disk.           *)

RowInv ==
    /\ (\A d \in Dev : gen[d] # 1) \/ (\A d \in Dev : gen[d] # 0)
    /\ gen[Viewer] = 2 => gen[Host] = 2
    /\ \A d \in Dev : /\ handle[d].gen = 1 => gen[d] # 0
                      /\ handle[d].gen = 2 => gen[d] # 1
    /\ disk[Viewer].epoch = 2 => gen[Viewer] # 1
    /\ ~handle[Viewer].retired

SeedInv ==
    LET hh == handle[Host]  dh == disk[Host] IN
    /\ hh.gen = 1 => gen[Host] = 1 \/ hh.retired \/ seed.at = "flipped"
    /\ hh.gen = 1 /\ dh.epoch = 2 => hh.retired \/ seed.at \in {"saved", "flipped"}
    /\ hh.gen = 2 => dh.epoch = 2
    /\ seed.at \in {"rebuilt", "posted", "checked"} => gen[Host] = 1 /\ dh.epoch # 2
    /\ seed.at \in {"saved", "flipped"} \/ hh.retired => dh.epoch = 2
    /\ seed.at = "flipped" \/ hh.retired => gen[Host] = 2
    /\ gen[Host] # 1 => dh.epoch = 2 \/ dh.lin = "none"

GenInv == RowInv /\ SeedInv

\* The same, device by device.
GenByDevice ==
    /\ (gen[Host] # 1 /\ gen[Viewer] # 1) \/ (gen[Host] # 0 /\ gen[Viewer] # 0)
    /\ gen[Viewer] = 2 => gen[Host] = 2
    /\ handle[Host].gen = 1 => gen[Host] # 0
    /\ handle[Host].gen = 2 => gen[Host] # 1
    /\ handle[Viewer].gen = 1 => gen[Viewer] # 0
    /\ handle[Viewer].gen = 2 => gen[Viewer] # 1
    /\ disk[Viewer].epoch = 2 => gen[Viewer] # 1
    /\ ~handle[Viewer].retired
    /\ SeedInv

LEMMA GenParts == (GenInv <=> GenByDevice) /\ (GenInv' <=> GenByDevice')
BY DEF GenInv, GenByDevice, RowInv, Dev

LEMMA GenOpens ==
    ASSUME CutoverShape, GenInv, NEW d \in Dev, OpenBranch(d), UNCHANGED seed
    PROVE  GenInv'
<1>1. /\ Thin(d) \/ OnS2(d) \/ Adopts(d) \/ Born(d)
      /\ \A e \in Dev : e # d => handle'[e] = handle[e] /\ disk'[e] = disk[e] /\ gen'[e] = gen[e]
  BY Branches
<1>2. /\ disk[d].lin \in Lineages /\ disk[d].items \in SUBSET Items
      /\ Pending(disk[d].items) \in SUBSET Items /\ gen[d] \in 0..2
      /\ gen[Host] \in 0..2 /\ gen[Viewer] \in 0..2
  BY HandleFields, ItemSets, DevTwo DEF Pending
<1>3. CASE Thin(d)
  <2>1. handle'[d].gen = 2 /\ ~handle'[d].retired
    BY <1>2, <1>3, OpenedShape DEF Thin
  <2>2. /\ disk[d].epoch = 2 /\ disk'[d] = disk[d]
        /\ gen'[d] = IF gen[d] = 1 THEN 2 ELSE gen[d]
    BY <1>3 DEF Thin
  <2> QED BY <1>1, <1>2, <2>1, <2>2, GenParts, DevTwo DEF GenByDevice, SeedInv
<1>4. CASE OnS2(d)
  <2>1. handle'[d].gen = 1 /\ ~handle'[d].retired
    BY <1>2, <1>4, OpenedShape DEF OnS2, Lineages
  <2>2. gen[d] = 1 /\ gen'[d] = gen[d] /\ disk'[d] = disk[d] /\ disk[d].epoch = 0
    BY <1>4 DEF OnS2
  <2> QED BY <1>1, <1>2, <2>1, <2>2, GenParts, DevTwo DEF GenByDevice, SeedInv
<1>5. CASE Adopts(d)
  <2>1. handle'[d].gen = 2 /\ ~handle'[d].retired
    BY <1>2, <1>5, OpenedShape DEF Adopts, Lineages
  <2>2. /\ disk[d].epoch = 0 /\ disk[d].lin # "none" /\ gen[d] # 1 /\ disk'[d] = disk[d]
        /\ gen'[d] = gen[d]
    BY <1>5 DEF Adopts, RegistryGen
  <2> QED BY <1>1, <1>2, <2>1, <2>2, GenParts, DevTwo DEF GenByDevice, SeedInv
<1>6. CASE Born(d)
  <2>1. handle'[d].gen = 2 /\ ~handle'[d].retired /\ disk'[d].epoch = 2
    BY <1>6, OpenedShape DEF Born, Lineages
  <2>2. gen[d] # 1 /\ gen'[d] = gen[d]
    BY <1>6 DEF Born, RegistryGen
  <2> QED BY <1>1, <1>2, <2>1, <2>2, GenParts, DevTwo DEF GenByDevice, SeedInv
<1> QED BY <1>1, <1>3, <1>4, <1>5, <1>6

LEMMA GenStep ==
    ASSUME CutoverShape, GenInv, [CutoverNext]_cutoverVars
    PROVE  GenInv'
<1>t. /\ gen \in [Dev -> 0..2] /\ gen[Host] \in 0..2 /\ gen[Viewer] \in 0..2
      /\ handle[Host].gen \in 0..2 /\ handle[Viewer].gen \in 0..2
  BY HandleFields, DevTwo DEF CutoverShape
\* an action that changes handles' contents only
<1>h. ASSUME NEW d \in Dev, Others(d), Kept(d), UNCHANGED <<gen, disk, seed>>
      PROVE  GenInv'
  BY <1>h, GenParts, DevTwo DEF Others, Kept, GenByDevice, SeedInv
<1>1. ASSUME NEW d \in Dev, DoOpen(d) PROVE GenInv'
  BY <1>1, GenOpens DEF DoOpen
<1>2. ASSUME NEW d \in Dev, Save(d) PROVE GenInv'
  <2>1. /\ UNCHANGED <<gen, handle, seed>> /\ Open(d) /\ disk'[d].epoch = disk[d].epoch
        /\ \A e \in Dev : e # d => disk'[e] = disk[e]
    BY <1>2, SnapshotEffect DEF Save
  <2> QED BY <1>t, <2>1, GenParts, DevTwo DEF GenByDevice, SeedInv, Open
<1>3. ASSUME NEW d \in Dev, Evict(d) PROVE GenInv'
  <2>1. /\ UNCHANGED <<gen, seed>> /\ Open(d) /\ disk'[d].epoch = disk[d].epoch
        /\ \A e \in Dev : e # d => disk'[e] = disk[e] /\ handle'[e] = handle[e]
        /\ handle'[d].gen = 0 /\ ~handle'[d].retired
    BY <1>3, SnapshotEffect, DropEffect DEF Evict, Others
  <2> QED BY <1>t, <2>1, GenParts, DevTwo DEF GenByDevice, SeedInv, Open
<1>4. ASSUME NEW d \in Dev, Crash(d) PROVE GenInv'
  <2>1. /\ UNCHANGED <<gen, disk>> /\ seed' = (IF d = Host THEN NoSeed ELSE seed)
        /\ \A e \in Dev : e # d => handle'[e] = handle[e]
        /\ handle'[d].gen = 0 /\ ~handle'[d].retired
    BY <1>4, DropEffect DEF Crash, Others
  <2> QED BY <1>t, <2>1, GenParts, DevTwo DEF GenByDevice, SeedInv, NoSeed
<1>5. ASSUME NEW d \in Dev, SyncS2(d) PROVE GenInv'
  BY <1>5, <1>h, SyncS2Effect DEF SyncS2
<1>6. ASSUME NEW d \in Dev, SyncChat2(d) PROVE GenInv'
  <2>1. /\ UNCHANGED <<gen, seed>> /\ handle[d].gen = 2 /\ disk'[d].epoch = 2 /\ Kept(d)
        /\ \A e \in Dev : e # d => disk'[e] = disk[e] /\ handle'[e] = handle[e]
    BY <1>6, SyncChat2Effect DEF SyncChat2, Others
  <2> QED BY <1>t, <2>1, GenParts, DevTwo DEF GenByDevice, SeedInv, Kept
<1>7. ASSUME NEW d \in Dev, WatcherDrops(d) PROVE GenInv'
  <2>1. CASE d = Host
    BY <1>7, <2>1, GenOpens DEF WatcherDrops
  <2>2. CASE d # Host
    <3>1. /\ UNCHANGED <<gen, disk, seed>> /\ \A e \in Dev : e # d => handle'[e] = handle[e]
          /\ handle'[d].gen = 0 /\ ~handle'[d].retired
      BY <1>7, <2>2, DropEffect DEF WatcherDrops, Others
    <3> QED BY <2>2, <3>1, GenParts, DevTwo DEF GenByDevice, SeedInv
  <2> QED BY <2>1, <2>2
<1>8. ASSUME NEW d \in Dev, NEW e \in Dev, SyncRow(d, e) PROVE GenInv'
  <2>1. d = Viewer /\ e = Host
    BY <1>t, <1>8, GenParts, DevTwo DEF SyncRow, GenByDevice
  <2>2. /\ gen'[Viewer] = gen[Host] /\ gen'[Host] = gen[Host] /\ gen[Viewer] < gen[Host]
        /\ UNCHANGED <<handle, disk, seed>>
    BY <1>t, <1>8, <2>1, DevTwo DEF SyncRow
  <2> QED BY <1>t, <2>2, GenParts DEF GenByDevice, SeedInv
<1>9. ASSUME CreateChat PROVE GenInv'
  <2>1. /\ gen'[Host] = 2 /\ gen[Host] = 0 /\ gen'[Viewer] = gen[Viewer]
        /\ UNCHANGED <<handle, disk, seed>>
    BY <1>t, <1>9, DevTwo DEF CreateChat
  <2> QED BY <1>t, <2>1, GenParts DEF GenByDevice, SeedInv
<1>10. ASSUME RunStarts PROVE GenInv'
  BY <1>10, <1>h, WriterEffect, DevTwo DEF RunStarts
<1>11. ASSUME RunWrites PROVE GenInv'
  <2>1. PICK m \in Messages : handle' = [handle EXCEPT ![Host].items = @ \cup {m}]
    BY <1>11 DEF RunWrites
  <2>2. m \in Items
    BY ItemSets
  <2> QED BY <1>11, <1>h, <2>1, <2>2, AddEffect, DevTwo DEF RunWrites
<1>12. ASSUME RunEnds PROVE GenInv'
  BY <1>12, <1>h, WriterEffect, DevTwo DEF RunEnds
<1>13. ASSUME QueueCommand PROVE GenInv'
  <2>1. PICK c \in Commands : handle' = [handle EXCEPT ![Viewer].items = @ \cup {c}]
    BY <1>13 DEF QueueCommand
  <2>2. c \in Items
    BY ItemSets
  <2> QED BY <1>13, <1>h, <2>1, <2>2, AddEffect, DevTwo DEF QueueCommand
<1>14. ASSUME DrainCommands PROVE GenInv'
  <2>1. PICK c \in Commands : handle' = [handle EXCEPT ![Host].items = @ \cup {Resolved(c)}]
    BY <1>14 DEF DrainCommands, Pending
  <2>2. Resolved(c) \in Items
    BY ItemSets
  <2> QED BY <1>14, <1>h, <2>1, <2>2, AddEffect, DevTwo DEF DrainCommands
<1>15. ASSUME SeedRebuilds PROVE GenInv'
  <2>1. /\ seed'.at = "rebuilt" /\ seed.at = "no" /\ handle[Host].gen = 1 /\ ~handle[Host].retired
        /\ UNCHANGED <<gen, handle, disk>>
    BY <1>15 DEF SeedRebuilds
  <2> QED BY <2>1, GenParts DEF GenByDevice, SeedInv
<1>16. ASSUME SeedPosts PROVE GenInv'
  <2>1. seed.at = "rebuilt" /\ seed'.at \in {"posted", "no"} /\ UNCHANGED <<gen, handle, disk>>
    BY <1>16, SeedMoves DEF SeedPosts, NoSeed
  <2> QED BY <2>1, GenParts DEF GenByDevice, SeedInv
<1>17. ASSUME SeedChecks PROVE GenInv'
  <2>1. seed.at = "posted" /\ seed'.at \in {"checked", "no"} /\ UNCHANGED <<gen, handle, disk>>
    BY <1>17, SeedMoves DEF SeedChecks, NoSeed
  <2> QED BY <2>1, GenParts DEF GenByDevice, SeedInv
<1>18. ASSUME SeedSaves PROVE GenInv'
  <2>1. /\ seed'.at = "saved" /\ disk'[Host].epoch = 2 /\ UNCHANGED <<gen, handle>>
        /\ seed.at = "checked" /\ disk'[Viewer] = disk[Viewer]
    BY <1>18, SeedSavesEffect, DevTwo DEF SeedSaves
  <2> QED BY <2>1, GenParts DEF GenByDevice, SeedInv
<1>19. ASSUME SeedFlips PROVE GenInv'
  <2>1. /\ seed'.at = "flipped" /\ seed.at = "saved" /\ UNCHANGED <<handle, disk>>
        /\ gen'[Host] = 2 /\ gen'[Viewer] = gen[Viewer]
    BY <1>19, <1>t, SeedMoves, DevTwo DEF SeedFlips
  <2> QED BY <1>t, <2>1, GenParts DEF GenByDevice, SeedInv
<1>20. ASSUME SeedRetires PROVE GenInv'
  <2>1. /\ seed.at = "flipped" /\ seed'.at = "no" /\ UNCHANGED <<gen, disk>>
        /\ handle'[Viewer] = handle[Viewer]
        /\ \/ handle'[Host].gen = 0 /\ ~handle'[Host].retired
           \/ handle'[Host].gen = handle[Host].gen /\ handle'[Host].retired
    BY <1>20, RetireEffect, DevTwo DEF SeedRetires, NoSeed, NoHandle, Others
  <2> QED BY <1>t, <2>1, GenParts DEF GenByDevice, SeedInv
<1>21. ASSUME UNCHANGED cutoverVars PROVE GenInv'
  BY <1>21, GenParts DEF cutoverVars, GenByDevice, SeedInv
<1> QED
  BY <1>1, <1>2, <1>3, <1>4, <1>5, <1>6, <1>7, <1>8, <1>9, <1>10, <1>11, <1>12, <1>13, <1>14,
     <1>15, <1>16, <1>17, <1>18, <1>19, <1>20, <1>21 DEF CutoverNext

-----------------------------------------------------------------------------
(* Lineages.                                                               *)

LinOK(d) ==
    /\ handle[d].gen = 1 => handle[d].lin = "fat"
    /\ handle[d].gen = 2 => handle[d].lin = "thin"
    /\ rollback[d].lin \in {"none", "fat"}
    /\ disk[d].epoch = 2 => disk[d].lin = "thin"
    /\ disk[d].epoch # 2 /\ disk[d].lin = "thin" => gen[d] # 1 /\ rollback[d].lin = "fat"
    /\ handle[d].gen = 2 /\ disk[d].epoch # 2 => rollback[d].lin = "fat"

LinInv == clobbered \/ \A d \in Dev : LinOK(d)

LEMMA LinOpens ==
    ASSUME CutoverShape, GenInv, NEW d \in Dev, OpenBranch(d), \A e \in Dev : LinOK(e)
    PROVE  \A e \in Dev : LinOK(e)'
<1>1. /\ Thin(d) \/ OnS2(d) \/ Adopts(d) \/ Born(d)
      /\ \A e \in Dev : e # d => /\ handle'[e] = handle[e] /\ disk'[e] = disk[e]
                                 /\ rollback'[e] = rollback[e] /\ gen'[e] = gen[e]
  BY Branches
<1>2. /\ disk[d].lin \in Lineages /\ disk[d].items \in SUBSET Items
      /\ Pending(disk[d].items) \in SUBSET Items /\ LinOK(d)
      /\ rollback[d].lin \in Lineages /\ gen[d] \in 0..2
  BY HandleFields, ItemSets DEF Pending
<1>3. CASE Thin(d)
  <2>1. handle'[d].gen = 2 /\ handle'[d].lin = disk[d].lin
    BY <1>2, <1>3, OpenedShape DEF Thin
  <2>2. LinOK(d)'
    BY <1>2, <1>3, <2>1 DEF Thin, LinOK
  <2> QED BY <1>1, <2>2 DEF LinOK
<1>4. CASE OnS2(d)
  <2>1. handle'[d].gen = 1 /\ handle'[d].lin = IF disk[d].lin = "none" THEN "fat" ELSE disk[d].lin
    BY <1>2, <1>4, OpenedShape DEF OnS2, Lineages
  <2>2. LinOK(d)'
    BY <1>2, <1>4, <2>1 DEF OnS2, LinOK, Lineages
  <2> QED BY <1>1, <2>2 DEF LinOK
<1>5. CASE Adopts(d)
  <2>1. handle'[d].gen = 2 /\ handle'[d].lin = "thin"
    BY <1>2, <1>5, OpenedShape DEF Adopts, Lineages
  <2>2. rollback'[d].lin = "fat" /\ disk'[d] = disk[d] /\ gen'[d] = gen[d] /\ gen[d] # 1
    BY <1>2, <1>5 DEF Adopts, LinOK, Lineages, RegistryGen
  <2>3. LinOK(d)'
    BY <1>2, <2>1, <2>2 DEF LinOK
  <2> QED BY <1>1, <2>3 DEF LinOK
<1>6. CASE Born(d)
  <2>1. handle'[d].gen = 2 /\ handle'[d].lin = "thin" /\ disk'[d].epoch = 2 /\ disk'[d].lin = "thin"
    BY <1>6, OpenedShape DEF Born, Lineages
  <2>2. LinOK(d)'
    BY <1>2, <1>6, <2>1 DEF Born, LinOK
  <2> QED BY <1>1, <2>2 DEF LinOK
<1> QED BY <1>1, <1>3, <1>4, <1>5, <1>6

LEMMA LinStep ==
    ASSUME CutoverShape, GenInv, LinInv, [CutoverNext]_cutoverVars
    PROVE  LinInv'
<1> SUFFICES ASSUME ~clobbered' PROVE \A e \in Dev : LinOK(e)'
  BY DEF LinInv
<1>c. ASSUME ~clobbered PROVE \A e \in Dev : LinOK(e)
  BY <1>c DEF LinInv
<1>t. /\ gen[Host] \in 0..2 /\ gen[Viewer] \in 0..2 /\ gen \in [Dev -> 0..2]
      /\ \A d \in Dev : handle[d].gen \in 0..2
  BY HandleFields, DevTwo DEF CutoverShape
<1>h. ASSUME NEW d \in Dev, Others(d), Kept(d), UNCHANGED <<gen, disk, rollback, clobbered>>
      PROVE  \A e \in Dev : LinOK(e)'
  BY <1>h, <1>c DEF Others, Kept, LinOK
<1>u. ASSUME UNCHANGED <<handle, disk, rollback, gen, clobbered>>
      PROVE  \A e \in Dev : LinOK(e)'
  BY <1>u, <1>c DEF LinOK
<1>d. ASSUME NEW d \in Dev, handle'[d] = NoHandle, Others(d), UNCHANGED <<gen, disk, rollback, clobbered>>
      PROVE  \A e \in Dev : LinOK(e)'
  <2>1. handle'[d].gen = 0
    BY <1>d DEF NoHandle
  <2> QED BY <1>d, <1>c, <2>1 DEF Others, LinOK
<1>1. ASSUME NEW d \in Dev, DoOpen(d) PROVE \A e \in Dev : LinOK(e)'
  <2>1. UNCHANGED clobbered /\ OpenBranch(d)
    BY <1>1 DEF DoOpen
  <2> QED BY <1>c, <2>1, LinOpens
\* a save of an open handle leaves its device's documents in order
<1>s. ASSUME NEW d \in Dev, SaveSnapshot(d), Open(d), UNCHANGED <<rollback, gen>>,
             handle'[d] = handle[d] \/ handle'[d] = NoHandle, Others(d)
      PROVE  \A e \in Dev : LinOK(e)'
  <2>1. ~clobbered
    BY <1>s, SnapshotEffect
  <2>2. LinOK(d) /\ gen[d] \in 0..2 /\ handle[d].gen \in {1, 2}
        /\ (handle[d].gen = 2 => gen[d] # 1)
    BY <1>c, <1>s, <1>t, <2>1, HandleFields DEF Open, GenInv, RowInv
  <2>3. handle'[d].gen = 0 \/ handle'[d] = handle[d]
    BY <1>s DEF NoHandle
  <2>4. LinOK(d)'
    <3>1. CASE disk'[d] = disk[d]
      BY <1>s, <2>2, <2>3, <3>1 DEF LinOK
    <3>2. CASE /\ disk'[d].lin = handle[d].lin /\ disk'[d].epoch = disk[d].epoch
               /\ clobbered' = (clobbered \/ (handle[d].gen = 1 /\ disk[d].epoch = 2))
      <4>1. ~(handle[d].gen = 1 /\ disk[d].epoch = 2)
        BY <3>2
      <4>2. gen'[d] = gen[d] /\ rollback'[d] = rollback[d]
        BY <1>s
      <4> QED BY <2>2, <2>3, <3>2, <4>1, <4>2 DEF LinOK
    <3> QED BY <1>s, <3>1, <3>2, SnapshotEffect
  <2>5. \A e \in Dev : e # d => disk'[e] = disk[e] /\ handle'[e] = handle[e]
    BY <1>s, SnapshotEffect DEF Others
  <2> QED BY <1>c, <1>s, <2>1, <2>4, <2>5 DEF LinOK
<1>2. ASSUME NEW d \in Dev, Save(d) PROVE \A e \in Dev : LinOK(e)'
  BY <1>2, <1>s DEF Save, Others
<1>3. ASSUME NEW d \in Dev, Evict(d) PROVE \A e \in Dev : LinOK(e)'
  BY <1>3, <1>s, DropEffect DEF Evict
<1>4. ASSUME NEW d \in Dev, Crash(d) PROVE \A e \in Dev : LinOK(e)'
  BY <1>4, <1>d, DropEffect DEF Crash
<1>5. ASSUME NEW d \in Dev, SyncS2(d) PROVE \A e \in Dev : LinOK(e)'
  BY <1>5, <1>h, SyncS2Effect DEF SyncS2, histVars
<1>6. ASSUME NEW d \in Dev, SyncChat2(d) PROVE \A e \in Dev : LinOK(e)'
  <2>1. /\ UNCHANGED <<gen, rollback, clobbered>> /\ handle[d].gen = 2 /\ disk'[d].epoch = 2
        /\ disk'[d].lin = handle[d].lin /\ Kept(d)
        /\ \A e \in Dev : e # d => disk'[e] = disk[e] /\ handle'[e] = handle[e]
    BY <1>6, SyncChat2Effect DEF SyncChat2, Others
  <2>2. LinOK(d)'
    BY <1>c, <2>1 DEF LinOK, Kept
  <2> QED BY <1>c, <2>1, <2>2 DEF LinOK
<1>7. ASSUME NEW d \in Dev, WatcherDrops(d) PROVE \A e \in Dev : LinOK(e)'
  <2>1. CASE d = Host
    BY <1>c, <1>7, <2>1, LinOpens DEF WatcherDrops
  <2>2. CASE d # Host
    BY <1>7, <1>d, <2>2, DropEffect DEF WatcherDrops
  <2> QED BY <2>1, <2>2
<1>8. ASSUME NEW d \in Dev, NEW e \in Dev, SyncRow(d, e) PROVE \A f \in Dev : LinOK(f)'
  <2>0. gen[d] \in 0..2 /\ gen[e] \in 0..2
    BY <1>t
  <2>1. /\ gen'[d] = gen[e] /\ gen[d] < gen[e] /\ UNCHANGED <<handle, disk, rollback, clobbered>>
        /\ \A f \in Dev : f # d => gen'[f] = gen[f]
    BY <1>8, <1>t DEF SyncRow, histVars
  <2>2. gen[d] # 1 => gen'[d] # 1
    BY <2>0, <2>1, DevTwo, GenParts DEF GenByDevice
  <2> QED BY <1>c, <2>1, <2>2 DEF LinOK
<1>9. ASSUME CreateChat PROVE \A e \in Dev : LinOK(e)'
  <2>1. /\ UNCHANGED <<handle, disk, rollback, clobbered>>
        /\ \A e \in Dev : gen'[e] = gen[e] \/ gen'[e] = 2
    BY <1>t, <1>9 DEF CreateChat, histVars
  <2> QED BY <1>c, <2>1 DEF LinOK
<1>10. ASSUME RunStarts PROVE \A e \in Dev : LinOK(e)'
  BY <1>10, <1>h, WriterEffect, DevTwo DEF RunStarts
<1>11. ASSUME RunWrites PROVE \A e \in Dev : LinOK(e)'
  <2>1. PICK m \in Messages : handle' = [handle EXCEPT ![Host].items = @ \cup {m}]
    BY <1>11 DEF RunWrites
  <2>2. m \in Items
    BY ItemSets
  <2> QED BY <1>11, <1>h, <2>1, <2>2, AddEffect, DevTwo DEF RunWrites, histVars
<1>12. ASSUME RunEnds PROVE \A e \in Dev : LinOK(e)'
  BY <1>12, <1>h, WriterEffect, DevTwo DEF RunEnds, histVars
<1>13. ASSUME QueueCommand PROVE \A e \in Dev : LinOK(e)'
  <2>1. PICK c \in Commands : handle' = [handle EXCEPT ![Viewer].items = @ \cup {c}]
    BY <1>13 DEF QueueCommand
  <2>2. c \in Items
    BY ItemSets
  <2> QED BY <1>13, <1>h, <2>1, <2>2, AddEffect, DevTwo DEF QueueCommand, histVars
<1>14. ASSUME DrainCommands PROVE \A e \in Dev : LinOK(e)'
  <2>1. PICK c \in Commands : handle' = [handle EXCEPT ![Host].items = @ \cup {Resolved(c)}]
    BY <1>14 DEF DrainCommands, Pending
  <2>2. Resolved(c) \in Items
    BY ItemSets
  <2> QED BY <1>14, <1>h, <2>1, <2>2, AddEffect, DevTwo DEF DrainCommands, histVars
<1>15. ASSUME SeedRebuilds \/ SeedPosts \/ SeedChecks PROVE \A e \in Dev : LinOK(e)'
  BY <1>15, <1>u DEF SeedRebuilds, SeedPosts, SeedChecks, histVars
<1>18. ASSUME SeedSaves PROVE \A e \in Dev : LinOK(e)'
  <2>1. /\ disk'[Host].lin = "thin" /\ disk'[Host].epoch = 2 /\ UNCHANGED <<gen, handle, clobbered>>
        /\ \A e \in Dev : e # Host => disk'[e] = disk[e] /\ rollback'[e] = rollback[e]
        /\ \/ rollback'[Host] = rollback[Host]
           \/ disk[Host].lin # "none" /\ rollback'[Host] = disk[Host]
        /\ seed.at = "checked" /\ disk[Host].lin \in Lineages
    BY <1>18, SeedSavesEffect, HandleFields, DevTwo DEF SeedSaves
  <2>2. gen[Host] = 1 /\ disk[Host].epoch # 2
    BY <2>1 DEF GenInv, SeedInv
  <2>3. LinOK(Host)'
    BY <1>c, <2>1, <2>2, DevTwo DEF LinOK, Lineages
  <2> QED BY <1>c, <2>1, <2>3 DEF LinOK
<1>19. ASSUME SeedFlips PROVE \A e \in Dev : LinOK(e)'
  <2>1. /\ UNCHANGED <<handle, disk, rollback, clobbered>>
        /\ \A e \in Dev : gen'[e] = gen[e] \/ gen'[e] = 2
    BY <1>t, <1>19 DEF SeedFlips, histVars
  <2> QED BY <1>c, <2>1 DEF LinOK
<1>20. ASSUME SeedRetires PROVE \A e \in Dev : LinOK(e)'
  <2>1. /\ UNCHANGED <<gen, disk, rollback, clobbered>> /\ Others(Host)
        /\ \/ handle'[Host].gen = 0
           \/ handle'[Host].gen = handle[Host].gen /\ handle'[Host].lin = handle[Host].lin
    BY <1>20, RetireEffect DEF SeedRetires, NoHandle
  <2> QED BY <1>c, <2>1, DevTwo DEF LinOK, Others
<1>21. ASSUME UNCHANGED cutoverVars PROVE \A e \in Dev : LinOK(e)'
  BY <1>21, <1>u DEF cutoverVars, histVars
<1> QED
  BY <1>1, <1>2, <1>3, <1>4, <1>5, <1>6, <1>7, <1>8, <1>9, <1>10, <1>11, <1>12, <1>13, <1>14,
     <1>15, <1>18, <1>19, <1>20, <1>21 DEF CutoverNext

\* What holds before the first open.
LEMMA CutoverInitial == ASSUME CutoverInit PROVE CutoverShape /\ GenInv /\ LinInv
<1>1. /\ disk[Host] = NoDoc /\ disk[Viewer] = NoDoc /\ handle[Host] = NoHandle
      /\ handle[Viewer] = NoHandle /\ rollback[Host] = NoDoc /\ rollback[Viewer] = NoDoc
      /\ seed = NoSeed
      /\ (gen[Host] = 1 /\ gen[Viewer] = 1) \/ (gen[Host] = 0 /\ gen[Viewer] = 0)
  BY DevTwo DEF CutoverInit
<1>2. CutoverShape
  <2>1. /\ gen \in [Dev -> 0..2] /\ disk \in [Dev -> Docs] /\ rollback \in [Dev -> Docs]
        /\ handle \in [Dev -> Handles] /\ seed \in Seeds
    BY Blank DEF CutoverInit
  <2>2. ASSUME NEW d \in Dev
        PROVE  handle[d] = NoHandle /\ handle[d].gen = 0 /\ disk[d].items = {} /\ disk[d].epoch = 0
    BY <1>1, DevTwo DEF NoHandle, NoDoc
  <2> QED BY <2>1, <2>2 DEF CutoverShape, CutoverInit, Open
<1>3. GenInv
  <2>1. /\ handle[Host].gen = 0 /\ handle[Viewer].gen = 0 /\ ~handle[Host].retired
        /\ ~handle[Viewer].retired /\ seed.at = "no" /\ disk[Host].epoch = 0
        /\ disk[Viewer].epoch = 0 /\ disk[Host].lin = "none"
    <3>1. NoHandle.gen = 0 /\ ~NoHandle.retired
      BY DEF NoHandle
    <3>2. NoDoc.epoch = 0 /\ NoDoc.lin = "none" /\ NoSeed.at = "no"
      BY DEF NoDoc, NoSeed
    <3> QED BY <1>1, <3>1, <3>2
  <2> QED BY <1>1, <2>1, GenParts DEF GenByDevice, SeedInv
<1>4. LinOK(Host) /\ LinOK(Viewer)
  BY <1>1 DEF LinOK, NoDoc, NoHandle
<1> QED BY <1>2, <1>3, <1>4, DevTwo DEF LinInv

LEMMA LinConsequence == ASSUME CutoverShape, LinInv PROVE LineagesNeverMix
<1> SUFFICES ASSUME ~clobbered, NEW d \in Dev
             PROVE  /\ Open(d) => handle[d].lin = IF handle[d].gen = 2 THEN "thin" ELSE "fat"
                    /\ rollback[d].lin \in {"none", "fat"}
  BY DEF LineagesNeverMix
<1>1. LinOK(d) /\ handle[d].gen \in 0..2
  BY HandleFields DEF LinInv
<1> QED BY <1>1 DEF LinOK, Open

\* The two lineages of a chat's document never meet (doc_host.rs, open and the
\* quiet seed): on every device the s2 room is joined with the old document and
\* the chat2 room with the rebuilt one, and the rollback copy is the old
\* transcript, whatever crashes, evictions and rows arriving late interleave
\* with the seed, unless a document was saved over the seed's.
THEOREM LineagesStayApart == CutoverSpec => []LineagesNeverMix
<1>1. CutoverInit => CutoverShape /\ GenInv /\ LinInv
  BY CutoverInitial
<1>2. CutoverShape /\ GenInv /\ LinInv /\ [CutoverNext]_cutoverVars
        => CutoverShape' /\ GenInv' /\ LinInv'
  BY ShapeStep, GenStep, LinStep
<1>3. CutoverShape /\ GenInv /\ LinInv => LineagesNeverMix
  BY LinConsequence
<1> QED BY <1>1, <1>2, <1>3, PTL DEF CutoverSpec

-----------------------------------------------------------------------------
(* Commands: whatever of the viewer's reached a room or the host is settled, *)
(* lost with a handle nobody saved, or still on the viewer.                 *)

Reached(c) ==
    c \in s2 \/ c \in chat2 \/ c \in seed.items \/ c \in handle[Host].items \/ c \in disk[Host].items
Settled(c) ==
    \/ Resolved(c) \in s2 \/ Resolved(c) \in chat2 \/ Resolved(c) \in seed.items
    \/ Resolved(c) \in handle[Host].items \/ Resolved(c) \in disk[Host].items
    \/ Resolved(c) \in handle[Viewer].items \/ Resolved(c) \in disk[Viewer].items

CmdOK(c) ==
    /\ Reached(c) => \/ c \in processed \/ c \in unsaved
                     \/ c \in handle[Viewer].items \/ c \in disk[Viewer].items
    /\ Settled(c) => c \in processed
    /\ handle[Viewer].gen # 0 /\ c \in disk[Viewer].items =>
         c \in handle[Viewer].items \/ c \in processed

CmdInv == \A c \in Commands : CmdOK(c)

LEMMA OpenItems ==
    ASSUME CutoverShape, NEW d \in Dev, OpenBranch(d)
    PROVE  /\ disk'[d].items = disk[d].items /\ handle'[d].items \subseteq disk[d].items
           /\ d = Viewer => \A c \in Commands : c \in disk[d].items =>
                              c \in handle'[d].items \/ Resolved(c) \in disk[d].items
           /\ \A e \in Dev : e # d => handle'[e] = handle[e] /\ disk'[e] = disk[e]
<1>1. /\ Thin(d) \/ OnS2(d) \/ Adopts(d) \/ Born(d)
      /\ \A e \in Dev : e # d => handle'[e] = handle[e] /\ disk'[e] = disk[e]
  BY Branches
<1>2. /\ disk[d].lin \in Lineages /\ disk[d].items \in SUBSET Items
      /\ Pending(disk[d].items) \in SUBSET Items
      /\ (disk[d].lin = "none" => disk[d].items = {})
  BY HandleFields, ItemSets DEF Pending, CutoverShape
<1>3. CASE Thin(d)
  <2>1. handle'[d].items = disk[d].items /\ disk'[d] = disk[d]
    BY <1>2, <1>3, OpenedShape DEF Thin
  <2> QED BY <1>1, <2>1
<1>4. CASE OnS2(d)
  <2>1. handle'[d].items = disk[d].items /\ disk'[d] = disk[d]
    BY <1>2, <1>4, OpenedShape DEF OnS2, Lineages
  <2> QED BY <1>1, <2>1
<1>5. CASE Adopts(d)
  <2>1. /\ handle'[d].items = (IF d = Viewer THEN Pending(disk[d].items) ELSE {})
        /\ disk'[d] = disk[d]
    BY <1>2, <1>5, OpenedShape DEF Adopts, Lineages
  <2> QED BY <1>1, <2>1 DEF Pending
<1>6. CASE Born(d)
  <2>1. handle'[d].items = {} /\ disk'[d].items = {} /\ disk[d].items = {}
    BY <1>2, <1>6, OpenedShape DEF Born, Lineages
  <2> QED BY <1>1, <2>1
<1> QED BY <1>1, <1>3, <1>4, <1>5, <1>6

LEMMA CmdStep ==
    ASSUME CutoverShape, GenInv, CmdInv, [CutoverNext]_cutoverVars
    PROVE  CmdInv'
<1> SUFFICES ASSUME NEW c \in Commands PROVE CmdOK(c)'
  BY DEF CmdInv
<1>c. CmdOK(c)
  BY DEF CmdInv
<1>n. ~handle[Viewer].retired
  BY DEF GenInv, RowInv
<1>i. NoHandle.items = {} /\ NoHandle.gen = 0 /\ NoSeed.items = {}
  BY DEF NoHandle, NoSeed
<1>d. ASSUME NEW d \in Dev, DropUnsaved(d)
      PROVE  /\ c \in unsaved => c \in unsaved'
             /\ c \in handle[d].items => c \in unsaved' \/ c \in disk[d].items
  BY <1>d DEF DropUnsaved
<1>o. ASSUME NEW d \in Dev, DropUnsaved(d), OpenBranch(d), UNCHANGED <<s2, chat2, seed, processed>>
      PROVE  CmdOK(c)'
  <2>1. /\ disk'[d].items = disk[d].items /\ handle'[d].items \subseteq disk[d].items
        /\ d = Viewer => (c \in disk[d].items =>
                            c \in handle'[d].items \/ Resolved(c) \in disk[d].items)
        /\ \A e \in Dev : e # d => handle'[e] = handle[e] /\ disk'[e] = disk[e]
    BY <1>o, OpenItems
  <2>2. CASE d = Host
    BY <1>c, <1>d, <1>o, <2>1, <2>2, DevTwo DEF CmdOK, Reached, Settled
  <2>3. CASE d = Viewer
    BY <1>c, <1>d, <1>o, <2>1, <2>3, DevTwo DEF CmdOK, Reached, Settled
  <2> QED BY <2>2, <2>3, DevTwo
<1>1. ASSUME NEW d \in Dev, DoOpen(d) PROVE CmdOK(c)'
  BY <1>1, <1>o DEF DoOpen
\* a save, of a handle that stays or is dropped
<1>s. ASSUME NEW d \in Dev, SaveSnapshot(d), Open(d), UNCHANGED <<s2, chat2, seed, processed, unsaved>>,
             handle'[d] = handle[d] \/ handle'[d] = NoHandle, Others(d)
      PROVE  CmdOK(c)'
  <2>1. /\ disk'[d].items = handle[d].items \/ (handle[d].retired /\ disk'[d] = disk[d])
        /\ \A e \in Dev : e # d => disk'[e] = disk[e] /\ handle'[e] = handle[e]
        /\ handle'[d] = handle[d] \/ (handle'[d].gen = 0 /\ handle'[d].items = {})
    BY <1>s, <1>i, SnapshotEffect DEF Others
  <2>2. CASE d = Host
    BY <1>c, <1>s, <2>1, <2>2, DevTwo DEF CmdOK, Reached, Settled
  <2>3. CASE d = Viewer
    BY <1>c, <1>n, <1>s, <2>1, <2>3, DevTwo DEF CmdOK, Reached, Settled, Open
  <2> QED BY <2>2, <2>3, DevTwo
<1>2. ASSUME NEW d \in Dev, Save(d) PROVE CmdOK(c)'
  BY <1>2, <1>s DEF Save, Others
<1>3. ASSUME NEW d \in Dev, Evict(d) PROVE CmdOK(c)'
  BY <1>3, <1>s, DropEffect DEF Evict
<1>4. ASSUME NEW d \in Dev, Crash(d) PROVE CmdOK(c)'
  <2>1. /\ handle'[d].gen = 0 /\ handle'[d].items = {} /\ DropUnsaved(d)
        /\ \A e \in Dev : e # d => handle'[e] = handle[e]
        /\ UNCHANGED <<s2, chat2, disk, processed>>
        /\ seed' = (IF d = Host THEN NoSeed ELSE seed)
    BY <1>4, DropEffect DEF Crash, Others
  <2>2. CASE d = Host
    BY <1>c, <1>d, <1>i, <2>1, <2>2, DevTwo DEF CmdOK, Reached, Settled
  <2>3. CASE d = Viewer
    BY <1>c, <1>d, <2>1, <2>3, DevTwo DEF CmdOK, Reached, Settled
  <2> QED BY <2>2, <2>3, DevTwo
<1>5. ASSUME NEW d \in Dev, SyncS2(d) PROVE CmdOK(c)'
  <2>1. /\ handle'[d].items = handle[d].items \cup s2 /\ s2' = s2 \cup handle[d].items
        /\ \A e \in Dev : e # d => handle'[e] = handle[e]
        /\ handle'[d].gen = handle[d].gen
        /\ UNCHANGED <<chat2, disk, seed, processed, unsaved>>
    BY <1>5, SyncS2Effect DEF SyncS2, Others, Kept, histVars
  <2>2. CASE d = Host
    BY <1>c, <2>1, <2>2, DevTwo DEF CmdOK, Reached, Settled
  <2>3. CASE d = Viewer
    BY <1>c, <2>1, <2>3, DevTwo DEF CmdOK, Reached, Settled
  <2> QED BY <2>2, <2>3, DevTwo
<1>6. ASSUME NEW d \in Dev, SyncChat2(d) PROVE CmdOK(c)'
  <2>1. /\ handle'[d].items = handle[d].items \cup chat2 /\ chat2' = handle[d].items \cup chat2
        /\ disk'[d].items = handle[d].items \cup chat2 /\ handle'[d].gen = 2 /\ handle[d].gen = 2
        /\ \A e \in Dev : e # d => handle'[e] = handle[e] /\ disk'[e] = disk[e]
        /\ UNCHANGED <<s2, seed, processed, unsaved>>
    BY <1>6, SyncChat2Effect DEF SyncChat2, Others, Kept
  <2>2. CASE d = Host
    BY <1>c, <2>1, <2>2, DevTwo DEF CmdOK, Reached, Settled
  <2>3. CASE d = Viewer
    BY <1>c, <2>1, <2>3, DevTwo DEF CmdOK, Reached, Settled
  <2> QED BY <2>2, <2>3, DevTwo
<1>7. ASSUME NEW d \in Dev, WatcherDrops(d) PROVE CmdOK(c)'
  <2>1. CASE d = Host
    BY <1>7, <1>o, <2>1 DEF WatcherDrops
  <2>2. CASE d # Host
    <3>1. /\ handle'[d].gen = 0 /\ handle'[d].items = {} /\ DropUnsaved(d) /\ d = Viewer
          /\ \A e \in Dev : e # d => handle'[e] = handle[e]
          /\ UNCHANGED <<s2, chat2, disk, seed, processed>>
      BY <1>7, <2>2, DropEffect, DevTwo DEF WatcherDrops, Others
    <3> QED BY <1>c, <1>d, <3>1, DevTwo DEF CmdOK, Reached, Settled
  <2> QED BY <2>1, <2>2
\* what is neither in a handle nor in a store moves
<1>u. ASSUME UNCHANGED <<s2, chat2, disk, handle, seed, processed, unsaved>>
      PROVE  CmdOK(c)'
  BY <1>c, <1>u DEF CmdOK, Reached, Settled
<1>8. ASSUME NEW d \in Dev, NEW e \in Dev, SyncRow(d, e) PROVE CmdOK(c)'
  BY <1>8, <1>u DEF SyncRow, histVars
<1>9. ASSUME CreateChat PROVE CmdOK(c)'
  BY <1>9, <1>u DEF CreateChat, histVars
<1>w. ASSUME NEW w \in BOOLEAN, handle' = [handle EXCEPT ![Host].writer = w],
             UNCHANGED <<s2, chat2, disk, seed, processed, unsaved>>
      PROVE  CmdOK(c)'
  <2>1. handle'[Host].items = handle[Host].items /\ handle'[Viewer] = handle[Viewer]
    BY <1>w, WriterEffect, DevTwo DEF Others
  <2> QED BY <1>c, <1>w, <2>1 DEF CmdOK, Reached, Settled
<1>10. ASSUME RunStarts PROVE CmdOK(c)'
  BY <1>10, <1>w DEF RunStarts
<1>11. ASSUME RunWrites PROVE CmdOK(c)'
  <2>1. PICK m \in Messages : handle' = [handle EXCEPT ![Host].items = @ \cup {m}]
    BY <1>11 DEF RunWrites
  <2>2. m \in Items /\ m # c /\ m # Resolved(c)
    BY ItemSets, ItemsDiffer DEF Resolved
  <2>3. handle'[Host].items = handle[Host].items \cup {m} /\ handle'[Viewer] = handle[Viewer]
    BY <2>1, <2>2, AddEffect, DevTwo DEF Others
  <2>4. UNCHANGED <<s2, chat2, disk, seed, processed, unsaved>>
    BY <1>11 DEF RunWrites, histVars
  <2> QED BY <1>c, <2>2, <2>3, <2>4 DEF CmdOK, Reached, Settled
<1>12. ASSUME RunEnds PROVE CmdOK(c)'
  BY <1>12, <1>w DEF RunEnds, histVars
<1>13. ASSUME QueueCommand PROVE CmdOK(c)'
  <2>1. PICK b \in Commands : handle' = [handle EXCEPT ![Viewer].items = @ \cup {b}]
    BY <1>13 DEF QueueCommand
  <2>2. b \in Items /\ b # Resolved(c)
    BY ItemSets, ItemsDiffer DEF Resolved
  <2>3. /\ handle'[Viewer].items = handle[Viewer].items \cup {b} /\ handle'[Host] = handle[Host]
        /\ handle'[Viewer].gen = handle[Viewer].gen
    BY <2>1, <2>2, AddEffect, DevTwo DEF Others, Kept
  <2>4. UNCHANGED <<s2, chat2, disk, seed, processed, unsaved>>
    BY <1>13 DEF QueueCommand, histVars
  <2> QED BY <1>c, <2>2, <2>3, <2>4 DEF CmdOK, Reached, Settled
<1>14. ASSUME DrainCommands PROVE CmdOK(c)'
  <2>1. PICK b \in Commands : /\ handle' = [handle EXCEPT ![Host].items = @ \cup {Resolved(b)}]
                             /\ processed' = processed \cup {b}
    BY <1>14 DEF DrainCommands, Pending
  <2>2. Resolved(b) \in Items /\ Resolved(b) # c /\ (Resolved(b) = Resolved(c) => b = c)
    BY ItemSets, ItemsDiffer DEF Resolved
  <2>3. handle'[Host].items = handle[Host].items \cup {Resolved(b)} /\ handle'[Viewer] = handle[Viewer]
    BY <2>1, <2>2, AddEffect, DevTwo DEF Others
  <2>4. UNCHANGED <<s2, chat2, disk, seed, unsaved>>
    BY <1>14 DEF DrainCommands, histVars
  <2> QED BY <1>c, <2>1, <2>2, <2>3, <2>4 DEF CmdOK, Reached, Settled
<1>15. ASSUME SeedRebuilds PROVE CmdOK(c)'
  <2>1. seed'.items = handle[Host].items /\ UNCHANGED <<s2, chat2, disk, handle, processed, unsaved>>
    BY <1>15 DEF SeedRebuilds, histVars
  <2> QED BY <1>c, <2>1 DEF CmdOK, Reached, Settled
<1>16. ASSUME SeedPosts PROVE CmdOK(c)'
  <2>1. /\ chat2' = seed.items \/ chat2' = chat2
        /\ seed'.items = seed.items \/ seed'.items = {}
        /\ UNCHANGED <<s2, disk, handle, processed, unsaved>>
    BY <1>i, <1>16, SeedMoves DEF SeedPosts, histVars
  <2> QED BY <1>c, <2>1 DEF CmdOK, Reached, Settled
<1>17. ASSUME SeedChecks PROVE CmdOK(c)'
  <2>1. /\ seed'.items = seed.items \/ seed'.items = {}
        /\ UNCHANGED <<s2, chat2, disk, handle, processed, unsaved>>
    BY <1>i, <1>17, SeedMoves DEF SeedChecks
  <2> QED BY <1>c, <2>1 DEF CmdOK, Reached, Settled
<1>18. ASSUME SeedSaves PROVE CmdOK(c)'
  <2>1. /\ disk'[Host].items = seed.items /\ disk'[Viewer] = disk[Viewer] /\ seed'.items = seed.items
        /\ UNCHANGED <<s2, chat2, handle, processed, unsaved>>
    BY <1>18, SeedSavesEffect, DevTwo DEF SeedSaves
  <2> QED BY <1>c, <2>1 DEF CmdOK, Reached, Settled
<1>19. ASSUME SeedFlips PROVE CmdOK(c)'
  <2>1. seed'.items = seed.items /\ UNCHANGED <<s2, chat2, disk, handle, processed, unsaved>>
    BY <1>19, SeedMoves DEF SeedFlips, histVars
  <2> QED BY <1>c, <2>1 DEF CmdOK, Reached, Settled
<1>20. ASSUME SeedRetires PROVE CmdOK(c)'
  <2>1. /\ handle'[Host].items = handle[Host].items \/ handle'[Host].items = {}
        /\ handle'[Viewer] = handle[Viewer] /\ seed'.items = {}
        /\ UNCHANGED <<s2, chat2, disk, processed, unsaved>>
    BY <1>i, <1>20, RetireEffect, DevTwo DEF SeedRetires, Others
  <2> QED BY <1>c, <2>1 DEF CmdOK, Reached, Settled
<1>21. ASSUME UNCHANGED cutoverVars PROVE CmdOK(c)'
  BY <1>21, <1>u DEF cutoverVars, histVars
<1> QED
  BY <1>1, <1>2, <1>3, <1>4, <1>5, <1>6, <1>7, <1>8, <1>9, <1>10, <1>11, <1>12, <1>13, <1>14,
     <1>15, <1>16, <1>17, <1>18, <1>19, <1>20, <1>21 DEF CutoverNext

-----------------------------------------------------------------------------
(* Messages: until the seed's save, what was written is on the host's disk   *)
(* and in its open document; from then on it is in the chat2 room as well.   *)

Calm == ~raced /\ ~unsealed /\ ~clobbered

\* where a written message is
Safe(m) ==
    LET hh == handle[Host]  dh == disk[Host] IN
    /\ m \in written /\ dh.epoch # 2 => m \in dh.items /\ (hh.gen # 0 => m \in hh.items)
    /\ m \in written => m \in dh.items \/ m \in chat2
    /\ m \in written /\ hh.gen # 0 => m \in hh.items \/ m \in chat2
    /\ m \in dh.items => m \in written

\* what the seed's check covers
Covered(m) ==
    LET hh == handle[Host]  dh == disk[Host] IN
    /\ seed.at \in {"posted", "checked"} /\ m \in seed.items => m \in chat2
    /\ seed.at = "checked" => ~hh.writer
    /\ seed.at = "checked" /\ (m \in written \/ m \in hh.items \/ m \in s2) => m \in seed.items
    /\ seed.at \in {"rebuilt", "posted"} /\ m \in s2 =>
         IF hh.gen # 0 THEN m \in hh.items ELSE m \in dh.items
    /\ hh.gen = 1 /\ hh.joined /\ m \in s2 => m \in hh.items

\* the viewer holds no message the old room does not
Echoed(m) ==
    /\ handle[Viewer].gen = 1 /\ m \in handle[Viewer].items => m \in s2
    /\ disk[Viewer].epoch # 2 /\ gen[Viewer] = 1 /\ m \in disk[Viewer].items => m \in s2

HistOK(m) == Safe(m) /\ Covered(m) /\ Echoed(m)

HistInv == Calm => \A m \in Messages : HistOK(m)

LEMMA HistStep ==
    ASSUME CutoverShape, GenInv, HistInv, [CutoverNext]_cutoverVars
    PROVE  HistInv'
<1> SUFFICES ASSUME Calm', NEW m \in Messages PROVE HistOK(m)'
  BY DEF HistInv
<1> USE DEF HistOK
<1>c. ASSUME Calm PROVE HistOK(m)
  BY <1>c DEF HistInv
<1>i. /\ NoHandle.items = {} /\ NoHandle.gen = 0 /\ NoSeed.items = {} /\ NoSeed.at = "no"
      /\ ~NoHandle.writer /\ ~NoHandle.joined
  BY DEF NoHandle, NoSeed
<1>g. SeedInv /\ GenByDevice
  BY GenParts DEF GenInv
<1>t. /\ gen[Host] \in 0..2 /\ gen[Viewer] \in 0..2 /\ handle[Host].gen \in 0..2
      /\ handle[Viewer].gen \in 0..2 /\ gen \in [Dev -> 0..2]
  BY HandleFields, DevTwo DEF CutoverShape
\* the host opens: never with a seed under way that its cached handle belongs to
<1>o. ASSUME OpenBranch(Host), UNCHANGED <<s2, chat2, seed, written>>, Calm,
             ~Open(Host) \/ gen[Host] = 2 \/ handle[Host].retired
      PROVE  HistOK(m)'
  <2>1. /\ Thin(Host) \/ OnS2(Host) \/ Adopts(Host) \/ Born(Host)
        /\ handle'[Viewer] = handle[Viewer] /\ disk'[Viewer] = disk[Viewer] /\ gen'[Viewer] = gen[Viewer]
    BY <1>o, Branches, DevTwo
  <2>2. /\ disk[Host].lin \in Lineages /\ disk[Host].items \in SUBSET Items
        /\ (disk[Host].lin = "none" => disk[Host].items = {}) /\ {} \in SUBSET Items
    BY HandleFields, DevTwo DEF CutoverShape
  <2>3. ~Adopts(Host)
    BY <1>g DEF Adopts, SeedInv, RegistryGen
  <2>4. CASE Thin(Host)
    <3>1. /\ handle'[Host].gen = 2 /\ handle'[Host].items = disk[Host].items /\ ~handle'[Host].writer
          /\ disk'[Host] = disk[Host] /\ disk[Host].epoch = 2
      BY <2>2, <2>4, OpenedShape DEF Thin
    <3>2. seed.at \notin {"rebuilt", "posted", "checked"}
      BY <1>g, <3>1 DEF SeedInv
    <3> QED BY <1>c, <1>o, <2>1, <3>1, <3>2 DEF Safe, Covered, Echoed
  <2>5. CASE OnS2(Host)
    <3>1. /\ handle'[Host].gen = 1 /\ handle'[Host].items = disk[Host].items /\ ~handle'[Host].writer
          /\ ~handle'[Host].joined
      BY <2>2, <2>5, OpenedShape DEF OnS2, Lineages
    <3>2. disk'[Host] = disk[Host] /\ disk[Host].epoch = 0 /\ gen[Host] = 1
      BY <2>5 DEF OnS2
    <3>3. handle[Host].gen = 0
      BY <1>g, <1>o, <3>2 DEF SeedInv, Open
    <3> QED BY <1>c, <1>o, <2>1, <3>1, <3>2, <3>3 DEF Safe, Covered, Echoed
  <2>6. CASE Born(Host)
    <3>1. /\ handle'[Host].gen = 2 /\ handle'[Host].items = {} /\ ~handle'[Host].writer
          /\ disk'[Host].items = {} /\ disk'[Host].epoch = 2
      BY <2>2, <2>6, OpenedShape DEF Born, Lineages
    <3>2. disk[Host].epoch = 0 /\ disk[Host].items = {} /\ gen[Host] # 1
      BY <2>2, <2>6 DEF Born, RegistryGen
    <3>3. seed.at \notin {"rebuilt", "posted", "checked"}
      BY <1>g, <3>2 DEF SeedInv
    <3> QED BY <1>c, <1>o, <2>1, <3>1, <3>2, <3>3 DEF Safe, Covered, Echoed
  <2> QED BY <2>1, <2>3, <2>4, <2>5, <2>6
\* the viewer opens
<1>v. ASSUME OpenBranch(Viewer), UNCHANGED <<s2, chat2, seed, written>>, Calm
      PROVE  HistOK(m)'
  <2>1. /\ Thin(Viewer) \/ OnS2(Viewer) \/ Adopts(Viewer) \/ Born(Viewer)
        /\ handle'[Host] = handle[Host] /\ disk'[Host] = disk[Host]
    BY <1>v, Branches, DevTwo
  <2>2. /\ disk[Viewer].lin \in Lineages /\ disk[Viewer].items \in SUBSET Items
        /\ Pending(disk[Viewer].items) \in SUBSET Items /\ {} \in SUBSET Items
    BY HandleFields, DevTwo, ItemSets DEF Pending
  <2>3. \/ /\ handle'[Viewer].gen = 2 /\ disk'[Viewer] = disk[Viewer]
           /\ gen'[Viewer] = 1 => gen[Viewer] = 1
        \/ /\ handle'[Viewer].gen = 1 /\ handle'[Viewer].items = disk[Viewer].items
           /\ disk[Viewer].epoch = 0 /\ gen[Viewer] = 1 /\ disk'[Viewer] = disk[Viewer]
           /\ gen'[Viewer] = gen[Viewer]
        \/ handle'[Viewer].gen = 2 /\ disk'[Viewer].epoch = 2
    <3>1. CASE Thin(Viewer)
      BY <2>2, <3>1, OpenedShape DEF Thin
    <3>2. CASE OnS2(Viewer)
      BY <2>2, <3>2, OpenedShape DEF OnS2, Lineages
    <3>3. CASE Adopts(Viewer)
      BY <2>2, <3>3, OpenedShape DEF Adopts, Lineages
    <3>4. CASE Born(Viewer)
      BY <2>2, <3>4, OpenedShape DEF Born, Lineages
    <3> QED BY <2>1, <3>1, <3>2, <3>3, <3>4
  <2> QED BY <1>c, <1>v, <2>1, <2>3 DEF Safe, Covered, Echoed
<1>1. ASSUME NEW d \in Dev, DoOpen(d) PROVE HistOK(m)'
  <2>1. OpenBranch(d) /\ UNCHANGED <<s2, chat2, seed, written>> /\ Calm
    BY <1>1 DEF DoOpen, Calm
  <2>2. CASE d = Host
    <3>1. ~Open(Host) \/ gen[Host] = 2 \/ handle[Host].retired
      <4>1. ~Cached(Host)
        BY <1>1, <2>2 DEF DoOpen
      <4>2. handle[Host].gen = 1 => gen[Host] # 0
        BY <1>g DEF GenByDevice
      <4> QED BY <1>t, <4>1, <4>2 DEF Cached, RegistryGen
    <3> QED BY <1>o, <2>1, <2>2, <3>1
  <2>3. CASE d = Viewer
    BY <1>v, <2>1, <2>3
  <2> QED BY <2>2, <2>3, DevTwo
\* a save, of a handle that stays or is dropped
<1>s. ASSUME NEW d \in Dev, SaveSnapshot(d), Open(d), UNCHANGED <<s2, chat2, seed, gen, raced, unsealed>>,
             handle'[d] = handle[d] \/ handle'[d] = NoHandle, Others(d)
      PROVE  HistOK(m)'
  <2>0. Calm
    BY <1>s, SnapshotEffect DEF Calm
  <2>1. /\ \A e \in Dev : e # d => disk'[e] = disk[e] /\ handle'[e] = handle[e]
        /\ \/ handle'[d] = handle[d]
           \/ handle'[d].gen = 0 /\ handle'[d].items = {} /\ ~handle'[d].writer
    BY <1>s, <1>i, SnapshotEffect DEF Others
  <2>2. \/ /\ disk'[d].items = handle[d].items /\ disk'[d].epoch = disk[d].epoch
           /\ written' = IF d = Host THEN written \cup (Messages \cap handle[d].items) ELSE written
        \/ /\ handle[d].retired /\ disk[d].epoch = 2 /\ disk'[d] = disk[d] /\ written' = written
    BY <1>s, SnapshotEffect
  <2>3. CASE d = Host
    <3>0. handle'[Viewer] = handle[Viewer] /\ disk'[Viewer] = disk[Viewer] /\ handle[Host].gen # 0
      BY <1>s, <2>1, <2>3, DevTwo DEF Open
    <3>1. CASE disk'[Host] = disk[Host] /\ disk[Host].epoch = 2 /\ written' = written
      <4>1. seed.at \notin {"rebuilt", "posted", "checked"}
        BY <1>g, <3>1 DEF SeedInv
      <4> QED BY <1>c, <1>s, <2>0, <2>1, <2>3, <3>0, <3>1, <4>1 DEF Safe, Covered, Echoed
    <3>2. CASE /\ disk'[Host].items = handle[Host].items /\ disk'[Host].epoch = disk[Host].epoch
               /\ written' = written \cup (Messages \cap handle[Host].items)
      <4>1. m \in written' <=> m \in written \/ m \in handle[Host].items
        BY <3>2
      <4>2. Safe(m)'
        BY <1>c, <1>s, <2>0, <2>1, <2>3, <3>0, <3>2, <4>1 DEF Safe
      <4>3. Covered(m)'
        BY <1>c, <1>s, <2>0, <2>1, <2>3, <3>0, <3>2, <4>1 DEF Covered
      <4>4. Echoed(m)'
        BY <1>c, <1>s, <2>0, <3>0 DEF Echoed
      <4> QED BY <4>2, <4>3, <4>4
    <3> QED BY <2>2, <2>3, <3>1, <3>2
  <2>4. CASE d = Viewer
    <3>0. handle'[Host] = handle[Host] /\ disk'[Host] = disk[Host] /\ written' = written
      BY <2>1, <2>2, <2>4, DevTwo
    <3>1. /\ disk'[Viewer].items = handle[Viewer].items /\ disk'[Viewer].epoch = disk[Viewer].epoch
          /\ handle[Viewer].gen # 0
      BY <1>g, <1>s, <2>2, <2>4, DevTwo DEF GenByDevice, Open
    <3>2. gen[Viewer] = 1 => handle[Viewer].gen = 1
      BY <1>g, <1>t, <3>1 DEF GenByDevice
    <3>3. Safe(m)' /\ Covered(m)'
      BY <1>c, <1>s, <2>0, <3>0 DEF Safe, Covered
    <3>4. Echoed(m)'
      BY <1>c, <1>s, <2>0, <2>1, <2>4, <3>1, <3>2 DEF Echoed
    <3> QED BY <3>3, <3>4
  <2> QED BY <2>3, <2>4, DevTwo
<1>2. ASSUME NEW d \in Dev, Save(d) PROVE HistOK(m)'
  BY <1>2, <1>s DEF Save, Others
<1>3. ASSUME NEW d \in Dev, Evict(d) PROVE HistOK(m)'
  BY <1>3, <1>s, DropEffect DEF Evict
<1>4. ASSUME NEW d \in Dev, Crash(d) PROVE HistOK(m)'
  <2>1. /\ handle'[d].gen = 0 /\ handle'[d].items = {} /\ ~handle'[d].writer
        /\ \A e \in Dev : e # d => handle'[e] = handle[e]
        /\ UNCHANGED <<s2, chat2, disk, gen, written>> /\ Calm
        /\ seed' = (IF d = Host THEN NoSeed ELSE seed)
    BY <1>4, DropEffect DEF Crash, Others, Calm
  <2>2. CASE d = Host
    BY <1>c, <1>i, <2>1, <2>2, DevTwo DEF Safe, Covered, Echoed
  <2>3. CASE d = Viewer
    BY <1>c, <2>1, <2>3, DevTwo DEF Safe, Covered, Echoed
  <2> QED BY <2>2, <2>3, DevTwo
<1>5. ASSUME NEW d \in Dev, SyncS2(d) PROVE HistOK(m)'
  <2>1. /\ handle'[d].items = handle[d].items \cup s2 /\ s2' = s2 \cup handle[d].items
        /\ \A e \in Dev : e # d => handle'[e] = handle[e]
        /\ handle[d].gen = 1 /\ handle'[d].gen = 1 /\ handle'[d].writer = handle[d].writer
        /\ UNCHANGED <<chat2, disk, seed, gen, written>> /\ Calm
    BY <1>5, SyncS2Effect DEF SyncS2, Others, Kept, histVars, Calm
  <2>2. CASE d = Host
    <3>1. Safe(m)'
      BY <1>c, <2>1, <2>2, DevTwo DEF Safe
    <3>2. Covered(m)'
      BY <1>c, <2>1, <2>2, DevTwo DEF Covered
    <3>3. Echoed(m)'
      BY <1>c, <2>1, <2>2, DevTwo DEF Echoed
    <3> QED BY <3>1, <3>2, <3>3
  <2>3. CASE d = Viewer
    BY <1>c, <2>1, <2>3, DevTwo DEF Safe, Covered, Echoed
  <2> QED BY <2>2, <2>3, DevTwo
<1>6. ASSUME NEW d \in Dev, SyncChat2(d) PROVE HistOK(m)'
  <2>1. /\ handle'[d].items = handle[d].items \cup chat2 /\ chat2' = handle[d].items \cup chat2
        /\ disk'[d].items = handle[d].items \cup chat2 /\ handle'[d].gen = 2 /\ handle[d].gen = 2
        /\ \A e \in Dev : e # d => handle'[e] = handle[e] /\ disk'[e] = disk[e]
        /\ disk'[d].epoch = 2 /\ UNCHANGED <<s2, seed, gen>>
    BY <1>6, SyncChat2Effect DEF SyncChat2, Others, Kept
  <2>c. Calm
    BY <1>6 DEF SyncChat2, Calm
  <2>2. CASE d = Host
    <3>1. seed.at \notin {"rebuilt", "posted", "checked"}
      BY <1>g, <2>1, <2>2 DEF SeedInv
    <3>2. m \in written' <=> m \in written \/ m \in handle[Host].items \/ m \in chat2
      BY <1>6, <2>2, SyncChat2Effect
    <3> QED BY <1>c, <2>1, <2>c, <2>2, <3>1, <3>2, DevTwo DEF Safe, Covered, Echoed
  <2>3. CASE d = Viewer
    <3>1. written' = written
      BY <1>6, <2>3, SyncChat2Effect, DevTwo
    <3> QED BY <1>c, <2>1, <2>c, <2>3, <3>1, DevTwo DEF Safe, Covered, Echoed
  <2> QED BY <2>2, <2>3, DevTwo
<1>7. ASSUME NEW d \in Dev, WatcherDrops(d) PROVE HistOK(m)'
  <2>1. CASE d = Host
    <3>1. /\ OpenBranch(Host) /\ UNCHANGED <<s2, chat2, seed, written>> /\ gen[Host] = 2
      BY <1>7, <2>1 DEF WatcherDrops
    <3>2. Calm
      BY <1>7 DEF WatcherDrops, Calm
    <3> QED BY <1>o, <3>1, <3>2
  <2>2. CASE d # Host
    <3>1. /\ handle'[Viewer].gen = 0 /\ handle'[Viewer].items = {}
          /\ handle'[Host] = handle[Host]
          /\ UNCHANGED <<s2, chat2, disk, seed, gen, written>>
      BY <1>7, <2>2, DropEffect, DevTwo DEF WatcherDrops, Others
    <3>2. Calm
      BY <1>7 DEF WatcherDrops, Calm
    <3> QED BY <1>c, <3>1, <3>2 DEF Safe, Covered, Echoed
  <2> QED BY <2>1, <2>2
<1>8. ASSUME NEW d \in Dev, NEW e \in Dev, SyncRow(d, e) PROVE HistOK(m)'
  <2>1. UNCHANGED <<s2, chat2, disk, handle, seed, written>> /\ Calm
    BY <1>8 DEF SyncRow, histVars, Calm
  <2>2. gen'[Viewer] = 1 => gen[Viewer] = 1
    BY <1>g, <1>t, <1>8, DevTwo DEF SyncRow, GenByDevice
  <2> QED BY <1>c, <2>1, <2>2 DEF Safe, Covered, Echoed
<1>9. ASSUME CreateChat PROVE HistOK(m)'
  <2>1. UNCHANGED <<s2, chat2, disk, handle, seed, written>> /\ Calm /\ gen'[Viewer] = gen[Viewer]
    BY <1>9, <1>t, DevTwo DEF CreateChat, histVars, Calm
  <2> QED BY <1>c, <2>1 DEF Safe, Covered, Echoed
<1>10. ASSUME RunStarts PROVE HistOK(m)'
  <2>1. /\ handle'[Host].items = handle[Host].items /\ handle'[Viewer] = handle[Viewer]
        /\ handle'[Host].gen = handle[Host].gen /\ handle'[Host].joined = handle[Host].joined
        /\ UNCHANGED <<s2, chat2, disk, seed, gen, written>>
    BY <1>10, WriterEffect, DevTwo DEF RunStarts, Others, Kept
  <2>2. Calm /\ ~PastCheck
    BY <1>10 DEF RunStarts, Calm
  <2>3. seed.at # "checked"
    BY <2>2 DEF PastCheck
  <2> QED BY <1>c, <2>1, <2>2, <2>3 DEF Safe, Covered, Echoed
<1>11. ASSUME RunWrites PROVE HistOK(m)'
  <2>1. PICK n \in Messages : handle' = [handle EXCEPT ![Host].items = @ \cup {n}]
    BY <1>11 DEF RunWrites
  <2>2. n \in Items
    BY ItemSets
  <2>3. /\ handle'[Host].items = handle[Host].items \cup {n} /\ handle'[Viewer] = handle[Viewer]
        /\ handle'[Host].gen = handle[Host].gen /\ handle'[Host].joined = handle[Host].joined
        /\ handle'[Host].writer = handle[Host].writer
    BY <2>1, <2>2, AddEffect, DevTwo DEF Others, Kept
  <2>4. UNCHANGED <<s2, chat2, disk, seed, gen, written>> /\ Calm /\ handle[Host].writer
    BY <1>11 DEF RunWrites, histVars, Calm
  <2>5. seed.at # "checked"
    BY <1>c, <2>4 DEF Covered
  <2> QED BY <1>c, <2>3, <2>4, <2>5 DEF Safe, Covered, Echoed
<1>12. ASSUME RunEnds PROVE HistOK(m)'
  <2>1. /\ handle'[Host].items = handle[Host].items /\ handle'[Viewer] = handle[Viewer]
        /\ handle'[Host].gen = handle[Host].gen /\ handle'[Host].joined = handle[Host].joined
        /\ ~handle'[Host].writer /\ UNCHANGED <<s2, chat2, disk, seed, gen, written>>
    BY <1>12, WriterEffect, DevTwo DEF RunEnds, Others, Kept, histVars
  <2>2. Calm
    BY <1>12 DEF RunEnds, histVars, Calm
  <2> QED BY <1>c, <2>1, <2>2 DEF Safe, Covered, Echoed
<1>13. ASSUME QueueCommand PROVE HistOK(m)'
  <2>1. PICK b \in Commands : handle' = [handle EXCEPT ![Viewer].items = @ \cup {b}]
    BY <1>13 DEF QueueCommand
  <2>2. b \in Items /\ b # m
    BY ItemSets, ItemsDiffer
  <2>3. /\ handle'[Viewer].items = handle[Viewer].items \cup {b} /\ handle'[Host] = handle[Host]
        /\ handle'[Viewer].gen = handle[Viewer].gen
    BY <2>1, <2>2, AddEffect, DevTwo DEF Others, Kept
  <2>4. UNCHANGED <<s2, chat2, disk, seed, gen, written>> /\ Calm
    BY <1>13 DEF QueueCommand, histVars, Calm
  <2> QED BY <1>c, <2>2, <2>3, <2>4 DEF Safe, Covered, Echoed
<1>14. ASSUME DrainCommands PROVE HistOK(m)'
  <2>1. PICK b \in Commands : handle' = [handle EXCEPT ![Host].items = @ \cup {Resolved(b)}]
    BY <1>14 DEF DrainCommands, Pending
  <2>2. Resolved(b) \in Items /\ Resolved(b) # m
    BY ItemSets, ItemsDiffer DEF Resolved
  <2>3. /\ handle'[Host].items = handle[Host].items \cup {Resolved(b)}
        /\ handle'[Viewer] = handle[Viewer] /\ handle'[Host].writer = handle[Host].writer
        /\ handle'[Host].gen = handle[Host].gen /\ handle'[Host].joined = handle[Host].joined
    BY <2>1, <2>2, AddEffect, DevTwo DEF Others, Kept
  <2>4. UNCHANGED <<s2, chat2, disk, seed, gen, written>> /\ Calm
    BY <1>14 DEF DrainCommands, histVars, Calm
  <2> QED BY <1>c, <2>2, <2>3, <2>4 DEF Safe, Covered, Echoed
<1>15. ASSUME SeedRebuilds PROVE HistOK(m)'
  <2>1. /\ seed'.items = handle[Host].items /\ seed'.at = "rebuilt" /\ handle[Host].gen = 1
        /\ handle[Host].joined /\ UNCHANGED <<s2, chat2, disk, handle, gen, written>> /\ Calm
    BY <1>15 DEF SeedRebuilds, histVars, Calm
  <2> QED BY <1>c, <2>1 DEF Safe, Covered, Echoed
<1>16. ASSUME SeedPosts PROVE HistOK(m)'
  <2>1. /\ seed.at = "rebuilt" /\ UNCHANGED <<s2, disk, handle, gen, written>> /\ Calm
        /\ \/ chat2' = seed.items /\ seed'.at = "posted" /\ seed'.items = seed.items
           \/ chat2' = chat2 /\ seed'.at = "no"
    BY <1>i, <1>16, SeedMoves DEF SeedPosts, histVars, Calm
  <2>2. disk[Host].epoch # 2
    BY <1>g, <2>1 DEF SeedInv
  <2> QED BY <1>c, <2>1, <2>2 DEF Safe, Covered, Echoed
<1>17. ASSUME SeedChecks PROVE HistOK(m)'
  <2>1. /\ seed.at = "posted" /\ UNCHANGED <<s2, chat2, disk, handle, gen, written>>
        /\ \/ Sealed /\ seed'.at = "checked" /\ seed'.items = seed.items
           \/ seed'.at = "no"
    BY <1>i, <1>17, SeedMoves DEF SeedChecks
  <2>2. Calm /\ (Sealed => Open(Host))
    BY <1>17 DEF SeedChecks, Calm
  <2>3. disk[Host].epoch # 2
    BY <1>g, <2>1 DEF SeedInv
  <2>4. CASE seed'.at = "no"
    BY <1>c, <2>1, <2>2, <2>4 DEF Safe, Covered, Echoed
  <2>5. CASE Sealed /\ seed'.at = "checked" /\ seed'.items = seed.items
    <3>1. handle[Host].gen # 0 /\ ~handle[Host].writer /\ handle[Host].items = seed.items
      BY <2>2, <2>5 DEF Sealed, Open, Pinned
    <3> QED BY <1>c, <2>1, <2>2, <2>3, <2>5, <3>1 DEF Safe, Covered, Echoed
  <2> QED BY <2>1, <2>4, <2>5
<1>18. ASSUME SeedSaves PROVE HistOK(m)'
  <2>1. /\ disk'[Host].items = seed.items /\ disk'[Host].epoch = 2 /\ disk'[Viewer] = disk[Viewer]
        /\ seed.at = "checked" /\ seed'.at = "saved"
        /\ UNCHANGED <<s2, chat2, handle, gen>>
    BY <1>18, SeedSavesEffect, DevTwo DEF SeedSaves
  <2>2. Calm
    BY <1>18 DEF SeedSaves, Calm
  <2>3. m \in written' <=> m \in written \/ m \in seed.items
    BY <1>18 DEF SeedSaves
  <2> QED BY <1>c, <2>1, <2>2, <2>3 DEF Safe, Covered, Echoed
<1>19. ASSUME SeedFlips PROVE HistOK(m)'
  <2>1. /\ seed'.at = "flipped" /\ UNCHANGED <<s2, chat2, disk, handle, written>> /\ Calm
        /\ gen'[Viewer] = gen[Viewer]
    BY <1>19, <1>t, SeedMoves, DevTwo DEF SeedFlips, histVars, Calm
  <2> QED BY <1>c, <2>1 DEF Safe, Covered, Echoed
<1>20. ASSUME SeedRetires PROVE HistOK(m)'
  <2>1. /\ \/ handle'[Host].gen = 0
           \/ /\ handle'[Host].gen = handle[Host].gen /\ handle'[Host].items = handle[Host].items
              /\ handle'[Host].joined = handle[Host].joined
        /\ handle'[Viewer] = handle[Viewer] /\ seed'.at = "no"
        /\ UNCHANGED <<s2, chat2, disk, gen, written>>
    BY <1>i, <1>20, RetireEffect, DevTwo DEF SeedRetires, Others
  <2>2. Calm
    BY <1>20 DEF SeedRetires, Calm
  <2> QED BY <1>c, <2>1, <2>2 DEF Safe, Covered, Echoed
<1>21. ASSUME UNCHANGED cutoverVars PROVE HistOK(m)'
  <2>1. UNCHANGED <<s2, chat2, disk, handle, gen, seed, written>> /\ Calm
    BY <1>21 DEF cutoverVars, histVars, Calm
  <2> QED BY <1>c, <2>1 DEF Safe, Covered, Echoed
<1> QED
  BY <1>1, <1>2, <1>3, <1>4, <1>5, <1>6, <1>7, <1>8, <1>9, <1>10, <1>11, <1>12, <1>13, <1>14,
     <1>15, <1>16, <1>17, <1>18, <1>19, <1>20, <1>21 DEF CutoverNext

\* Only messages count as written.
LEMMA WrittenStep ==
    ASSUME CutoverShape, written \subseteq Messages, [CutoverNext]_cutoverVars
    PROVE  written' \subseteq Messages
<1>1. ASSUME NEW d \in Dev, SaveSnapshot(d) PROVE written' \subseteq Messages
  BY <1>1 DEF SaveSnapshot
<1>2. ASSUME NEW d \in Dev, Save(d) \/ Evict(d) PROVE written' \subseteq Messages
  BY <1>1, <1>2 DEF Save, Evict
<1>3. ASSUME NEW d \in Dev, SyncChat2(d) PROVE written' \subseteq Messages
  BY <1>3, SyncChat2Effect
<1>4. ASSUME NEW d \in Dev, DoOpen(d) \/ Crash(d) \/ SyncS2(d) \/ WatcherDrops(d)
      PROVE  written' \subseteq Messages
  BY <1>4 DEF DoOpen, Crash, SyncS2, WatcherDrops, histVars
<1>5. ASSUME NEW d \in Dev, NEW e \in Dev, SyncRow(d, e) PROVE written' \subseteq Messages
  BY <1>5 DEF SyncRow, histVars
<1>6. ASSUME CreateChat \/ RunStarts \/ RunWrites \/ RunEnds \/ QueueCommand \/ DrainCommands
      PROVE  written' \subseteq Messages
  BY <1>6 DEF CreateChat, RunStarts, RunWrites, RunEnds, QueueCommand, DrainCommands, histVars
<1>7. ASSUME SeedSaves PROVE written' \subseteq Messages
  BY <1>7 DEF SeedSaves
<1>8. ASSUME SeedRebuilds \/ SeedPosts \/ SeedChecks \/ SeedFlips \/ SeedRetires
      PROVE  written' \subseteq Messages
  BY <1>8 DEF SeedRebuilds, SeedPosts, SeedChecks, SeedFlips, SeedRetires, histVars
<1>9. ASSUME UNCHANGED cutoverVars PROVE written' \subseteq Messages
  BY <1>9 DEF cutoverVars, histVars
<1> QED
  BY <1>2, <1>3, <1>4, <1>5, <1>6, <1>7, <1>8, <1>9 DEF CutoverNext

HistoryInv == CutoverShape /\ GenInv /\ CmdInv /\ HistInv /\ written \subseteq Messages

LEMMA HistoryInitial == ASSUME CutoverInit PROVE HistoryInv
<1>1. CutoverShape /\ GenInv
  BY CutoverInitial
<1>2. /\ disk[Host].items = {} /\ disk[Viewer].items = {} /\ handle[Host].items = {}
      /\ handle[Viewer].items = {} /\ handle[Host].gen = 0 /\ handle[Viewer].gen = 0
      /\ seed.items = {} /\ seed.at = "no" /\ s2 = {} /\ chat2 = {} /\ written = {}
  <2>1. /\ disk[Host] = NoDoc /\ disk[Viewer] = NoDoc /\ handle[Host] = NoHandle
        /\ handle[Viewer] = NoHandle /\ seed = NoSeed
    BY DevTwo DEF CutoverInit
  <2>2. NoDoc.items = {} /\ NoHandle.items = {} /\ NoHandle.gen = 0
    BY DEF NoDoc, NoHandle
  <2>3. NoSeed.items = {} /\ NoSeed.at = "no"
    BY DEF NoSeed
  <2> QED BY <2>1, <2>2, <2>3 DEF CutoverInit
<1>3. CmdInv
  BY <1>2 DEF CmdInv, CmdOK, Reached, Settled
<1>4. HistInv
  BY <1>2 DEF HistInv, HistOK, Safe, Covered, Echoed
<1> QED BY <1>1, <1>2, <1>3, <1>4 DEF HistoryInv

LEMMA HistoryConsequence == ASSUME HistoryInv PROVE HistorySurvives
<1>1. ASSUME Calm, NEW m \in written PROVE m \in disk[Host].items \cup chat2
  BY <1>1 DEF HistoryInv, HistInv, HistOK, Safe
<1>4. ASSUME Calm, Open(Host), NEW m \in written PROVE m \in handle[Host].items \cup chat2
  BY <1>4 DEF HistoryInv, HistInv, HistOK, Safe, Open
<1>2. ASSUME NEW c \in Commands \cap (s2 \cup chat2)
      PROVE  c \in processed \cup unsaved \cup handle[Viewer].items \cup disk[Viewer].items
  <2>1. CmdOK(c) /\ Reached(c)
    BY DEF HistoryInv, CmdInv, Reached
  <2> QED BY <2>1 DEF CmdOK
<1>3. Calm => /\ written \subseteq disk[Host].items \cup chat2
              /\ Open(Host) => written \subseteq handle[Host].items \cup chat2
  <2>1. ASSUME Calm PROVE written \subseteq disk[Host].items \cup chat2
    BY <1>1, <2>1
  <2>2. ASSUME Calm, Open(Host) PROVE written \subseteq handle[Host].items \cup chat2
    BY <1>4, <2>2
  <2> QED BY <2>1, <2>2
<1> QED BY <1>2, <1>3 DEF HistorySurvives, Calm

\* A message that reached the host's disk is still within its reach after any
\* interleaving of the seed with runs, saves, evictions, crashes and late rows
\* (doc_host.rs, but for the three windows the histories name), and a command
\* the viewer queued is executed or still where it will reach the host.
THEOREM HistoryAlwaysSurvives == CutoverSpec => []HistorySurvives
<1>1. CutoverInit => HistoryInv
  BY HistoryInitial
<1>2. HistoryInv /\ [CutoverNext]_cutoverVars => HistoryInv'
  BY ShapeStep, GenStep, CmdStep, HistStep, WrittenStep DEF HistoryInv
<1>3. HistoryInv => HistorySurvives
  BY HistoryConsequence
<1> QED BY <1>1, <1>2, <1>3, PTL DEF CutoverSpec
=============================================================================
