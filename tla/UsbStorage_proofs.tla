-------------------------- MODULE UsbStorage_proofs --------------------------
(***************************************************************************)
(* Theorems about the volumes of usbhdfsd and the two layers below them:   *)
(* the cache of sectors, for any number of slots, blocks and sectors in a  *)
(* block; the transport to the device, for every retry count, number of    *)
(* faults and set of faults that the drivers live through; and the         *)
(* directories, for any number and size of files, names and handles, and   *)
(* the tree of names they hold.                                            *)
(***************************************************************************)
EXTENDS BulkOnly, SCache, FatDir, SequenceTheorems, FiniteSetTheorems, WellFoundedInduction, TLAPS

(***************************************************************************)
(* The cache                                                               *)
(***************************************************************************)

\* What a sector to be cleared tells: it is the next one when it is held, and
\* a block that has been begun is cached and the first of those left.
ClearInOrder ==
  /\ todo # {} /\ held # NoHeld => FirstOf(todo, held.block, held.offset)
  /\ \A b \in Blocks, o \in Offsets : <<b, o>> \in todo /\ Clearing(b) =>
       Cached(b) /\ \A s \in todo : b <= s[1]

\* What is being cleared is a cluster.
ClusterKnown == todo # {} => cluster \in Clusters

CacheIInv == CacheTypeOK /\ CacheCoherent /\ ClearInOrder /\ ClusterKnown

-----------------------------------------------------------------------------
(* The records.                                                            *)

\* The block -1 of an empty slot is no block.
LEMMA NoBlockIsNone == NoBlock \notin Blocks
BY SCacheAssumption DEF NoBlock, Blocks

\* A held sector is a sector, in a slot.
LEMMA HeldIs ==
  ASSUME CacheTypeOK, held # NoHeld
  PROVE  held.block \in Blocks /\ held.offset \in Offsets /\ held.slot \in Slots
BY DEF CacheTypeOK, Helds

\* What a call holds is a sector, and its block is not that of NoHeld.
LEMMA HoldIs ==
  ASSUME NEW b \in Blocks, NEW o \in Offsets, NEW i \in Slots
  PROVE  /\ Hold(b, o, i) \in Helds /\ Hold(b, o, i) # NoHeld
         /\ Hold(b, o, i).block = b /\ Hold(b, o, i).offset = o /\ Hold(b, o, i).slot = i
BY NoBlockIsNone DEF Hold, Helds, NoHeld

\* A call that looks a block up keeps every tax in the bound.
LEMMA TaxedIs ==
  ASSUME CacheTypeOK, TaxInBounds, NEW b \in Blocks
  PROVE  /\ Taxed(b) \in [Slots -> -MaxTax..MaxTax]
         /\ ~Cached(b) => \A i \in Slots : Taxed(b)[i] + 2 \in -MaxTax..MaxTax
BY SCacheAssumption DEF CacheTypeOK, TaxInBounds, Taxed, Cached

\* The device after an eviction: blocks, of which only the evicted one differs.
LEMMA EvictedIs ==
  ASSUME CacheTypeOK, CacheCoherent, NEW i \in Slots
  PROVE  /\ Evicted(i) \in [Blocks -> [Offsets -> Contents]]
         /\ \A b \in Blocks : sector[i] # b => Evicted(i)[b] = disk[b]
         /\ i \in dirty => sector[i] \in Blocks /\ Evicted(i)[sector[i]] = sectorBuf[i]
BY DEF CacheTypeOK, CacheCoherent, DirtyFlagged, Evicted

\* A new slot for a block keeps the types.
LEMMA ReplaceTypes ==
  ASSUME CacheTypeOK, CacheCoherent, TaxInBounds, NEW b \in Blocks, ~Cached(b), NEW i \in Slots,
         NEW data \in [Offsets -> Contents], Replace(b, i, data)
  PROVE  /\ disk' \in [Blocks -> [Offsets -> Contents]]
         /\ sector' \in [Slots -> Blocks \cup {NoBlock}]
         /\ tax' \in [Slots -> -MaxTax..MaxTax]
         /\ dirty' \subseteq Slots
         /\ sectorBuf' \in [Slots -> [Offsets -> Contents]]
<1>1. tax' \in [Slots -> -MaxTax..MaxTax]
  BY TaxedIs DEF Replace
<1>. QED
  BY <1>1, EvictedIs DEF CacheTypeOK, Replace

\* A block that is not cached gets the only slot of its own, and the clean
\* slots of the others are left as they are on the device.
LEMMA ReplaceKeeps ==
  ASSUME CacheTypeOK, CacheCoherent, NEW b \in Blocks, ~Cached(b), NEW i \in Slots,
         NEW data \in [Offsets -> Contents], Replace(b, i, data)
  PROVE  /\ OneSlot'
         /\ sector'[i] = b /\ sectorBuf'[i] = data
         /\ \A j \in Slots \ {i} : sector'[j] = sector[j] /\ sectorBuf'[j] = sectorBuf[j]
         /\ \A j \in Slots \ {i} : sector[j] # NoBlock => disk'[sector[j]] = disk[sector[j]]
<1>1. /\ sector'[i] = b /\ sectorBuf'[i] = data
      /\ \A j \in Slots \ {i} : sector'[j] = sector[j] /\ sectorBuf'[j] = sectorBuf[j]
  BY DEF CacheTypeOK, Replace
<1>2. OneSlot'
  BY <1>1 DEF CacheCoherent, OneSlot, Cached
<1>3. ASSUME NEW j \in Slots \ {i}, sector[j] # NoBlock
      PROVE  disk'[sector[j]] = disk[sector[j]]
  <2>1. sector[j] \in Blocks
    BY <1>3 DEF CacheTypeOK
  <2>2. sector[i] # sector[j]
    BY <1>3 DEF CacheCoherent, OneSlot
  <2>. QED
    BY <2>1, <2>2, EvictedIs DEF Replace
<1>. QED
  BY <1>1, <1>2, <1>3

-----------------------------------------------------------------------------
(* The initial state and the calls.                                        *)

\* The cache starts empty.
LEMMA InitIInv == CacheInit => CacheIInv
<1>. SUFFICES ASSUME CacheInit PROVE CacheIInv
  OBVIOUS
<1>1. Format \in [Blocks -> [Offsets -> Contents]] /\ mallocBuf \in [Slots -> [Offsets -> Contents]]
  BY SCacheAssumption DEF Format, mallocBuf, Garbage, Contents, Blocks, Offsets, Slots, NoBlock
<1>2. CacheTypeOK
  <2>1. tax \in [Slots -> -MaxTax..MaxTax] /\ sector \in [Slots -> Blocks \cup {NoBlock}]
    BY SCacheAssumption DEF CacheInit
  <2>. QED
    BY <1>1, <2>1 DEF CacheInit, CacheTypeOK
<1>3. CacheCoherent
  BY DEF CacheInit, CacheCoherent, OneSlot, CleanOnDisk, DirtyFlagged, HeldTagged
<1>4. ClearInOrder /\ ClusterKnown
  BY DEF CacheInit, ClearInOrder, ClusterKnown
<1>. QED
  BY <1>2, <1>3, <1>4 DEF CacheIInv

\* A read puts a sector of the device in a slot of its block.
LEMMA ReadKeeps ==
  ASSUME CacheIInv, NEW b \in Blocks, NEW o \in Offsets, ReadSector(b, o)
  PROVE  CacheIInv'
<1>. USE DEF CacheIInv
<1>1. todo = {} /\ todo' = {} /\ cluster' = cluster /\ writeFlag' = writeFlag
  BY DEF ReadSector
<1>2. ClearInOrder' /\ ClusterKnown' /\ (todo' \subseteq cluster' /\ cluster' \subseteq Sectors)
  BY <1>1 DEF ClearInOrder, ClusterKnown, CacheTypeOK
<1>3. PICK i \in Slots : /\ held' = Hold(b, o, i)
                         /\ Hit(b, i) \/ (~Cached(b) /\ Replace(b, i, Evicted(i)[b]))
  BY DEF ReadSector
<1>4. CASE Hit(b, i)
  <2>1. tax' \in [Slots -> -MaxTax..MaxTax]
    BY <1>4, TaxedIs DEF Hit, ReadSector
  <2>2. CacheTypeOK'
    BY <1>1, <1>2, <1>3, <1>4, <2>1, HoldIs DEF Hit, CacheTypeOK
  <2>3. OneSlot' /\ CleanOnDisk' /\ DirtyFlagged'
    BY <1>1, <1>4 DEF Hit, CacheCoherent, OneSlot, CleanOnDisk, DirtyFlagged
  <2>4. HeldTagged'
    BY <1>3, <1>4, HoldIs DEF Hit, HeldTagged
  <2>. QED
    BY <1>2, <2>2, <2>3, <2>4 DEF CacheCoherent
<1>5. CASE ~Cached(b) /\ Replace(b, i, Evicted(i)[b])
  <2>1. Evicted(i)[b] \in [Offsets -> Contents]
    BY EvictedIs
  <2>2. CacheTypeOK'
    BY <1>1, <1>2, <1>3, <1>5, <2>1, ReplaceTypes, HoldIs DEF ReadSector, CacheTypeOK
  <2>3. OneSlot'
    BY <1>5, <2>1, ReplaceKeeps
  <2>4. CleanOnDisk'
    <3>1. dirty' = dirty \ {i} /\ disk' = Evicted(i) /\ disk'[b] = Evicted(i)[b]
      BY <1>5 DEF Replace
    <3>. QED
      BY <1>1, <1>5, <2>1, <3>1, ReplaceKeeps DEF CacheCoherent, CleanOnDisk
  <2>5. DirtyFlagged'
    <3>1. dirty' = dirty \ {i}
      BY <1>5 DEF Replace
    <3>. QED
      BY <1>1, <1>5, <2>1, <3>1, ReplaceKeeps DEF CacheCoherent, DirtyFlagged, CacheTypeOK
  <2>6. HeldTagged'
    BY <1>3, <1>5, <2>1, ReplaceKeeps, HoldIs DEF HeldTagged
  <2>. QED
    BY <1>2, <2>2, <2>3, <2>4, <2>5, <2>6 DEF CacheCoherent
<1>. QED
  BY <1>3, <1>4, <1>5

\* An alloc that misses finds the block not begun, so that all its sectors are
\* still to be cleared, and the block that makes room is another one.
LEMMA AllocKeeps ==
  ASSUME CacheIInv, Aligned, NEW b \in Blocks, NEW o \in Offsets, AllocSector(b, o)
  PROVE  CacheIInv'
<1>. USE DEF CacheIInv
<1>1. /\ FirstOf(todo, b, o) /\ held = NoHeld /\ <<b, o>> \in todo
      /\ todo' = todo /\ cluster' = cluster /\ writeFlag' = writeFlag
  BY DEF AllocSector, FirstOf
<1>2. ClusterKnown' /\ (todo' \subseteq cluster' /\ cluster' \subseteq Sectors)
  BY <1>1 DEF ClusterKnown, CacheTypeOK
<1>3. PICK i \in Slots : /\ held' = Hold(b, o, i)
                         /\ Hit(b, i) \/ (~Cached(b) /\ Replace(b, i, sectorBuf[i]))
  BY DEF AllocSector
<1>4. \A x \in Blocks : Clearing(x)' <=> x = b \/ Clearing(x)
  <2>1. held'.block = b /\ \A x \in Blocks : held.block # x
    BY <1>1, <1>3, HoldIs, NoBlockIsNone DEF NoHeld
  <2>2. todo # {}
    BY <1>1
  <2>. QED
    BY <1>1, <2>1, <2>2 DEF Clearing
<1>5. sector'[i] = b
  BY <1>3, ReplaceKeeps DEF Hit, CacheTypeOK
<1>6. ClearInOrder'
  <2>1. FirstOf(todo, held.block, held.offset)'
    BY <1>1, <1>3, HoldIs DEF FirstOf
  <2>2. ASSUME NEW x \in Blocks, NEW p \in Offsets, <<x, p>> \in todo, x = b \/ Clearing(x)
        PROVE  Cached(x)' /\ \A s \in todo : x <= s[1]
    <3>1. x = b
      <4>1. ASSUME Clearing(x) PROVE x <= b
        <5>1. x <= <<b, o>>[1]
          BY <1>1, <2>2, <4>1 DEF ClearInOrder
        <5>. QED
          BY <5>1
      <4>2. b <= x
        <5>1. b < <<x, p>>[1] \/ b = <<x, p>>[1]
          BY <1>1, <2>2 DEF FirstOf
        <5>. QED
          BY <5>1, SCacheAssumption DEF Blocks
      <4>. QED
        BY <2>2, <4>1, <4>2, SCacheAssumption DEF Blocks
    <3>2. Cached(x)'
      BY <1>5, <3>1 DEF Cached
    <3>3. \A s \in todo : b <= s[1]
      BY <1>1, SCacheAssumption DEF FirstOf, CacheTypeOK, Sectors, Blocks
    <3>. QED
      BY <3>1, <3>2, <3>3
  <2>. QED
    BY <1>1, <1>4, <2>1, <2>2 DEF ClearInOrder
<1>7. CASE Hit(b, i)
  <2>1. tax' \in [Slots -> -MaxTax..MaxTax]
    BY <1>7, TaxedIs DEF Hit, AllocSector
  <2>2. CacheTypeOK'
    BY <1>1, <1>2, <1>3, <1>7, <2>1, HoldIs DEF Hit, CacheTypeOK
  <2>3. OneSlot' /\ DirtyFlagged'
    BY <1>1, <1>7 DEF Hit, CacheCoherent, OneSlot, DirtyFlagged
  <2>4. CleanOnDisk'
    BY <1>1, <1>4, <1>7 DEF Hit, CacheCoherent, CleanOnDisk, CacheTypeOK
  <2>5. HeldTagged'
    BY <1>3, <1>5, HoldIs DEF HeldTagged
  <2>. QED
    BY <1>2, <1>6, <2>2, <2>3, <2>4, <2>5 DEF CacheCoherent
<1>8. CASE ~Cached(b) /\ Replace(b, i, sectorBuf[i])
  <2>1. sectorBuf[i] \in [Offsets -> Contents]
    BY DEF CacheTypeOK
  <2>2. CacheTypeOK'
    BY <1>1, <1>2, <1>3, <1>8, <2>1, ReplaceTypes, HoldIs DEF AllocSector, CacheTypeOK
  <2>3. OneSlot'
    BY <1>8, <2>1, ReplaceKeeps
  <2>4. dirty' = dirty \ {i}
    BY <1>8 DEF Replace
  <2>5. \A p \in Offsets : <<b, p>> \in todo
    BY <1>1, <1>8 DEF ClearInOrder, ClusterKnown, Aligned, Clearing, CacheTypeOK
  <2>6. CleanOnDisk'
    BY <1>1, <1>4, <1>8, <2>1, <2>4, <2>5, ReplaceKeeps DEF CacheCoherent, CleanOnDisk, CacheTypeOK
  <2>7. DirtyFlagged'
    BY <1>1, <1>8, <2>1, <2>4, ReplaceKeeps DEF CacheCoherent, DirtyFlagged, CacheTypeOK
  <2>8. HeldTagged'
    BY <1>3, <1>5, HoldIs DEF HeldTagged
  <2>. QED
    BY <1>2, <1>6, <2>2, <2>3, <2>6, <2>7, <2>8 DEF CacheCoherent
<1>. QED
  BY <1>3, <1>7, <1>8

\* The slot that is written is the one slot of the block, where the pointer is.
LEMMA WriteIs ==
  ASSUME CacheIInv, WriteSector
  PROVE  /\ held # NoHeld /\ held' = NoHeld
         /\ held.block \in Blocks /\ held.offset \in Offsets /\ held.slot \in Slots
         /\ sector[held.slot] = held.block
         /\ tax' = [tax EXCEPT ![held.slot] = @ + 2]
         /\ dirty' = dirty \cup {held.slot} /\ writeFlag'
         /\ todo' = todo \ {<<held.block, held.offset>>}
         /\ cluster' = IF todo' = {} THEN {} ELSE cluster
         /\ UNCHANGED <<disk, sector>>
<1>1. held # NoHeld /\ sector[held.slot] = held.block
  BY DEF WriteSector, CacheIInv, CacheCoherent, HeldTagged
<1>2. held.block \in Blocks /\ held.offset \in Offsets /\ held.slot \in Slots
  BY <1>1, HeldIs DEF CacheIInv
<1>3. Cached(held.block)
  BY <1>1, <1>2 DEF Cached
<1>4. \A j \in Slots : sector[j] = held.block => j = held.slot
  BY <1>1, <1>2, NoBlockIsNone DEF CacheIInv, CacheCoherent, OneSlot
<1>. QED
  BY <1>1, <1>2, <1>3, <1>4 DEF WriteSector

\* The held sector has a new content, and no other.
LEMMA WriteBuf ==
  ASSUME CacheIInv, WriteSector
  PROVE  /\ sectorBuf' \in [Slots -> [Offsets -> Contents]]
         /\ sectorBuf' = [sectorBuf EXCEPT ![held.slot][held.offset] =
              IF todo = {} THEN Changed(sectorBuf[held.slot][held.offset]) ELSE Zero]
<1>1. held.block \in Blocks /\ held.offset \in Offsets /\ held.slot \in Slots
  BY WriteIs
<1>2. sectorBuf[held.slot][held.offset] \in Contents
  BY <1>1 DEF CacheIInv, CacheTypeOK
<1>3. Changed(sectorBuf[held.slot][held.offset]) \in Contents /\ Zero \in Contents
  BY <1>2, SCacheAssumption DEF Changed, Zero, Contents, Offsets
<1>. DEFINE new == IF todo = {} THEN Changed(sectorBuf[held.slot][held.offset]) ELSE Zero
<1>4. sectorBuf' = [sectorBuf EXCEPT ![held.slot][held.offset] = new]
  BY DEF WriteSector
<1>5. new \in Contents
  BY <1>3
<1>. HIDE DEF new
<1>6. sectorBuf' \in [Slots -> [Offsets -> Contents]]
  BY <1>1, <1>4, <1>5 DEF CacheIInv, CacheTypeOK
<1>. QED
  BY <1>4, <1>6 DEF new

\* A block stays begun until its last sector is written, and only the block
\* that is written is begun by it.
LEMMA WriteClearing ==
  ASSUME CacheIInv, WriteSector, NEW x \in Blocks, todo' # {}
  PROVE  /\ Clearing(x)' => Clearing(x)
         /\ Clearing(x) => Clearing(x)'
<1>1. /\ held # NoHeld /\ held' = NoHeld /\ held'.block # x
      /\ todo' = todo \ {<<held.block, held.offset>>} /\ cluster' = cluster
      /\ held.block \in Blocks /\ held.offset \in Offsets
  BY WriteIs, NoBlockIsNone DEF NoHeld
<1>2. todo # {}
  BY <1>1
<1>3. <<held.block, held.offset>> \in todo /\ todo \subseteq cluster
  BY <1>1, <1>2 DEF CacheIInv, ClearInOrder, FirstOf, CacheTypeOK
<1>4. ASSUME Clearing(x)' PROVE Clearing(x)
  <2>1. PICK q \in Offsets : <<x, q>> \in cluster \ todo'
    BY <1>1, <1>4 DEF Clearing
  <2>2. CASE <<x, q>> \in todo
    <3>1. held.block = x
      BY <1>1, <2>1, <2>2
    <3>. QED
      BY <1>2, <3>1 DEF Clearing
  <2>3. CASE <<x, q>> \notin todo
    BY <1>2, <2>1, <2>3 DEF Clearing
  <2>. QED
    BY <2>2, <2>3
<1>5. ASSUME Clearing(x) PROVE Clearing(x)'
  <2>1. CASE held.block = x
    BY <1>1, <1>3, <2>1 DEF Clearing
  <2>2. CASE held.block # x
    BY <1>1, <1>5, <2>2 DEF Clearing
  <2>. QED
    BY <2>1, <2>2
<1>. QED
  BY <1>4, <1>5

\* A write dirties the slot it changes and raises the flag; the order in which
\* a cluster is cleared goes on.
LEMMA WriteKeeps ==
  ASSUME CacheIInv, WriteSector
  PROVE  CacheIInv'
<1>. USE DEF CacheIInv
<1>1. CacheTypeOK'
  <2>1. tax' \in [Slots -> -MaxTax..MaxTax]
    BY WriteIs, SCacheAssumption DEF WriteSector, TaxInBounds, CacheTypeOK
  <2>2. todo' \subseteq cluster' /\ cluster' \subseteq Sectors
    BY WriteIs DEF CacheTypeOK
  <2>. QED
    BY <2>1, <2>2, WriteIs, WriteBuf DEF CacheTypeOK
<1>2. OneSlot' /\ DirtyFlagged'
  BY WriteIs, NoBlockIsNone DEF CacheCoherent, OneSlot, DirtyFlagged
<1>3. HeldTagged'
  BY WriteIs DEF HeldTagged
<1>4. CleanOnDisk'
  <2>. SUFFICES ASSUME NEW j \in Slots, j \notin dirty', NEW x \in Blocks, sector[j] = x,
                       NEW p \in Offsets, ~(<<x, p>> \in todo' /\ Clearing(x)')
                PROVE  sectorBuf'[j][p] = disk[x][p]
    <3>1. sector' = sector /\ disk' = disk
      BY WriteIs
    <3>2. \A j \in Slots : sector[j] # NoBlock => sector[j] \in Blocks
      BY DEF CacheTypeOK
    <3>. QED
      BY <3>1, <3>2 DEF CleanOnDisk, Clearing
  <2>1. j \notin dirty /\ j # held.slot /\ x # held.block
    BY WriteIs, NoBlockIsNone DEF CacheCoherent, OneSlot
  <2>2. sectorBuf'[j][p] = sectorBuf[j][p]
    BY <2>1, WriteBuf, WriteIs DEF CacheTypeOK
  <2>3. ASSUME <<x, p>> \in todo, Clearing(x) PROVE FALSE
    <3>1. <<x, p>> \in todo'
      BY <2>1, <2>3, WriteIs
    <3>2. todo' # {}
      BY <3>1
    <3>. QED
      BY <2>3, <3>1, <3>2, WriteClearing
  <2>. QED
    BY <2>1, <2>2, <2>3, NoBlockIsNone DEF CacheCoherent, CleanOnDisk
<1>5. ClearInOrder'
  <2>. SUFFICES ASSUME NEW b \in Blocks, NEW o \in Offsets, <<b, o>> \in todo', Clearing(b)'
                PROVE  Cached(b)' /\ \A s \in todo' : b <= s[1]
    BY WriteIs DEF ClearInOrder
  <2>1. todo' # {} /\ <<b, o>> \in todo /\ todo' \subseteq todo
    BY WriteIs
  <2>2. Clearing(b)
    BY <2>1, WriteClearing
  <2>3. Cached(b) /\ \A s \in todo : b <= s[1]
    BY <2>1, <2>2 DEF ClearInOrder
  <2>. QED
    BY <2>1, <2>3, WriteIs DEF Cached
<1>6. ClusterKnown'
  BY WriteIs DEF ClusterKnown
<1>. QED
  BY <1>1, <1>2, <1>3, <1>4, <1>5, <1>6 DEF CacheCoherent

\* What a flush leaves on the device: the slot of each block that has one.
LEMMA FlushIs ==
  ASSUME CacheIInv, FlushSectors
  PROVE  /\ disk' \in [Blocks -> [Offsets -> Contents]]
         /\ \A b \in Blocks : ~Cached(b) => disk'[b] = disk[b]
         /\ \A i \in Slots : sector[i] # NoBlock => disk'[sector[i]] = sectorBuf[i]
         /\ dirty' = {}
<1>. USE DEF CacheIInv
<1>1. todo = {}
  BY DEF FlushSectors
<1>2. \A i \in Slots \ dirty : sector[i] # NoBlock => sectorBuf[i] = disk[sector[i]]
  <2>. SUFFICES ASSUME NEW i \in Slots \ dirty, sector[i] # NoBlock
                PROVE  sectorBuf[i] = disk[sector[i]]
    OBVIOUS
  <2>1. \A o \in Offsets : sectorBuf[i][o] = disk[sector[i]][o]
    BY <1>1 DEF CacheCoherent, CleanOnDisk
  <2>2. sector[i] \in Blocks
    BY DEF CacheTypeOK
  <2>3. sectorBuf[i] \in [Offsets -> Contents] /\ disk[sector[i]] \in [Offsets -> Contents]
    BY <2>2 DEF CacheTypeOK
  <2>. QED
    BY <2>1, <2>3
<1>3. CASE ~writeFlag
  <2>1. dirty = {}
    BY <1>3 DEF CacheCoherent, DirtyFlagged, CacheTypeOK
  <2>2. UNCHANGED <<disk, dirty>>
    BY <1>3 DEF FlushSectors
  <2>. QED
    BY <1>2, <2>1, <2>2 DEF CacheTypeOK
<1>4. CASE writeFlag
  <2>. DEFINE S(b) == CHOOSE i \in dirty : sector[i] = b
  <2>1. /\ disk' = [b \in Blocks |-> IF \E i \in dirty : sector[i] = b
                                      THEN sectorBuf[S(b)] ELSE disk[b]]
        /\ dirty' = {}
    BY <1>4 DEF FlushSectors
  <2>2. \A i \in dirty : i \in Slots /\ sector[i] \in Blocks
    BY DEF CacheCoherent, DirtyFlagged, CacheTypeOK
  <2>3. ASSUME NEW i \in dirty PROVE S(sector[i]) = i
    BY <2>2 DEF CacheCoherent, OneSlot, DirtyFlagged
  <2>4. ASSUME NEW b \in Blocks
        PROVE  disk'[b] = IF \E i \in dirty : sector[i] = b THEN sectorBuf[S(b)] ELSE disk[b]
    BY <2>1
  <2>5. ASSUME NEW b \in Blocks, \E i \in dirty : sector[i] = b
        PROVE  \E i \in dirty : sector[i] = b /\ S(b) = i
    BY <2>3, <2>5
  <2>. HIDE DEF S
  <2>6. disk' \in [Blocks -> [Offsets -> Contents]]
    BY <2>1, <2>2, <2>5 DEF CacheTypeOK
  <2>7. \A b \in Blocks : ~Cached(b) => disk'[b] = disk[b]
    BY <2>2, <2>4 DEF Cached
  <2>8. \A i \in Slots : sector[i] # NoBlock => disk'[sector[i]] = sectorBuf[i]
    <3>. SUFFICES ASSUME NEW i \in Slots, sector[i] # NoBlock
                  PROVE  disk'[sector[i]] = sectorBuf[i]
      OBVIOUS
    <3>1. sector[i] \in Blocks
      BY DEF CacheTypeOK
    <3>2. CASE i \in dirty
      BY <2>3, <2>4, <3>1, <3>2
    <3>3. CASE i \notin dirty
      <4>1. ~\E j \in dirty : sector[j] = sector[i]
        BY <2>2, <3>3 DEF CacheCoherent, OneSlot
      <4>. QED
        BY <1>2, <2>4, <3>1, <3>3, <4>1
    <3>. QED
      BY <3>2, <3>3
  <2>. QED
    BY <2>1, <2>6, <2>7, <2>8
<1>. QED
  BY <1>3, <1>4

\* A flush leaves no block dirty.
LEMMA FlushKeeps ==
  ASSUME CacheIInv, FlushSectors
  PROVE  CacheIInv'
<1>. USE DEF CacheIInv
<1>1. /\ todo = {} /\ held' = NoHeld /\ writeFlag' = FALSE
      /\ UNCHANGED <<sector, tax, sectorBuf, cluster, todo>>
  BY DEF FlushSectors
<1>2. CacheTypeOK'
  BY <1>1, FlushIs DEF CacheTypeOK
<1>3. OneSlot' /\ DirtyFlagged' /\ HeldTagged'
  BY <1>1, FlushIs DEF CacheCoherent, OneSlot, DirtyFlagged, HeldTagged
<1>4. CleanOnDisk'
  BY <1>1, FlushIs DEF CleanOnDisk
<1>5. ClearInOrder' /\ ClusterKnown'
  BY <1>1 DEF ClearInOrder, ClusterKnown
<1>. QED
  BY <1>2, <1>3, <1>4, <1>5 DEF CacheCoherent

\* A new cluster has none of its blocks begun.
LEMMA NewClusterKeeps ==
  ASSUME CacheIInv, NEW c \in Clusters, NewCluster(c)
  PROVE  CacheIInv'
<1>. USE DEF CacheIInv
<1>1. /\ todo = {} /\ todo' = c /\ cluster' = c /\ held' = NoHeld
      /\ UNCHANGED <<disk, sector, tax, dirty, sectorBuf, writeFlag>>
  BY DEF NewCluster
<1>2. CacheTypeOK'
  BY <1>1, SCacheAssumption DEF CacheTypeOK, Sectors, Blocks, Offsets
<1>3. \A b \in Blocks : ~Clearing(b)'
  BY <1>1, NoBlockIsNone DEF Clearing, NoHeld
<1>4. CacheCoherent'
  BY <1>1 DEF CacheCoherent, OneSlot, CleanOnDisk, DirtyFlagged, HeldTagged
<1>5. ClearInOrder' /\ ClusterKnown'
  BY <1>1, <1>3 DEF ClearInOrder, ClusterKnown
<1>. QED
  BY <1>2, <1>4, <1>5

\* A cache that has been made anew is empty.
LEMMA RemoveKeeps ==
  ASSUME CacheIInv, Reconnect
  PROVE  CacheIInv'
<1>. USE DEF CacheIInv
<1>1. mallocBuf \in [Slots -> [Offsets -> Contents]]
  BY SCacheAssumption DEF mallocBuf, Garbage, Contents, Blocks, Offsets, Slots, NoBlock
<1>2. /\ sector' = [i \in Slots |-> NoBlock] /\ tax' = [i \in Slots |-> 0] /\ dirty' = {}
      /\ sectorBuf' = mallocBuf /\ writeFlag' = FALSE /\ held' = NoHeld
      /\ cluster' = {} /\ todo' = {} /\ disk' = disk
  BY DEF Reconnect
<1>3. CacheTypeOK'
  <2>1. tax' \in [Slots -> -MaxTax..MaxTax] /\ sector' \in [Slots -> Blocks \cup {NoBlock}]
    BY <1>2, SCacheAssumption
  <2>. QED
    BY <1>1, <1>2, <2>1 DEF CacheTypeOK
<1>4. CacheCoherent'
  BY <1>2 DEF CacheCoherent, OneSlot, CleanOnDisk, DirtyFlagged, HeldTagged
<1>5. ClearInOrder' /\ ClusterKnown'
  BY <1>2 DEF ClearInOrder, ClusterKnown
<1>. QED
  BY <1>3, <1>4, <1>5

\* Every step keeps the invariant.
LEMMA StepKeeps ==
  ASSUME CacheIInv, Aligned, [CacheNext]_cacheVars
  PROVE  CacheIInv'
<1>1. CASE UNCHANGED cacheVars
  <2>1. CacheTypeOK'
    BY <1>1 DEF cacheVars, CacheIInv, CacheTypeOK
  <2>2. OneSlot' /\ DirtyFlagged' /\ HeldTagged'
    BY <1>1 DEF cacheVars, CacheIInv, CacheCoherent, OneSlot, DirtyFlagged, HeldTagged
  <2>3. CleanOnDisk'
    BY <1>1 DEF cacheVars, CacheIInv, CacheCoherent, CleanOnDisk, Clearing
  <2>4. ClearInOrder' /\ ClusterKnown'
    BY <1>1 DEF cacheVars, CacheIInv, ClearInOrder, Clearing, Cached, FirstOf, ClusterKnown
  <2>. QED
    BY <2>1, <2>2, <2>3, <2>4 DEF CacheIInv, CacheCoherent
<1>2. CASE CacheNext
  <2>1. ASSUME NEW b \in Blocks, NEW o \in Offsets, ReadSector(b, o) PROVE CacheIInv'
    BY <2>1, ReadKeeps
  <2>2. ASSUME NEW b \in Blocks, NEW o \in Offsets, AllocSector(b, o) PROVE CacheIInv'
    BY <2>2, AllocKeeps
  <2>3. ASSUME NEW c \in Clusters, NewCluster(c) PROVE CacheIInv'
    BY <2>3, NewClusterKeeps
  <2>4. CASE WriteSector
    BY <2>4, WriteKeeps
  <2>5. CASE FlushSectors
    BY <2>5, FlushKeeps
  <2>6. CASE Reconnect
    BY <2>6, RemoveKeeps
  <2>. QED
    BY <1>2, <2>1, <2>2, <2>3, <2>4, <2>5, <2>6 DEF CacheNext
<1>. QED
  BY <1>1, <1>2

\* The invariant of the cache, for clusters of whole blocks.
THEOREM CacheInvariant == Aligned => (CacheSpec => []CacheIInv)
<1>1. Aligned /\ CacheIInv /\ [CacheNext]_cacheVars => CacheIInv'
  BY StepKeeps
<1>2. Aligned => Aligned'
  BY DEF Aligned, Blocks, Offsets
<1>. QED
  BY InitIInv, <1>1, <1>2, PTL DEF CacheSpec

\* The types of the cache: its records, buffer and pointer (scache.c).
THEOREM SCacheTypes == Aligned => (CacheSpec => []CacheTypeOK)
<1>1. CacheIInv => CacheTypeOK
  BY DEF CacheIInv
<1>. QED
  BY <1>1, CacheInvariant, PTL

\* A block has one slot, clean slots are as on the device, dirty ones are known
\* to the next flush, and the file system's pointer is into the slot of its
\* sector: whatever the slots, blocks and order of the calls (scache.c).
THEOREM CoherentCache == Aligned => (CacheSpec => []CacheCoherent)
<1>1. CacheIInv => CacheCoherent
  BY DEF CacheIInv
<1>. QED
  BY <1>1, CacheInvariant, PTL

-----------------------------------------------------------------------------
(* The cache is a store of sectors.                                        *)

\* What a read of a sector gives.
ReadOf(b, o) ==
  IF <<b, o>> \in todo /\ Clearing(b) THEN Zero
  ELSE IF Cached(b) THEN sectorBuf[SlotOf(b)][o] ELSE disk[b][o]

\* The view of the file system, sector by sector.
LEMMA ViewIs ==
  /\ View = [b \in Blocks |-> [o \in Offsets |-> ReadOf(b, o)]]
  /\ View' = [b \in Blocks |-> [o \in Offsets |-> ReadOf(b, o)']]
BY DEF View, ReadOf

\* Two views that read the same are the same.
LEMMA ViewSame ==
  ASSUME \A b \in Blocks : \A o \in Offsets : ReadOf(b, o)' = ReadOf(b, o)
  PROVE  View' = View
BY ViewIs

\* The one slot of a block is the one that is found.
LEMMA SlotIs ==
  ASSUME OneSlot, NEW i \in Slots, sector[i] # NoBlock
  PROVE  SlotOf(sector[i]) = i
BY DEF OneSlot, SlotOf

\* Where a read finds its sector: nowhere, in a slot, or on the device.
LEMMA ReadIs ==
  OneSlot =>
    \A b \in Blocks : \A o \in Offsets :
      /\ <<b, o>> \in todo /\ Clearing(b) => ReadOf(b, o) = Zero
      /\ ~(<<b, o>> \in todo /\ Clearing(b)) =>
           /\ \A i \in Slots : sector[i] = b => ReadOf(b, o) = sectorBuf[i][o]
           /\ ~Cached(b) => ReadOf(b, o) = disk[b][o]
<1>. SUFFICES ASSUME OneSlot, NEW b \in Blocks, NEW o \in Offsets
              PROVE  /\ <<b, o>> \in todo /\ Clearing(b) => ReadOf(b, o) = Zero
                     /\ ~(<<b, o>> \in todo /\ Clearing(b)) =>
                          /\ \A i \in Slots : sector[i] = b => ReadOf(b, o) = sectorBuf[i][o]
                          /\ ~Cached(b) => ReadOf(b, o) = disk[b][o]
  OBVIOUS
<1>1. ASSUME NEW i \in Slots, sector[i] = b PROVE SlotOf(b) = i
  BY <1>1, SlotIs, NoBlockIsNone
<1>. QED
  BY <1>1 DEF ReadOf, Cached

\* The same after a step.
LEMMA ReadIsNext ==
  (OneSlot =>
    \A b \in Blocks : \A o \in Offsets :
      /\ <<b, o>> \in todo /\ Clearing(b) => ReadOf(b, o) = Zero
      /\ ~(<<b, o>> \in todo /\ Clearing(b)) =>
           /\ \A i \in Slots : sector[i] = b => ReadOf(b, o) = sectorBuf[i][o]
           /\ ~Cached(b) => ReadOf(b, o) = disk[b][o])'
BY ReadIs, PTL

\* A flush leaves on the device what reads gave before it and give after it.
LEMMA FlushView ==
  ASSUME CacheIInv, FlushSectors
  PROVE  disk' = View /\ View' = View
<1>1. /\ todo = {} /\ todo' = {} /\ sector' = sector /\ sectorBuf' = sectorBuf
      /\ OneSlot /\ OneSlot'
  BY FlushKeeps DEF FlushSectors, CacheIInv, CacheCoherent
<1>2. ASSUME NEW b \in Blocks, NEW o \in Offsets
      PROVE  ReadOf(b, o)' = disk'[b][o] /\ ReadOf(b, o) = disk'[b][o]
  <2>1. CASE Cached(b)
    <3>1. PICK i \in Slots : sector[i] = b
      BY <2>1 DEF Cached
    <3>2. ReadOf(b, o) = sectorBuf[i][o]
      BY <1>1, <3>1, ReadIs
    <3>3. ReadOf(b, o)' = sectorBuf'[i][o]
      BY <1>1, <3>1, ReadIsNext
    <3>. QED
      BY <1>1, <3>1, <3>2, <3>3, FlushIs, NoBlockIsNone
  <2>2. CASE ~Cached(b)
    <3>1. ~Cached(b)'
      BY <1>1, <2>2 DEF Cached
    <3>2. ReadOf(b, o) = disk[b][o] /\ ReadOf(b, o)' = disk'[b][o]
      BY <1>1, <2>2, <3>1, ReadIs, ReadIsNext
    <3>. QED
      BY <2>2, <3>2, FlushIs
  <2>. QED
    BY <2>1, <2>2
<1>3. disk' = [b \in Blocks |-> [o \in Offsets |-> disk'[b][o]]]
  BY FlushIs
<1>. QED
  BY <1>2, <1>3, ViewIs, ViewSame

\* A block that makes room for block b leaves what reads give of every block
\* but b, and reaches the device as they give it.
LEMMA ReplaceView ==
  ASSUME CacheIInv, OneSlot', NEW b \in Blocks, ~Cached(b), NEW i \in Slots,
         NEW data \in [Offsets -> Contents], Replace(b, i, data), todo' = todo,
         \A x \in Blocks : Clearing(x)' => x = b \/ Clearing(x),
         \A x \in Blocks : Clearing(x) => Clearing(x)',
         \A o \in Offsets : <<sector[i], o>> \in todo => ~Clearing(sector[i])
  PROVE  /\ \A x \in Blocks \ {b} : \A o \in Offsets : ReadOf(x, o)' = ReadOf(x, o)
         /\ \/ disk' = disk
            \/ \E w \in Blocks \ {b} : disk' = [disk EXCEPT ![w] = View[w]]
<1>. USE DEF CacheIInv
<1>1. /\ sector'[i] = b /\ sectorBuf'[i] = data /\ OneSlot /\ disk' = Evicted(i)
      /\ \A j \in Slots \ {i} : sector'[j] = sector[j] /\ sectorBuf'[j] = sectorBuf[j]
      /\ \A j \in Slots \ {i} : sector[j] # NoBlock => disk'[sector[j]] = disk[sector[j]]
  <2>1. OneSlot /\ disk' = Evicted(i)
    BY DEF CacheCoherent, Replace
  <2>. QED
    BY <2>1, ReplaceKeeps
<1>2. ASSUME NEW w \in Blocks, sector[i] = w, NEW o \in Offsets
      PROVE  /\ ReadOf(w, o) = sectorBuf[i][o] /\ disk'[w][o] = sectorBuf[i][o]
  <2>1. ~(<<w, o>> \in todo /\ Clearing(w))
    BY <1>2
  <2>2. ReadOf(w, o) = sectorBuf[i][o]
    BY <1>1, <1>2, <2>1, ReadIs
  <2>3. CASE i \in dirty
    BY <1>1, <1>2, <2>2, <2>3, EvictedIs
  <2>4. CASE i \notin dirty
    <3>1. disk' = disk
      BY <1>1, <2>4 DEF Evicted
    <3>2. sectorBuf[i][o] = disk[w][o]
      BY <1>2, <2>1, <2>4, NoBlockIsNone DEF CacheCoherent, CleanOnDisk
    <3>. QED
      BY <2>2, <3>1, <3>2
  <2>. QED
    BY <2>3, <2>4
<1>3. ASSUME NEW x \in Blocks \ {b}, NEW o \in Offsets PROVE ReadOf(x, o)' = ReadOf(x, o)
  <2>1. CASE <<x, o>> \in todo /\ Clearing(x)
    <3>1. <<x, o>> \in todo' /\ Clearing(x)'
      BY <2>1
    <3>. QED
      BY <1>1, <2>1, <3>1, ReadIs, ReadIsNext
  <2>2. CASE ~(<<x, o>> \in todo /\ Clearing(x))
    <3>1. ~(<<x, o>> \in todo' /\ Clearing(x)')
      BY <2>2
    <3>2. CASE sector[i] = x
      <4>1. ~Cached(x)'
        BY <1>1, <3>2, NoBlockIsNone DEF Cached, OneSlot
      <4>. QED
        BY <1>1, <1>2, <3>1, <3>2, <4>1, ReadIsNext
    <3>3. CASE sector[i] # x /\ Cached(x)
      <4>1. PICK j \in Slots \ {i} : sector[j] = x
        BY <3>3 DEF Cached
      <4>2. sector'[j] = x /\ sectorBuf'[j] = sectorBuf[j]
        BY <1>1, <4>1
      <4>3. ReadOf(x, o) = sectorBuf[j][o]
        BY <1>1, <2>2, <4>1, ReadIs
      <4>4. ReadOf(x, o)' = sectorBuf'[j][o]
        BY <1>1, <3>1, <4>2, ReadIsNext
      <4>. QED
        BY <4>2, <4>3, <4>4
    <3>4. CASE sector[i] # x /\ ~Cached(x)
      <4>1. ~Cached(x)' /\ disk'[x] = disk[x]
        BY <1>1, <3>4, EvictedIs DEF Cached
      <4>2. ReadOf(x, o) = disk[x][o]
        BY <1>1, <2>2, <3>4, ReadIs
      <4>3. ReadOf(x, o)' = disk'[x][o]
        BY <1>1, <3>1, <4>1, ReadIsNext
      <4>. QED
        BY <4>1, <4>2, <4>3
    <3>. QED
      BY <3>2, <3>3, <3>4
  <2>. QED
    BY <2>1, <2>2
<1>4. \/ disk' = disk
      \/ \E w \in Blocks \ {b} : disk' = [disk EXCEPT ![w] = View[w]]
  <2>1. CASE i \notin dirty
    BY <1>1, <2>1 DEF Evicted
  <2>2. CASE i \in dirty
    <3>1. PICK w \in Blocks : w = sector[i]
      BY <2>2, EvictedIs
    <3>2. w # b
      BY <3>1 DEF Cached
    <3>3. sectorBuf[i] = [o \in Offsets |-> sectorBuf[i][o]]
      BY DEF CacheTypeOK
    <3>4. \A o \in Offsets : ReadOf(w, o) = sectorBuf[i][o]
      BY <1>2, <3>1
    <3>5. View[w] = [o \in Offsets |-> ReadOf(w, o)]
      BY ViewIs
    <3>6. View[w] = sectorBuf[i]
      BY <3>3, <3>4, <3>5
    <3>7. disk' = [disk EXCEPT ![w] = sectorBuf[i]]
      BY <1>1, <2>2, <3>1 DEF Evicted
    <3>. QED
      BY <3>2, <3>6, <3>7
  <2>. QED
    BY <2>1, <2>2
<1>. QED
  BY <1>3, <1>4

\* A read changes nothing that reads give: a block may reach the device.
LEMMA ReadRefines ==
  ASSUME CacheIInv, NEW b \in Blocks, NEW o \in Offsets, ReadSector(b, o)
  PROVE  [Store!Next]_<<View, disk>>
<1>. USE DEF CacheIInv
<1>1. /\ todo = {} /\ todo' = {} /\ OneSlot /\ OneSlot'
      /\ \A x \in Blocks : ~Clearing(x) /\ ~Clearing(x)'
  BY ReadKeeps DEF ReadSector, CacheCoherent, Clearing
<1>2. PICK i \in Slots : \/ Hit(b, i)
                         \/ (~Cached(b) /\ Replace(b, i, Evicted(i)[b]))
  BY DEF ReadSector
<1>3. CASE Hit(b, i)
  <2>1. UNCHANGED <<disk, sector, sectorBuf, todo>>
    BY <1>1, <1>3 DEF Hit
  <2>2. View' = View
    BY <1>1, <2>1, ViewSame DEF ReadOf, Cached, SlotOf
  <2>. QED
    BY <2>1, <2>2
<1>4. CASE ~Cached(b) /\ Replace(b, i, Evicted(i)[b])
  <2>1. Evicted(i)[b] \in [Offsets -> Contents]
    BY EvictedIs
  <2>2. /\ \A x \in Blocks \ {b} : \A p \in Offsets : ReadOf(x, p)' = ReadOf(x, p)
        /\ \/ disk' = disk
           \/ \E w \in Blocks \ {b} : disk' = [disk EXCEPT ![w] = View[w]]
    BY <1>1, <1>4, <2>1, ReplaceView
  <2>3. sector'[i] = b /\ sectorBuf'[i] = disk[b]
    BY <1>4, <2>1, ReplaceKeeps, EvictedIs DEF Cached
  <2>4. \A p \in Offsets : ReadOf(b, p)' = disk[b][p] /\ ReadOf(b, p) = disk[b][p]
    BY <1>1, <1>4, <2>3, ReadIs, ReadIsNext
  <2>5. View' = View
    BY <2>2, <2>4, ViewSame
  <2>. QED
    BY <2>2, <2>5 DEF Store!Next, Store!WriteBack
<1>. QED
  BY <1>2, <1>3, <1>4

\* The first sector of a block to be cleared makes the block that of a
\* directory; another block may have to make room for it.
LEMMA AllocRefines ==
  ASSUME CacheIInv, Aligned, NEW b \in Blocks, NEW o \in Offsets, AllocSector(b, o)
  PROVE  [Store!Next]_<<View, disk>>
<1>. USE DEF CacheIInv
<1>1. /\ <<b, o>> \in todo /\ todo' = todo /\ cluster' = cluster /\ cluster \in Clusters
      /\ OneSlot /\ OneSlot' /\ FirstOf(todo, b, o) /\ todo # {}
  BY AllocKeeps DEF AllocSector, CacheCoherent, FirstOf, ClusterKnown
<1>2. PICK i \in Slots : /\ held = NoHeld /\ held' = Hold(b, o, i)
                         /\ Hit(b, i) \/ (~Cached(b) /\ Replace(b, i, sectorBuf[i]))
  BY DEF AllocSector
<1>3. \A x \in Blocks : Clearing(x)' <=> x = b \/ Clearing(x)
  <2>1. held'.block = b /\ \A x \in Blocks : held.block # x
    BY <1>2, HoldIs, NoBlockIsNone DEF NoHeld
  <2>. QED
    BY <1>1, <2>1 DEF Clearing
<1>4. ASSUME NEW x \in Blocks, NEW p \in Offsets, <<x, p>> \in todo, Clearing(x) PROVE x = b
  <2>1. x <= <<b, o>>[1] /\ Cached(x)
    BY <1>1, <1>4 DEF ClearInOrder
  <2>2. b < <<x, p>>[1] \/ b = <<x, p>>[1]
    BY <1>1, <1>4 DEF FirstOf
  <2>. QED
    BY <2>1, <2>2, SCacheAssumption DEF Blocks
<1>5. \A p \in Offsets : <<b, p>> \in todo => ReadOf(b, p)' = Zero
  BY <1>1, <1>3, ReadIsNext
<1>6. CASE Clearing(b)
  <2>1. Cached(b)
    BY <1>1, <1>6 DEF ClearInOrder
  <2>2. UNCHANGED <<disk, sector, sectorBuf, todo>>
    BY <1>1, <1>2, <2>1 DEF Hit
  <2>3. \A x \in Blocks : Clearing(x)' <=> Clearing(x)
    BY <1>3, <1>6
  <2>4. \A x \in Blocks : \A p \in Offsets : ReadOf(x, p)' = ReadOf(x, p)
    BY <2>2, <2>3 DEF ReadOf, Cached, SlotOf
  <2>. QED
    BY <2>2, <2>4, ViewSame
<1>7. CASE ~Clearing(b)
  <2>1. \A p \in Offsets : <<b, p>> \in todo /\ <<b, p>> \in cluster
    BY <1>1, <1>7 DEF Aligned, Clearing, CacheTypeOK
  <2>2. /\ \A x \in Blocks \ {b} : \A p \in Offsets : ReadOf(x, p)' = ReadOf(x, p)
        /\ \/ disk' = disk
           \/ \E w \in Blocks \ {b} : disk' = [disk EXCEPT ![w] = View[w]]
    <3>1. CASE Hit(b, i)
      <4>1. UNCHANGED <<disk, sector, sectorBuf, todo>>
        BY <1>1, <3>1 DEF Hit
      <4>. QED
        BY <1>3, <4>1 DEF ReadOf, Cached, SlotOf
    <3>2. CASE ~Cached(b) /\ Replace(b, i, sectorBuf[i])
      <4>1. \A p \in Offsets : <<sector[i], p>> \in todo => ~Clearing(sector[i])
        <5>1. \A p \in Offsets : <<sector[i], p>> \in todo => sector[i] \in Blocks
          BY DEF CacheTypeOK, Sectors
        <5>2. sector[i] # b
          BY <3>2 DEF Cached
        <5>. QED
          BY <1>4, <5>1, <5>2
      <4>2. sectorBuf[i] \in [Offsets -> Contents]
        BY DEF CacheTypeOK
      <4>. QED
        BY <1>1, <1>3, <3>2, <4>1, <4>2, ReplaceView
    <3>. QED
      BY <1>2, <3>1, <3>2
  <2>3. View' = [View EXCEPT ![b] = [p \in Offsets |->
                  IF <<b, p>> \in cluster THEN Zero ELSE @[p]]]
    <3>. DEFINE new == [p \in Offsets |-> IF <<b, p>> \in cluster THEN Zero ELSE View[b][p]]
    <3>1. [p \in Offsets |-> ReadOf(b, p)'] = new
      BY <1>5, <2>1
    <3>2. View'[b] = new
      BY <3>1, ViewIs
    <3>3. \A x \in Blocks \ {b} : View'[x] = View[x]
      BY <2>2, ViewIs
    <3>. HIDE DEF new
    <3>4. View' = [View EXCEPT ![b] = new]
      BY <3>2, <3>3, ViewIs
    <3>. QED
      BY <3>4 DEF new
  <2>. QED
    BY <1>1, <2>2, <2>3 DEF Store!Next, Store!Zeros
<1>. QED
  BY <1>6, <1>7

\* A write changes the held sector for reads, or makes true what they give.
LEMMA WriteRefines ==
  ASSUME CacheIInv, WriteSector
  PROVE  [Store!Next]_<<View, disk>>
<1>. USE DEF CacheIInv
<1>1. PICK b \in Blocks, o \in Offsets, i \in Slots :
        b = held.block /\ o = held.offset /\ i = held.slot
  BY WriteIs
<1>. DEFINE new == IF todo = {} THEN Changed(sectorBuf[i][o]) ELSE Zero
<1>2. /\ sector[i] = b /\ sector' = sector /\ disk' = disk /\ held' = NoHeld
      /\ todo' = todo \ {<<b, o>>} /\ OneSlot /\ OneSlot'
      /\ sectorBuf' = [sectorBuf EXCEPT ![i][o] = new]
  BY <1>1, WriteIs, WriteBuf, WriteKeeps DEF CacheCoherent
<1>3. todo # {} => <<b, o>> \in todo /\ Clearing(b)
  BY <1>1, WriteIs DEF ClearInOrder, FirstOf, Clearing
<1>4. \A j \in Slots : \A p \in Offsets :
        sectorBuf'[j][p] = IF j = i /\ p = o THEN new ELSE sectorBuf[j][p]
  <2>. HIDE DEF new
  <2>. QED
    BY <1>2 DEF CacheTypeOK
<1>5. ReadOf(b, o)' = new
  <2>. HIDE DEF new
  <2>1. <<b, o>> \notin todo' /\ sector'[i] = b
    BY <1>2
  <2>2. ReadOf(b, o)' = sectorBuf'[i][o]
    BY <1>2, <2>1, ReadIsNext
  <2>. QED
    BY <1>4, <2>2
<1>6. ASSUME NEW x \in Blocks, NEW p \in Offsets, x # b \/ p # o
      PROVE  ReadOf(x, p)' = ReadOf(x, p)
  <2>1. (<<x, p>> \in todo' /\ Clearing(x)') <=> (<<x, p>> \in todo /\ Clearing(x))
    <3>1. <<x, p>> \in todo' <=> <<x, p>> \in todo
      BY <1>2, <1>6
    <3>2. CASE <<x, p>> \in todo
      <4>1. todo' # {}
        BY <3>1, <3>2
      <4>. QED
        BY <3>1, <4>1, WriteClearing
    <3>. QED
      BY <3>1, <3>2
  <2>2. CASE <<x, p>> \in todo /\ Clearing(x)
    BY <1>2, <2>1, <2>2, ReadIs, ReadIsNext
  <2>3. CASE ~(<<x, p>> \in todo /\ Clearing(x)) /\ Cached(x)
    <3>1. PICK j \in Slots : sector[j] = x
      BY <2>3 DEF Cached
    <3>2. ReadOf(x, p) = sectorBuf[j][p]
      BY <1>2, <2>3, <3>1, ReadIs
    <3>3. ReadOf(x, p)' = sectorBuf'[j][p]
      BY <1>2, <2>1, <2>3, <3>1, ReadIsNext
    <3>4. ~(j = i /\ p = o)
      BY <1>2, <1>6, <3>1
    <3>. QED
      BY <1>4, <3>2, <3>3, <3>4
  <2>4. CASE ~(<<x, p>> \in todo /\ Clearing(x)) /\ ~Cached(x)
    <3>1. ~Cached(x)'
      BY <1>2, <2>4 DEF Cached
    <3>. QED
      BY <1>2, <2>1, <2>4, <3>1, ReadIs, ReadIsNext
  <2>. QED
    BY <2>2, <2>3, <2>4
<1>7. CASE todo = {}
  <2>1. ReadOf(b, o) = sectorBuf[i][o] /\ View[b][o] = ReadOf(b, o)
    BY <1>2, <1>7, ReadIs, ViewIs
  <2>2. ReadOf(b, o)' = Changed(View[b][o])
    BY <1>5, <1>7, <2>1
  <2>3. View' = [View EXCEPT ![b][o] = Changed(@)]
    BY <1>6, <2>2, ViewIs
  <2>4. Store!Put(b, o)
    BY <1>2, <2>3 DEF Store!Put, Store!Changed, Changed
  <2>. QED
    BY <2>4 DEF Store!Next
<1>8. CASE todo # {}
  <2>1. ReadOf(b, o)' = ReadOf(b, o)
    BY <1>2, <1>3, <1>5, <1>8, ReadIs
  <2>2. View' = View
    BY <1>6, <2>1, ViewSame
  <2>. QED
    BY <1>2, <2>2
<1>. QED
  BY <1>7, <1>8

\* A new cluster changes nothing before its first sector is cleared.
LEMMA NewClusterRefines ==
  ASSUME CacheIInv, NEW c \in Clusters, NewCluster(c)
  PROVE  UNCHANGED <<View, disk>>
<1>1. /\ todo = {} /\ todo' = c /\ cluster' = c /\ held' = NoHeld
      /\ UNCHANGED <<disk, sector, sectorBuf>>
  BY DEF NewCluster
<1>2. \A b \in Blocks : ~Clearing(b)'
  BY <1>1, NoBlockIsNone DEF Clearing, NoHeld
<1>3. View' = View
  BY <1>1, <1>2, ViewSame DEF ReadOf, Cached, SlotOf
<1>. QED
  BY <1>1, <1>3

\* When the device comes back, reads give what it holds.
LEMMA RemoveRefines ==
  ASSUME CacheIInv, Reconnect
  PROVE  View' = disk /\ disk' = disk
<1>1. disk' = disk /\ todo' = {} /\ sector' = [i \in Slots |-> NoBlock]
  BY DEF Reconnect
<1>2. \A b \in Blocks : ~Cached(b)'
  BY <1>1, NoBlockIsNone DEF Cached
<1>3. \A b \in Blocks : \A o \in Offsets : ReadOf(b, o)' = disk[b][o]
  BY <1>1, <1>2 DEF ReadOf
<1>4. disk = [b \in Blocks |-> [o \in Offsets |-> disk[b][o]]]
  BY DEF CacheIInv, CacheTypeOK
<1>. QED
  BY <1>1, <1>3, <1>4, ViewIs

\* At first reads give what the device holds.
LEMMA InitRefines == CacheInit => Store!Init
<1>. SUFFICES ASSUME CacheInit PROVE Store!Init
  OBVIOUS
<1>1. disk = Format /\ todo = {} /\ \A b \in Blocks : ~Cached(b)
  BY NoBlockIsNone DEF CacheInit, Cached
<1>2. \A b \in Blocks : \A o \in Offsets : ReadOf(b, o) = disk[b][o]
  BY <1>1 DEF ReadOf
<1>3. disk = [b \in Blocks |-> [o \in Offsets |-> disk[b][o]]]
  BY <1>1 DEF Format
<1>4. View = disk
  BY <1>2, <1>3, ViewIs
<1>. QED
  BY <1>1, <1>4 DEF Store!Init

\* Every step of the cache is one of the store, or changes nothing of it.
LEMMA StepRefines ==
  ASSUME CacheIInv, Aligned, [CacheNext]_cacheVars
  PROVE  [Store!Next]_<<View, disk>>
<1>1. CASE UNCHANGED cacheVars
  <2>1. View' = View
    BY <1>1, ViewSame DEF cacheVars, ReadOf, Cached, SlotOf, Clearing
  <2>. QED
    BY <1>1, <2>1 DEF cacheVars
<1>2. CASE CacheNext
  <2>1. ASSUME NEW b \in Blocks, NEW o \in Offsets, ReadSector(b, o)
        PROVE  [Store!Next]_<<View, disk>>
    BY <2>1, ReadRefines
  <2>2. ASSUME NEW b \in Blocks, NEW o \in Offsets, AllocSector(b, o)
        PROVE  [Store!Next]_<<View, disk>>
    BY <2>2, AllocRefines
  <2>3. ASSUME NEW c \in Clusters, NewCluster(c) PROVE UNCHANGED <<View, disk>>
    BY <2>3, NewClusterRefines
  <2>4. CASE WriteSector
    BY <2>4, WriteRefines
  <2>5. CASE FlushSectors
    BY <2>5, FlushView DEF Store!Next, Store!Flush
  <2>6. CASE Reconnect
    BY <2>6, RemoveRefines DEF Store!Next, Store!Remove
  <2>. QED
    BY <1>2, <2>1, <2>2, <2>3, <2>4, <2>5, <2>6 DEF CacheNext
<1>. QED
  BY <1>1, <1>2

\* The cache implements the store of sectors: a read gives what was last
\* written, and blocks reach the device whole and as they are then, whichever
\* slots they were in (scache.c, and enlargeDirClusterSpace in fat_write.c).
THEOREM Implements == Aligned => (CacheSpec => IsSectorStore)
<1>1. Aligned /\ CacheIInv /\ [CacheNext]_cacheVars => [Store!Next]_<<View, disk>>
  BY StepRefines
<1>2. Aligned => Aligned'
  BY DEF Aligned, Blocks, Offsets
<1>. QED
  BY InitRefines, CacheInvariant, <1>1, <1>2, PTL DEF CacheSpec, IsSectorStore, Store!Spec

\* When scache_flushSectors returns, the device holds all that was written.
THEOREM FlushDurable == Aligned => (CacheSpec => FlushIsDurable)
<1>1. CacheIInv => [FlushSectors => disk' = View']_cacheVars
  BY FlushView
<1>. QED
  BY CacheInvariant, <1>1, PTL DEF FlushIsDurable

(***************************************************************************)
(* The transport                                                           *)
(***************************************************************************)

\* The faults that both drivers live through: no endpoint halts in the place of data, except
\* for READ CAPACITY, and the commands of USBSTOR only fail.
Survived == Faults["usbstor"] \subseteq {"fail"} /\ "stallIn" \notin Faults["usbhdfsd"]

Transports == InOps \cup OutOps \cup NoDataOps

\* What the thread is doing fits the operation, and a recovery has an error to return.
Place ==
  /\ pc = "control" => op \in ControlOps
  /\ pc \notin {"control", "idle"} => op \in Transports
  /\ pc = "data" => op \notin NoDataOps
  /\ op = "capacity" /\ pc # "idle" => tries > 0
  /\ pc \in {"reset", "clearIn", "clearOut"} => drv = "usbhdfsd" /\ (ret # 0 \/ op = "inquiry")
  /\ client = "warmup" => op \notin {"read", "write"}
  /\ client = "warmup" /\ drv = "usbstor" => op \notin {"lun", "inquiry", "sense", "start"}

\* The device expects the thread's next transfer, and has halted what will be cleared.
Expects ==
  /\ pc \in {"command", "control", "idle"} => phase = "cbw" /\ halted = {}
  /\ pc = "data" => phase = "data" /\ halted = {} /\ plan \in {Good(op)} \cup Bad(op)
  /\ pc = "status" => phase = "csw" /\ halted = {} /\ plan \in {Good(op)} \cup Bad(op)
  /\ pc \notin {"clear", "status2"}
  /\ pc = "reset" => halted \subseteq toClear
  /\ pc = "clearIn" => phase = "cbw" /\ halted \subseteq toClear
  /\ pc = "clearOut" => phase = "cbw" /\ halted \subseteq {"out"}
  /\ pc \in {"reset", "clearIn", "clearOut"} => toClear \in {{"in"}, {"in", "out"}}

\* What has returned success was served.
Told == pc = "idle" /\ ret = 0 /\ op \notin ControlOps \cup {"inquiry"} => served /\ plan.of = op

IInv == TypeOK /\ Place /\ Told /\ (open => Expects)

-----------------------------------------------------------------------------
(* Helpers *)

\* What a command may run into, when the drivers live through it.
LEMMA PlansKnown ==
  ASSUME TypeOK, Survived, NEW o \in AllOps, NEW p \in {Good(o)} \cup Bad(o)
  PROVE  /\ p = Plan(o, p.goes) /\ p.of = o
         /\ p.goes \in {"good", "fail", "phase", "invalid", "stallCapacity"}
         /\ p.goes = "stallCapacity" => o = "capacity"
         /\ p.goes \notin {"good", "fail"} => drv = "usbhdfsd"
<1>1. drv \in {"usbhdfsd", "usbstor"}
  BY BulkAssumption DEF TypeOK
<1>2. PICK f : p = Plan(o, f) /\ (f = "good" \/ f \in Wrong(o))
  BY DEF Good, Bad
<1>3. f \in Wrong(o) => f \in Faults[drv] /\ (f = "stallCapacity" => o = "capacity")
  BY DEF Wrong
<1>4. f \in Wrong(o) => f \in {"fail", "phase", "invalid", "stallCapacity"}
                        /\ (f # "fail" => drv = "usbhdfsd")
  BY <1>1, <1>3, BulkAssumption DEF Survived
<1> QED BY <1>2, <1>3, <1>4 DEF Plan

\* The status of a command says whether it went well.
LEMMA StatusTells ==
  ASSUME NEW g \in {"good", "fail", "phase", "invalid", "stallCapacity"}
  PROVE  Status(g) \in 0 .. 2 /\ (Status(g) = 0 <=> g = "good") /\ (Status(g) = 2 <=> g = "phase")
BY DEF Status

\* The end of an attempt: back to the command, or the operation returns.
LEMMA FinishStep ==
  ASSUME TypeOK, NEW r \in -1 .. 4, op \in Transports, op = "capacity" => tries > 0, Finish(r)
  PROVE  /\ pc' \in {"command", "idle"} /\ ret' \in -1 .. 4 /\ tries' \in 0 .. RetryCount
         /\ toClear' = toClear
         /\ pc' = "command" /\ op = "capacity" => tries' > 0
         /\ pc' = "idle" /\ ret' = 0 => r = 0 \/ op = "inquiry"
<1> USE BulkAssumption DEF TypeOK
<1>1. CASE op = "capacity"
  BY <1>1 DEF Finish, Goto, Return
<1>2. CASE op \in {"read", "write"} /\ drv = "usbhdfsd" /\ r # 0
  BY <1>2 DEF Finish, Goto, Return
<1>3. CASE op = "inquiry"
  BY <1>3 DEF Finish, Goto, Return
<1>4. CASE /\ op # "capacity" /\ op # "inquiry"
           /\ ~(op \in {"read", "write"} /\ drv = "usbhdfsd" /\ r # 0)
  BY <1>4 DEF Finish, Goto, Return
<1> QED BY <1>1, <1>2, <1>3, <1>4

-----------------------------------------------------------------------------
(* The invariant *)

\* The warm-up starts with a control transfer that the device expects.
LEMMA Start == Init => IInv
<1> SUFFICES ASSUME Init PROVE IInv  OBVIOUS
<1> USE BulkAssumption DEF Init
<1>1. TypeOK
  <2>1. plan = Good("config") /\ plan.of = "config" /\ "config" \in AllOps
    BY DEF AllOps, ControlOps, Good, Plan
  <2>2. waiting \in BOOLEAN /\ open \in BOOLEAN /\ served \in BOOLEAN
    BY Zenon
  <2>3. /\ drv \in DOMAIN Faults /\ client \in {"warmup", "up", "failed"}
        /\ op \in AllOps /\ pc \in Pcs /\ phase \in {"cbw", "data", "csw", "wedged"}
        /\ toClear \subseteq {"in", "out"} /\ halted \subseteq {"in", "out"}
    BY <2>1 DEF Pcs
  <2>4. ret \in -1 .. 4 /\ tries \in 0 .. RetryCount /\ faults \in 0 .. MaxFaults
    OBVIOUS
  <2> QED BY <2>1, <2>2, <2>3, <2>4, Zenon DEF TypeOK
<1>2. Place
  BY DEF Place, ControlOps
<1>3. Told
  BY DEF Told, ControlOps
<1>4. Expects
  BY DEF Expects
<1> QED BY <1>1, <1>2, <1>3, <1>4 DEF IInv

\* A new operation starts with its command or its control transfer.
LEMMA BeginStep ==
  ASSUME IInv, pc = "idle", NEW o \in AllOps, Begin(o), client' \in {"warmup", "up", "failed"},
         client' = "warmup" => o \notin {"read", "write"},
         client' = "warmup" /\ drv = "usbstor" => o \notin {"lun", "inquiry", "sense", "start"}
  PROVE  IInv'
<1> USE BulkAssumption DEF Begin
<1>1. TypeOK'
  <2>1. Bad(o)' = Bad(o) /\ \A x : Bad(x)' = Bad(x)
    BY DEF Bad, Wrong
  <2>2. plan'.of \in AllOps /\ plan' \in ({Good(plan.of)} \cup Bad(plan.of))'
    BY <2>1 DEF IInv, TypeOK
  <2> QED BY <2>1, <2>2 DEF IInv, TypeOK, Pcs
<1>2. Place'
  BY DEF IInv, Place, AllOps, Transports
<1>3. Told'
  BY DEF Told
<1>4. open' => Expects'
  BY DEF IInv, Expects
<1> QED BY <1>1, <1>2, <1>3, <1>4 DEF IInv

\* WarmUp.
LEMMA WarmUpStep == ASSUME IInv, WarmUp PROVE IInv'
<1> USE DEF WarmUp
<1>1. PICK n \in Follows(op, ret) :
        IF n \in AllOps THEN Begin(n) /\ UNCHANGED client
        ELSE client' = n /\ UNCHANGED <<drv, op, pc, waiting, ret, tries, toClear, open, device>>
  OBVIOUS
<1>2. op \in AllOps \ {"read", "write"} /\ drv \in {"usbhdfsd", "usbstor"}
      /\ (drv = "usbstor" => op \in {"config", "interface", "ready", "sense2", "capacity"})
  BY BulkAssumption DEF IInv, TypeOK, Place, AllOps, InOps, OutOps, NoDataOps, ControlOps
<1>3. /\ n \in {"interface", "lun", "inquiry", "ready", "sense", "sense2", "start", "capacity", "up", "failed"}
      /\ drv = "usbstor" => n \in {"interface", "ready", "sense2", "capacity", "up"}
  <2>1. CASE drv = "usbstor"
    BY <1>1, <1>2, <2>1 DEF Follows, FollowsUsbstor
  <2>2. CASE drv = "usbhdfsd"
    BY <1>1, <1>2, <2>2 DEF Follows, FollowsUsbhdfsd, AllOps, InOps, OutOps, NoDataOps, ControlOps
  <2> QED BY <1>2, <2>1, <2>2
<1>4. CASE n \in AllOps
  BY <1>1, <1>3, <1>4, BeginStep DEF IInv, TypeOK
<1>5. CASE n \notin AllOps
  <2>1. n \in {"up", "failed"}
    BY <1>3, <1>5 DEF AllOps, InOps, OutOps, NoDataOps, ControlOps
  <2>2. client' = n /\ UNCHANGED <<drv, op, pc, waiting, ret, tries, toClear, open, phase, halted, plan, served, faults>>
    BY <1>1, <1>5 DEF device
  <2>3. TypeOK'
    BY <2>1, <2>2 DEF IInv, TypeOK, Bad, Wrong
  <2>4. Place' /\ Told'
    BY <2>1, <2>2 DEF IInv, Place, Told
  <2>5. open' => Expects'
    BY <2>2 DEF IInv, Expects, Bad, Wrong
  <2> QED BY <2>3, <2>4, <2>5 DEF IInv
<1> QED BY <1>4, <1>5

\* ReadOrWrite.
LEMMA ReadOrWriteStep == ASSUME IInv, ReadOrWrite PROVE IInv'
<1>1. PICK o \in SectorOps : Begin(o)
  BY DEF ReadOrWrite
<1>2. o \in AllOps /\ pc = "idle" /\ client' = "up"
  BY <1>1 DEF ReadOrWrite, SectorOps, AllOps, InOps, OutOps
<1> QED BY <1>1, <1>2, BeginStep

\* Submit.
LEMMA SubmitStep == ASSUME IInv, Submit PROVE IInv'
<1> USE DEF Submit, device
<1>1. TypeOK'
  BY Zenon DEF IInv, TypeOK, Bad, Wrong
<1>2. Place' /\ Told'
  BY DEF IInv, Place, Told
<1>3. open' => Expects'
  BY DEF IInv, Expects, Bad, Wrong
<1> QED BY <1>1, <1>2, <1>3 DEF IInv

\* Unplug.
LEMMA UnplugStep == ASSUME IInv, Unplug PROVE IInv'
<1> USE DEF Unplug, host, device
<1>1. TypeOK'
  BY Zenon DEF IInv, TypeOK, Bad, Wrong
<1>2. Place' /\ Told'
  BY DEF IInv, Place, Told
<1> QED BY <1>1, <1>2 DEF IInv

\* Where the thread may be after a transfer, and what it needs there.
Landed ==
  /\ pc \in Pcs \ {"control"} /\ ret \in -1 .. 4 /\ tries \in 0 .. RetryCount /\ toClear \subseteq {"in", "out"}
  /\ pc = "data" => op \notin NoDataOps
  /\ pc \in {"reset", "clearIn", "clearOut"} => drv = "usbhdfsd" /\ (ret # 0 \/ op = "inquiry")
  /\ op = "capacity" /\ pc # "idle" => tries > 0

\* An attempt of a transport that is over has landed well.
LEMMA FinishLands ==
  ASSUME IInv, NEW r \in -1 .. 4, op \in Transports, pc # "idle", Finish(r), op' = op, drv' = drv
  PROVE  Landed' /\ (pc' = "idle" /\ ret' = 0 => r = 0 \/ op = "inquiry") /\ toClear' = toClear
         /\ pc' \in {"command", "idle"}
<1>1. op = "capacity" => tries > 0
  BY DEF IInv, Place, Transports, ControlOps
<1> QED BY FinishStep, <1>1 DEF IInv, TypeOK, Landed, Pcs

\* A thread that has landed well is in its place.
LEMMA LandedPlace ==
  ASSUME IInv, Landed', op \in Transports, UNCHANGED <<drv, client, op>>
  PROVE  Place'
BY DEF IInv, Place, Landed, Transports, InOps, OutOps, NoDataOps, ControlOps

\* The types of the host's variables, of a thread that has landed well.
LEMMA LandedTypes ==
  ASSUME IInv, Landed', UNCHANGED <<drv, client, op>>, waiting' \in BOOLEAN, open' \in BOOLEAN,
         served' \in BOOLEAN, halted' \subseteq {"in", "out"}, phase' \in {"cbw", "data", "csw", "wedged"},
         plan'.of \in AllOps, plan' \in {Good(plan'.of)} \cup Bad(plan'.of), faults' \in 0 .. MaxFaults
  PROVE  TypeOK'
<1>1. \A x : Bad(x)' = Bad(x)
  BY DEF Bad, Wrong
<1>2. Bad(plan'.of) = Bad(plan.of)'
  BY DEF Bad, Wrong
<1> QED BY <1>2, Zenon DEF IInv, TypeOK, Landed, Good, Plan
\* What usb_bulk_manage_status makes of a status block, or of what stands for one.
LEMMA StatusLands ==
  ASSUME IInv, NEW g \in {"good", "fail", "phase", "invalid", "stallCapacity"},
         g \notin {"good", "fail"} => drv = "usbhdfsd", op \in Transports, pc # "idle", op' = op, drv' = drv,
         StatusRead(Status(g), g # "invalid")
  PROVE  /\ Landed'
         /\ pc' = "idle" /\ ret' = 0 => g = "good" \/ op = "inquiry"
         /\ IF g \in {"phase", "invalid"} THEN pc' = "reset" /\ toClear' = {"in", "out"}
            ELSE pc' \in {"command", "idle"}
<1>1. op = "capacity" => tries > 0
  BY DEF IInv, Place, Transports, ControlOps
<1>2. Status(g) \in 0 .. 2 /\ (Status(g) = 0 <=> g = "good") /\ (Status(g) = 2 <=> g = "phase")
  BY StatusTells
<1>3. CASE g \in {"phase", "invalid"}
  <2>1. drv = "usbhdfsd" /\ Recover(IF op = "inquiry" THEN ret ELSE Status(g), {"in", "out"})
    BY <1>2, <1>3 DEF StatusRead, Recovers
  <2>2. pc' = "reset" /\ toClear' = {"in", "out"} /\ tries' = tries /\ ret' = (IF op = "inquiry" THEN ret ELSE Status(g))
    BY <2>1 DEF Recover
  <2> QED BY <1>1, <1>2, <1>3, <2>1, <2>2 DEF IInv, TypeOK, Landed, Pcs
<1>4. CASE g \notin {"phase", "invalid"}
  <2>1. Finish(Status(g))
    BY <1>2, <1>4 DEF StatusRead, Recovers
  <2> QED BY <1>2, <1>4, <2>1, FinishLands
<1> QED BY <1>3, <1>4

\* What has been said when nothing was: a transport has not returned 0.
LEMMA LandedTold ==
  ASSUME op' = op, pc' = "idle" /\ ret' = 0 => op = "inquiry" \/ op \in ControlOps
  PROVE  Told'
BY DEF Told

\* SubmitFails: the device is gone.
LEMMA SubmitFailsStep == ASSUME IInv, SubmitFails PROVE IInv'
<1> USE DEF SubmitFails, device
<1>1. open' = FALSE /\ open = FALSE
  BY DEF IInv, TypeOK
<1>2. UNCHANGED <<drv, client, op>> /\ waiting' \in BOOLEAN /\ served' \in BOOLEAN /\ open' \in BOOLEAN
  BY DEF IInv, TypeOK
<1>3. /\ halted' \subseteq {"in", "out"} /\ phase' \in {"cbw", "data", "csw", "wedged"} /\ plan'.of \in AllOps
      /\ plan' \in {Good(plan'.of)} \cup Bad(plan'.of) /\ faults' \in 0 .. MaxFaults
  BY DEF IInv, TypeOK
<1>4. CASE UNCHANGED <<pc, ret, tries, toClear>>
  <2>1. TypeOK'
    BY <1>2, <1>4, Zenon DEF IInv, TypeOK, Bad, Wrong
  <2>2. Place' /\ Told'
    BY <1>2, <1>4 DEF IInv, Place, Told
  <2> QED BY <1>1, <2>1, <2>2 DEF IInv
<1>5. CASE pc = "control" /\ Return(0)
  <2>1. pc' = "idle" /\ ret' = 0 /\ tries' = tries /\ toClear' = toClear /\ op \in ControlOps
    BY <1>5 DEF Return, IInv, Place
  <2>2. Landed'
    BY <1>2, <2>1 DEF IInv, TypeOK, Landed, Pcs
  <2>3. TypeOK'
    BY <1>2, <1>3, <2>2, LandedTypes
  <2>4. Place' /\ Told'
    BY <1>2, <2>1 DEF IInv, Place, Told
  <2> QED BY <1>1, <2>3, <2>4 DEF IInv
<1>6. CASE pc \notin {"control", "idle"} /\ ~UNCHANGED <<pc, ret, tries, toClear>>
  <2>1. op \in Transports /\ (op = "capacity" => tries > 0)
    BY <1>6 DEF IInv, Place
  <2>2. Landed' /\ (pc' = "idle" /\ ret' = 0 => op = "inquiry")
    <3>1. CASE pc = "command"
      <4>1. Goto(AfterCommand(op))
        BY <1>6, <3>1
      <4> QED BY <1>2, <2>1, <3>1, <4>1 DEF Goto, AfterCommand, IInv, TypeOK, Landed, Pcs
    <3>2. CASE pc = "data"
      <4>1. AfterData(-1)
        BY <1>6, <3>2
      <4>2. pc' = "status" /\ tries' = tries /\ toClear' = toClear /\ ret' \in {-1, ret}
        BY <4>1 DEF AfterData
      <4> QED BY <1>2, <2>1, <4>2 DEF IInv, TypeOK, Landed, Pcs
    <3>3. CASE pc = "status"
      BY <1>2, <1>6, <2>1, <3>3 DEF Goto, IInv, TypeOK, Landed, Pcs
    <3>4. CASE pc = "clear"
      BY <1>2, <1>6, <2>1, <3>4 DEF Goto, IInv, TypeOK, Landed, Pcs
    <3>5. CASE pc = "status2"
      <4>1. Finish(-1)
        BY <1>6, <3>5
      <4> QED BY <1>2, <2>1, <3>5, <4>1, FinishLands
    <3>6. CASE pc \in {"reset", "clearOut"}
      <4>1. Finish(ret) /\ ret \in -1 .. 4 /\ (ret # 0 \/ op = "inquiry")
        BY <1>6, <3>6 DEF IInv, TypeOK, Place
      <4> QED BY <1>2, <2>1, <3>6, <4>1, FinishLands
    <3>7. CASE pc = "clearIn"
      <4>1. AfterClearIn /\ ret \in -1 .. 4 /\ (ret # 0 \/ op = "inquiry") /\ drv = "usbhdfsd"
        BY <1>6, <3>7 DEF IInv, TypeOK, Place
      <4>2. CASE "out" \in toClear
        BY <1>2, <2>1, <4>1, <4>2 DEF AfterClearIn, Goto, IInv, TypeOK, Landed, Pcs
      <4>3. CASE "out" \notin toClear
        <5>1. Finish(ret)
          BY <4>1, <4>3 DEF AfterClearIn
        <5> QED BY <1>2, <2>1, <3>7, <4>1, <5>1, FinishLands
      <4> QED BY <4>2, <4>3
    <3> QED BY <1>6, <3>1, <3>2, <3>3, <3>4, <3>5, <3>6, <3>7 DEF IInv, TypeOK, Pcs
  <2>3. TypeOK'
    BY <1>2, <1>3, <2>2, LandedTypes
  <2>4. Place' /\ Told'
    BY <1>2, <2>1, <2>2, LandedPlace, LandedTold
  <2> QED BY <1>1, <2>3, <2>4 DEF IInv
<1> QED BY <1>4, <1>5, <1>6
\* The device's answer to a transport that lands well, and what it then expects.
LEMMA AnswerLands ==
  ASSUME IInv, Answered, pc # "idle", op \in Transports, Landed', Told', Expects',
         served' \in BOOLEAN, halted' \subseteq {"in", "out"}, phase' \in {"cbw", "data", "csw", "wedged"},
         plan'.of \in AllOps, plan' \in {Good(plan'.of)} \cup Bad(plan'.of), faults' \in 0 .. MaxFaults
  PROVE  IInv'
<1>1. UNCHANGED <<drv, client, op>> /\ waiting' \in BOOLEAN /\ open' \in BOOLEAN
  BY DEF Answered, IInv, TypeOK
<1>2. TypeOK'
  BY <1>1, LandedTypes
<1>3. Place'
  BY <1>1, LandedPlace
<1> QED BY <1>2, <1>3 DEF IInv

\* AnswerCommand.
LEMMA AnswerCommandStep == ASSUME IInv, Survived, AnswerCommand PROVE IInv'
<1> USE DEF AnswerCommand
<1>1. open /\ Expects /\ UNCHANGED <<drv, client, op, open>>
  BY DEF Answered, IInv
<1>2. op \in Transports /\ (op = "capacity" => tries > 0) /\ halted = {} /\ phase = "cbw" /\ op \in AllOps
  BY <1>1 DEF IInv, TypeOK, Place, Expects
<1>3. phase' = (IF op \in NoDataOps THEN "csw" ELSE "data") /\ served' = FALSE /\ halted' = halted
  BY <1>2
<1>4. PICK p \in Plans(op) : plan' = p /\ faults' = (IF p = Good(op) THEN faults ELSE faults + 1)
  BY <1>2
<1>5. p \in {Good(op)} \cup Bad(op) /\ faults' \in 0 .. MaxFaults
  BY <1>4, BulkAssumption DEF Plans, IInv, TypeOK
<1>6. p.of = op
  BY <1>2, <1>5, PlansKnown DEF IInv
<1>7. pc' = (IF op \in NoDataOps THEN "status" ELSE "data") /\ UNCHANGED <<ret, tries, toClear>>
  BY DEF Goto, AfterCommand
<1>8. Landed'
  BY <1>1, <1>2, <1>7 DEF IInv, TypeOK, Landed, Pcs
<1>9. Told'
  BY <1>7 DEF Told
<1>10. plan' \in {Good(op')} \cup Bad(op)'
  BY <1>1, <1>4, <1>5 DEF Bad, Wrong
<1>11. Expects'
  BY <1>2, <1>3, <1>7, <1>10 DEF Expects
<1> QED
  BY <1>1, <1>2, <1>3, <1>4, <1>5, <1>6, <1>8, <1>9, <1>11, AnswerLands DEF IInv, TypeOK

\* AnswerData.
LEMMA AnswerDataStep == ASSUME IInv, Survived, AnswerData PROVE IInv'
<1> USE DEF AnswerData
<1>1. open /\ Expects /\ UNCHANGED <<drv, client, op, open, plan, served, faults>>
  BY DEF Answered, IInv
<1>2. op \in Transports \ NoDataOps /\ (op = "capacity" => tries > 0) /\ op \in AllOps
  BY DEF IInv, TypeOK, Place
<1>3. halted = {} /\ plan \in {Good(op)} \cup Bad(op)
  BY <1>1 DEF Expects
<1>4. plan.of = op /\ (plan.goes \in {"stallCapacity", "stallIn"} => op = "capacity" /\ drv = "usbhdfsd")
  BY <1>2, <1>3, PlansKnown DEF IInv
<1>5. phase' = "csw" /\ DataPipe(op) \in {"in", "out"} /\ (op = "capacity" => DataPipe(op) = "in")
  BY <1>3 DEF DataPipe, OutOps
<1>6. plan' \in {Good(op')} \cup Bad(op)' /\ plan'.of \in AllOps /\ plan' \in {Good(plan'.of)} \cup Bad(plan'.of)
  BY <1>1, <1>2, <1>3, <1>4 DEF Bad, Wrong
<1>7. CASE plan.goes \notin {"stallCapacity", "stallIn"}
  <2>1. AfterData(0) /\ halted' = halted
    BY <1>3, <1>7
  <2>2. pc' = "status" /\ UNCHANGED <<tries, toClear>> /\ ret' \in {0, ret}
    BY <2>1 DEF AfterData
  <2>3. Landed'
    BY <1>1, <1>2, <2>2 DEF IInv, TypeOK, Landed, Pcs
  <2>4. Told' /\ Expects'
    BY <1>3, <1>5, <1>6, <2>1, <2>2 DEF Told, Expects
  <2> QED BY <1>1, <1>2, <1>3, <1>5, <1>6, <2>1, <2>3, <2>4, AnswerLands DEF IInv, TypeOK
<1>8. CASE plan.goes \in {"stallCapacity", "stallIn"}
  <2>1. AfterData(4) /\ halted' = {"in"}
    BY <1>3, <1>4, <1>5, <1>8
  <2>2. pc' = "reset" /\ toClear' = {"in"} /\ ret' = 4 /\ tries' = tries
    BY <1>4, <1>8, <2>1 DEF AfterData, Recovers, Recover
  <2>3. Landed'
    BY <1>1, <1>2, <1>4, <1>8, <2>2 DEF IInv, TypeOK, Landed, Pcs
  <2>4. Told' /\ Expects'
    BY <2>1, <2>2 DEF Told, Expects
  <2> QED BY <1>1, <1>2, <1>3, <1>5, <1>6, <2>1, <2>3, <2>4, AnswerLands DEF IInv, TypeOK
<1> QED BY <1>7, <1>8

\* AnswerStatus.
LEMMA AnswerStatusStep == ASSUME IInv, Survived, AnswerStatus PROVE IInv'
<1> USE DEF AnswerStatus
<1>1. open /\ Expects /\ UNCHANGED <<drv, client, op, open, plan, faults>>
  BY DEF Answered, IInv
<1>2. op \in Transports /\ op \in AllOps /\ pc = "status"
  BY <1>1 DEF IInv, TypeOK, Place, Expects
<1>3. halted = {} /\ plan \in {Good(op)} \cup Bad(op)
  BY <1>1, <1>2 DEF Expects
<1>4. /\ plan.of = op /\ plan = Plan(op, plan.goes)
      /\ plan.goes \in {"good", "fail", "phase", "invalid", "stallCapacity"}
      /\ plan.goes \notin {"good", "fail"} => drv = "usbhdfsd"
  BY <1>2, <1>3, PlansKnown DEF IInv
<1>5. /\ StatusRead(Status(plan.goes), plan.goes # "invalid")
      /\ served' = (plan = Good(op))
      /\ IF plan.goes \in {"phase", "invalid"} THEN phase' = "wedged" /\ halted' \in SUBSET {"in", "out"}
         ELSE phase' = "cbw" /\ halted' = halted
  BY <1>3
<1>6. /\ Landed'
      /\ pc' = "idle" /\ ret' = 0 => plan.goes = "good" \/ op = "inquiry"
      /\ IF plan.goes \in {"phase", "invalid"} THEN pc' = "reset" /\ toClear' = {"in", "out"}
         ELSE pc' \in {"command", "idle"}
  BY <1>1, <1>2, <1>4, <1>5, StatusLands
<1>7. Told'
  <2> SUFFICES ASSUME pc' = "idle", ret' = 0, op # "inquiry" PROVE served' /\ plan'.of = op'
    BY <1>1 DEF Told
  <2>1. plan = Good(op)
    BY <1>4, <1>6 DEF Good
  <2> QED BY <1>1, <1>4, <1>5, <2>1
<1>8. Expects'
  BY <1>3, <1>5, <1>6 DEF Expects
<1>9. plan'.of \in AllOps /\ plan' \in {Good(plan'.of)} \cup Bad(plan'.of) /\ served' \in BOOLEAN
  BY <1>1, <1>2, <1>3, <1>4, <1>5
<1>10. halted' \subseteq {"in", "out"} /\ phase' \in {"cbw", "data", "csw", "wedged"} /\ faults' \in 0 .. MaxFaults
  BY <1>1, <1>3, <1>5 DEF IInv, TypeOK
<1> QED BY <1>2, <1>6, <1>7, <1>8, <1>9, <1>10, AnswerLands

\* AnswerControl.
LEMMA AnswerControlStep == ASSUME IInv, AnswerControl PROVE IInv'
<1> USE DEF AnswerControl
<1>1. open /\ Expects /\ UNCHANGED <<drv, client, op, open, plan, served, faults>>
  BY DEF Answered, IInv
<1>2. plan'.of \in AllOps /\ plan' \in {Good(plan'.of)} \cup Bad(plan'.of) /\ served' \in BOOLEAN
      /\ faults' \in 0 .. MaxFaults
  BY <1>1 DEF IInv, TypeOK
<1>3. halted' \subseteq {"in", "out"} /\ phase' \in {"cbw", "data", "csw", "wedged"}
  BY DEF IInv, TypeOK
<1>4. CASE pc = "control"
  <2>1. /\ pc' = "idle" /\ ret' = 0 /\ tries' = tries /\ toClear' = toClear
        /\ op \in ControlOps /\ halted' = {} /\ phase' = "cbw"
    BY <1>1, <1>4 DEF Return, IInv, Place, Expects
  <2>2. Landed'
    BY <1>1, <2>1 DEF IInv, TypeOK, Landed, Pcs
  <2>3. waiting' \in BOOLEAN /\ open' \in BOOLEAN
    BY DEF Answered, IInv, TypeOK
  <2>4. TypeOK'
    BY <1>1, <1>2, <1>3, <2>2, <2>3, LandedTypes
  <2>5. Place' /\ Told' /\ Expects'
    BY <1>1, <2>1 DEF IInv, Place, Told, Expects
  <2> QED BY <2>4, <2>5 DEF IInv
<1>5. CASE pc # "control"
  <2>1. /\ pc \in {"reset", "clearIn", "clearOut"} /\ op \in Transports /\ (op = "capacity" => tries > 0)
        /\ drv = "usbhdfsd" /\ (ret # 0 \/ op = "inquiry") /\ ret \in -1 .. 4
        /\ toClear \in {{"in"}, {"in", "out"}}
    BY <1>1, <1>5 DEF IInv, TypeOK, Place, Expects
  <2>2. CASE pc = "reset"
    <3>1. pc' = "clearIn" /\ UNCHANGED <<ret, tries, toClear>> /\ phase' = "cbw" /\ halted' = halted
      BY <2>1, <2>2 DEF AfterReset, Goto
    <3>2. Landed' /\ Told' /\ Expects'
      BY <1>1, <2>1, <2>2, <3>1 DEF IInv, TypeOK, Landed, Pcs, Told, Expects
    <3> QED BY <1>2, <1>3, <2>1, <3>2, AnswerLands
  <2>3. CASE pc = "clearIn" /\ "out" \in toClear
    <3>1. /\ pc' = "clearOut" /\ UNCHANGED <<ret, tries, toClear>> /\ phase' = "cbw"
          /\ halted' = halted \ {"in"} /\ halted \subseteq toClear
      BY <1>1, <2>1, <2>3 DEF AfterClearIn, Goto, Expects
    <3>2. Landed' /\ Told' /\ Expects'
      BY <1>1, <2>1, <2>3, <3>1 DEF IInv, TypeOK, Landed, Pcs, Told, Expects
    <3> QED BY <1>2, <1>3, <2>1, <3>2, AnswerLands
  <2>4. CASE pc = "clearOut" \/ (pc = "clearIn" /\ "out" \notin toClear)
    <3>1. Finish(ret) /\ phase' = "cbw" /\ halted' = {}
      BY <1>1, <2>1, <2>4 DEF AfterClearIn, Expects
    <3>2. /\ Landed' /\ (pc' = "idle" /\ ret' = 0 => op = "inquiry")
          /\ pc' \in {"command", "idle"}
      BY <1>1, <2>1, <3>1, FinishLands
    <3>3. Told' /\ Expects'
      BY <1>1, <3>1, <3>2, LandedTold DEF Expects
    <3> QED BY <1>2, <1>3, <2>1, <3>2, <3>3, AnswerLands
  <2> QED BY <2>1, <2>2, <2>3, <2>4
<1> QED BY <1>4, <1>5

\* Every step keeps the invariant.
LEMMA Step == IInv /\ Survived /\ [Next]_vars => IInv'
<1> SUFFICES ASSUME IInv, Survived, [Next]_vars PROVE IInv'  OBVIOUS
<1>1. CASE UNCHANGED vars
  <2> USE <1>1 DEF vars, host, device
  <2>1. TypeOK'
    BY Zenon DEF IInv, TypeOK, Bad, Wrong
  <2>2. Place' /\ Told'
    BY DEF IInv, Place, Told
  <2>3. open' => Expects'
    BY DEF IInv, Expects, Bad, Wrong
  <2> QED BY <2>1, <2>2, <2>3 DEF IInv
<1> QED
  BY <1>1, WarmUpStep, ReadOrWriteStep, SubmitStep, SubmitFailsStep, AnswerCommandStep, AnswerDataStep,
     AnswerStatusStep, AnswerControlStep, UnplugStep DEF Next, HostStep, DeviceStep

\* The invariant of the specification, and what holds of its steps.
LEMMA Invariant == ASSUME Survived PROVE Spec => []IInv
<1>1. IInv /\ [Next]_vars => IInv'
  BY Step
<1> QED BY <1>1, Start, PTL DEF Spec

-----------------------------------------------------------------------------
(* The theorems *)

\* The variables of both drivers and of the device stay in their domains; attempts and
\* faults are never counted past their bounds (usb_driver.c).
THEOREM Types == ASSUME Survived PROVE Spec => []TypeOK
<1>1. IInv => TypeOK
  BY DEF IInv
<1> QED BY <1>1, Invariant, PTL

\* What returns success was carried out by the device, from a command to a good status,
\* through any number of failures, resets, cleared halts and removals, if no endpoint halts
\* in the place of data (usb_bulk_manage_status, usb_bulk_status).
THEOREM TrueSuccess == ASSUME Survived PROVE Spec => []SuccessIsTrue
<1>1. IInv => SuccessIsTrue
  BY DEF IInv, Told, SuccessIsTrue
<1> QED BY <1>1, Invariant, PTL

\* A command is only sent to a device that expects one, with no endpoint halted, whatever
\* the one before ended in (usb_bulk_reset).
THEOREM Synchronised == ASSUME Survived PROVE Spec => []InStep
<1>1. IInv => InStep
  BY DEF IInv, Expects, InStep
<1> QED BY <1>1, Invariant, PTL

\* usbhdfsd takes a device only with a capacity that it reported (mass_stor_warmup).
THEOREM TrueCapacity == ASSUME Survived PROVE Spec => UpMeansCapacity
<1>1. IInv /\ [Next]_vars =>
        [client' = "up" /\ client # "up" /\ drv = "usbhdfsd" => served /\ plan.of = "capacity"]_vars
  <2> SUFFICES ASSUME IInv, Next, client' = "up", client # "up", drv = "usbhdfsd"
               PROVE  served /\ plan.of = "capacity"
    OBVIOUS
  <2>1. WarmUp
    BY DEF Next, HostStep, DeviceStep, ReadOrWrite, Submit, SubmitFails, Unplug, host, Answered,
           AnswerCommand, AnswerData, AnswerStatus, AnswerControl
  <2>2. op \in AllOps \ {"read", "write"}
    BY <2>1 DEF WarmUp, IInv, TypeOK, Place
  <2>3. "up" \in FollowsUsbhdfsd(op, ret) /\ pc = "idle"
    BY <2>1 DEF WarmUp, Follows, AllOps, InOps, OutOps, NoDataOps, ControlOps
  <2>4. op = "capacity" /\ ret = 0
    BY <2>2, <2>3 DEF FollowsUsbhdfsd, AllOps, InOps, OutOps, NoDataOps, ControlOps
  <2> QED BY <2>3, <2>4 DEF IInv, Told, ControlOps
<1> QED BY <1>1, Invariant, PTL DEF Spec, UpMeansCapacity

(***************************************************************************)
(* The directories                                                         *)
(***************************************************************************)

AnyName == Name \cup Sequenced \cup {Dot, DotDot}
Sfns(s) == {j \in DOMAIN s : s[j].kind = "sfn"}

\* The short name is one made for n.
Fits(n, short) ==
  IF n \in DOMAIN Base THEN \E k \in 0 .. MaxSeq : short = [base |-> Base[n], seq |-> k] ELSE short = n

\* Before entry j are the entries of name n, all of them and in order.
Block(s, n, j) ==
  /\ n \in Name /\ j \in Sfns(s) /\ j > Parts[n] /\ Fits(n, s[j].short)
  /\ \A q \in 1 .. Parts[n] : s[j - q] = Lfn(n, q)

HasLong(s, j, x) == j > 1 /\ s[j - 1] = Lfn(x, 1)
Named(s, j, x) == s[j].short = x \/ HasLong(s, j, x)

Packed(s) == \A i, j \in DOMAIN s : i < j /\ s[i] = End => s[j] = End
Whole(s) ==
  \A i \in DOMAIN s : s[i].kind = "lfn" =>
    s[i].part \in 1 .. Parts[s[i].name] /\ Block(s, s[i].name, i + s[i].part)
Apart(s) == \A i, j \in Sfns(s), x \in AnyName : Named(s, i, x) /\ Named(s, j, x) => i = j
OneLabel(s) == \A i, j \in DOMAIN s : s[i].kind = "label" /\ s[j].kind = "label" => i = j

DirSound(s) == s \in Seq(Entry) /\ Len(s) >= 1 /\ Packed(s) /\ Whole(s) /\ Apart(s) /\ OneLabel(s)

Domains(e) ==
  /\ e = [d \in DOMAIN e |-> e[d]]
  /\ DOMAIN e \subseteq Cluster \cup {Root} /\ Root \in DOMAIN e
HeadsSound(e) ==
  /\ \A j \in Sfns(e[Root]) : e[Root][j].dir => e[Root][j].head \in DOMAIN e \ {Root}
  /\ \A i, j \in Sfns(e[Root]) :
       e[Root][i].dir /\ e[Root][j].dir /\ e[Root][i].head = e[Root][j].head => i = j
  /\ \A d \in DOMAIN e \ {Root} :
       /\ {1, 2} \subseteq Sfns(e[d])
       /\ \A j \in Sfns(e[d]) : e[d][j].dir <=> j \in {1, 2}
DirsSound(e) == Domains(e) /\ HeadsSound(e) /\ \A d \in DOMAIN e : DirSound(e[d])

HandleSound(e, f) ==
  \/ f = None
  \/ /\ f.at \in (DOMAIN e) \X Nat /\ f.size \in 0 .. MaxSize
     /\ f = [at |-> f.at, name |-> f.name, path |-> f.path, size |-> f.size, write |-> f.write, grew |-> f.grew]
     /\ f.at[2] \in Sfns(e[f.at[1]]) /\ ~e[f.at[1]][f.at[2]].dir
HandlesSound(e, f) == f = [h \in Handle |-> f[h]] /\ \A h \in Handle : HandleSound(e, f[h])

Staying(s, stay) == {j \in Sfns(s) : NameOf(s, j) \in stay}
ListFields(e, l) ==
  /\ l.dir \in DOMAIN e /\ l.index \in Nat /\ l.stay \subseteq AnyName
  /\ l = [dir |-> l.dir, index |-> l.index, next |-> l.next, stay |-> l.stay, seen |-> l.seen]
InBlock(s, i, j) == i \in DOMAIN s /\ s[i].kind = "lfn" /\ i + s[i].part = j
\* before the next file is read
ListBase(s, l) ==
  /\ l.seen \subseteq l.stay
  /\ \A x \in l.stay : \E j \in Sfns(s) : NameOf(s, j) = x
  /\ \A j \in Staying(s, l.stay) : j > l.index => ~InBlock(s, l.index, j)
ListReady(s, l) ==
  /\ ListBase(s, l)
  /\ \A j \in Staying(s, l.stay) : NameOf(s, j) \in l.seen <=> j <= l.index
ListGoes(s, l) ==
  /\ ListBase(s, l)
  /\ \A j \in Staying(s, l.stay) : NameOf(s, j) \in l.seen <=> j < l.index
  /\ \A j \in Staying(s, l.stay) : j = l.index => l.next = NameOf(s, j)
  /\ l.next \in l.stay => l.index \in Sfns(s) /\ NameOf(s, l.index) = l.next
ListOpen(e, l) == ListFields(e, l) /\ IF l.next = None THEN l.seen = l.stay ELSE ListGoes(e[l.dir], l)
ListSound(e, l) == l = None \/ ListOpen(e, l)

DirIInv ==
  /\ slip \in BOOLEAN
  /\ ~slip => DirsSound(entries) /\ HandlesSound(entries, handle) /\ ListSound(entries, list)

-----------------------------------------------------------------------------
(* Constants, numbers and entries *)

\* What the assumptions say of the numbers.
LEMMA Consts ==
  /\ EntryCount \in Nat /\ EntryCount >= 1 /\ MaxSeq \in Nat /\ MaxSize \in Nat
  /\ \A n \in Name : Parts[n] \in Nat /\ Parts[n] >= 1 /\ Parts[n] < EntryCount
<1>1. \A n \in Name : Parts[n] \in Nat \ {0} /\ Parts[n] < EntryCount
  BY DirAssumption
<1>2. EntryCount \in Nat \ {0} /\ MaxSeq \in Nat /\ MaxSize \in Nat
  BY DirAssumption
<1> QED BY <1>1, <1>2

\* A set of numbers that is not empty has a least.
LEMMA LeastIs ==
  ASSUME NEW S \in SUBSET Nat, S # {}
  PROVE  Least(S) \in S /\ \A y \in S : Least(S) <= y
<1> DEFINE R == {p \in Nat \X Nat : p[1] < p[2]}
<1>1. IsWellFoundedOn(R, Nat)
  <2>1. OpToRel(<, Nat) = R
    BY DEF OpToRel
  <2> QED BY <2>1, NatLessThanWellFounded
<1> HIDE DEF R
<1>2. PICK x \in S : \A y \in S : <<y, x>> \notin R
  BY <1>1, WFMin
<1>3. ASSUME NEW y \in S PROVE x <= y
  <2>1. <<y, x>> \notin R /\ <<y, x>> \in Nat \X Nat
    BY <1>2
  <2>2. ~(y < x)
    BY <2>1 DEF R
  <2> QED BY <2>1, <2>2
<1>4. \E m \in S : \A y \in S : m <= y
  BY <1>3
<1> QED BY <1>4, Zenon DEF Least

\* A set of numbers up to a bound that is not empty has a greatest.
LEMMA GreatestIs ==
  ASSUME NEW b \in Nat, NEW S \in SUBSET (0 .. b), S # {}
  PROVE  Greatest(S) \in S /\ \A y \in S : Greatest(S) >= y
<1> DEFINE T == {b - x : x \in S}
<1>1. T \in SUBSET Nat /\ T # {}
  <2>1. \A x \in S : b - x \in Nat
    OBVIOUS
  <2>2. T \in SUBSET Nat
    BY <2>1
  <2>3. PICK x \in S : TRUE
    OBVIOUS
  <2>4. b - x \in T
    BY <2>3
  <2> QED BY <2>2, <2>4
<1>2. Least(T) \in T /\ \A y \in T : Least(T) <= y
  BY <1>1, LeastIs
<1>3. PICK x \in S : Least(T) = b - x
  BY <1>2
<1>4. \A y \in S : x >= y
  <2>1. \A y \in S : b - x <= b - y
    BY <1>2, <1>3
  <2> QED BY <2>1
<1>5. \E m \in S : \A y \in S : m >= y
  BY <1>4
<1> QED BY <1>5, Zenon DEF Greatest

\* The entry found last before entry j, of some kinds: none of these is after it.
LEMMA LastBeforeIs ==
  ASSUME NEW s, NEW j \in Nat, j >= 1, NEW kinds
  PROVE  /\ LastBefore(s, j, kinds) \in 0 .. j - 1
         /\ LastBefore(s, j, kinds) # 0 => s[LastBefore(s, j, kinds)].kind \in kinds
         /\ \A i \in LastBefore(s, j, kinds) + 1 .. j - 1 : s[i].kind \notin kinds
<1> DEFINE S == {0} \cup {i \in 1 .. j - 1 : s[i].kind \in kinds}
<1>1. S \in SUBSET (0 .. j - 1) /\ S # {} /\ j - 1 \in Nat
  OBVIOUS
<1>2. Greatest(S) \in S /\ \A y \in S : Greatest(S) >= y
  BY <1>1, GreatestIs
<1>3. LastBefore(s, j, kinds) = Greatest(S)
  BY DEF LastBefore
<1> HIDE DEF S
<1>4. Greatest(S) \in 0 .. j - 1 /\ (Greatest(S) # 0 => s[Greatest(S)].kind \in kinds)
  BY <1>2 DEF S
<1>5. ASSUME NEW i \in Greatest(S) + 1 .. j - 1, s[i].kind \in kinds PROVE FALSE
  <2>1. i \in 1 .. j - 1
    BY <1>4
  <2>2. i \in S
    BY <2>1, <1>5 DEF S
  <2> QED BY <2>2, <1>2, <1>4, <2>1
<1> QED BY <1>3, <1>4, <1>5

\* What the kind of an entry says of it.
LEMMA EntryIs ==
  ASSUME NEW x \in Entry
  PROVE  /\ x.kind \in {"end", "deleted", "label", "lfn", "sfn"}
         /\ x.kind = "end" => x = End
         /\ x.kind = "deleted" => x = Deleted
         /\ x.kind = "label" => x \in Labels
         /\ x.kind = "lfn" => x.name \in Name /\ x.part \in Nat /\ x = Lfn(x.name, x.part)
         /\ x.kind = "sfn" => /\ x.short \in AnyName /\ x.dir \in BOOLEAN
                              /\ x.head \in Cluster \cup {Root, None} /\ x.size \in 0 .. MaxSize
                              /\ x = [kind |-> "sfn", short |-> x.short, dir |-> x.dir, head |-> x.head,
                                      size |-> x.size]
<1>1. CASE x \in [kind : {"end", "deleted"}]
  BY <1>1 DEF End, Deleted
<1>4. CASE x \in Labels
  BY <1>4 DEF Labels, Label
<1>2. CASE x \in [kind : {"lfn"}, name : Name, part : Nat]
  BY <1>2 DEF Lfn
<1>3. CASE x \in [kind : {"sfn"}, short : Name \cup Sequenced \cup {Dot, DotDot}, dir : BOOLEAN,
                  head : Cluster \cup {Root, None}, size : 0 .. MaxSize]
  BY <1>3 DEF AnyName
<1> QED BY <1>1, <1>2, <1>3, <1>4 DEF Entry

\* The entries there are.
LEMMA EntriesAre ==
  /\ End \in Entry /\ Deleted \in Entry /\ Labels \subseteq Entry
  /\ \A n \in Name, q \in Nat : Lfn(n, q) \in Entry
  /\ \A short \in AnyName, dir \in BOOLEAN, head \in Cluster \cup {Root, None}, size \in 0 .. MaxSize :
       [kind |-> "sfn", short |-> short, dir |-> dir, head |-> head, size |-> size] \in Entry
<1>1. End \in Entry /\ Deleted \in Entry /\ Labels \subseteq Entry
  BY DEF End, Deleted, Entry
<1>2. \A n \in Name, q \in Nat : Lfn(n, q) \in Entry
  BY DEF Lfn, Entry
<1>3. ASSUME NEW short \in AnyName, NEW dir \in BOOLEAN, NEW head \in Cluster \cup {Root, None},
             NEW size \in 0 .. MaxSize
      PROVE  [kind |-> "sfn", short |-> short, dir |-> dir, head |-> head, size |-> size] \in Entry
  BY <1>3 DEF Entry, AnyName
<1> QED BY <1>1, <1>2, <1>3

\* So is the entry of a new file or directory.
LEMMA SfnIs ==
  ASSUME NEW short \in AnyName, NEW dir \in BOOLEAN, NEW head \in Cluster \cup {Root, None}
  PROVE  Sfn(short, dir, head) \in Entry
<1>1. 0 \in 0 .. MaxSize
  BY Consts
<1>2. [kind |-> "sfn", short |-> short, dir |-> dir, head |-> head, size |-> 0] \in Entry
  BY <1>1, EntriesAre
<1> QED BY <1>2 DEF Sfn

\* No entry is of two kinds.
LEMMA Kinds ==
  /\ End.kind = "end" /\ Deleted.kind = "deleted" /\ \A x \in Labels : x.kind = "label"
  /\ \A n, q : Lfn(n, q).kind = "lfn" /\ Lfn(n, q).name = n /\ Lfn(n, q).part = q
  /\ \A short, dir, head : /\ Sfn(short, dir, head).kind = "sfn" /\ Sfn(short, dir, head).short = short
                           /\ Sfn(short, dir, head).dir = dir /\ Sfn(short, dir, head).head = head
                           /\ Sfn(short, dir, head).size = 0
BY DEF End, Deleted, Labels, Label, Lfn, Sfn

-----------------------------------------------------------------------------
(* What scans find *)

\* The entries of a directory.
LEMMA At ==
  ASSUME NEW s, DirSound(s), NEW i \in DOMAIN s
  PROVE  s[i] \in Entry /\ i \in 1 .. Len(s) /\ i \in Nat /\ i >= 1 /\ i <= Len(s) /\ Len(s) \in Nat
<1>1. s \in Seq(Entry)
  BY DEF DirSound
<1> QED BY <1>1

\* A scan goes through all the entries in use, up to the first that was never used.
LEMMA CountIs ==
  ASSUME NEW s \in Seq(Entry), Len(s) >= 1, Packed(s)
  PROVE  /\ Count(s) \in 1 .. Len(s)
         /\ \A i \in DOMAIN s : i < Count(s) => s[i].kind # "end"
         /\ \A i \in DOMAIN s : i > Count(s) => s[i] = End
         /\ s[Count(s)] = End \/ Count(s) = Len(s)
<1> DEFINE ends == {j \in DOMAIN s : s[j] = End}
<1>1. DOMAIN s = 1 .. Len(s) /\ Len(s) \in Nat /\ ends \in SUBSET Nat
  OBVIOUS
<1>2. \A i \in DOMAIN s : s[i] \in Entry
  OBVIOUS
<1>3. \A i \in DOMAIN s : s[i] = End <=> s[i].kind = "end"
  BY <1>2, EntryIs, Kinds
<1>4. CASE ends = {}
  <2>1. Count(s) = Len(s)
    BY <1>4 DEF Count
  <2> QED BY <1>1, <1>3, <1>4, <2>1
<1>5. CASE ends # {}
  <2>1. Count(s) = Least(ends)
    BY <1>5 DEF Count
  <2>2. Least(ends) \in ends /\ \A y \in ends : Least(ends) <= y
    BY <1>1, <1>5, LeastIs
  <2>3. \A i \in DOMAIN s : i > Count(s) => s[i] = End
    BY <2>1, <2>2 DEF Packed
  <2>4. ASSUME NEW i \in DOMAIN s, i < Count(s) PROVE s[i] # End
    <3>1. SUFFICES ASSUME s[i] = End PROVE FALSE
      OBVIOUS
    <3>2. i \in ends
      BY <3>1
    <3> HIDE DEF ends
    <3> QED BY <3>2, <2>1, <2>2, <2>4, <1>1
  <2> QED BY <1>1, <1>3, <2>1, <2>2, <2>3, <2>4
<1> QED BY <1>4, <1>5

\* So it finds every file, and every entry in use.
LEMMA ScanIsAll ==
  ASSUME NEW s \in Seq(Entry), Len(s) >= 1, Packed(s)
  PROVE  /\ Files(s) = Sfns(s)
         /\ Taken(s) = {j \in DOMAIN s : s[j].kind \in {"sfn", "lfn", "label"}}
         /\ Taken(s) \subseteq 1 .. Count(s)
<1>1. Count(s) \in 1 .. Len(s) /\ \A i \in DOMAIN s : i > Count(s) => s[i] = End
  BY CountIs
<1>2. DOMAIN s = 1 .. Len(s) /\ Len(s) \in Nat
  OBVIOUS
<1>3. \A j \in DOMAIN s : s[j].kind \in {"sfn", "lfn", "label"} => j <= Count(s)
  BY <1>1, <1>2, Kinds
<1>4. Files(s) = Sfns(s)
  BY <1>1, <1>2, <1>3 DEF Files, Sfns
<1>5. Taken(s) = {j \in DOMAIN s : s[j].kind \in {"sfn", "lfn", "label"}}
  BY <1>1, <1>2, <1>3 DEF Taken
<1>6. Taken(s) \subseteq 1 .. Count(s)
  BY DEF Taken
<1> QED BY <1>4, <1>5, <1>6

\* The same for a directory that is as it should be.
LEMMA DirScans ==
  ASSUME NEW s, DirSound(s)
  PROVE  /\ Files(s) = Sfns(s)
         /\ Taken(s) = {j \in DOMAIN s : s[j].kind \in {"sfn", "lfn", "label"}}
         /\ Count(s) \in 1 .. Len(s) /\ Len(s) \in Nat /\ DOMAIN s = 1 .. Len(s)
         /\ s[Count(s)] = End \/ Count(s) = Len(s)
         /\ \A i \in DOMAIN s : i > Count(s) => s[i] = End
         /\ \A i \in DOMAIN s : i < Count(s) => s[i].kind # "end"
<1>1. s \in Seq(Entry) /\ Len(s) >= 1 /\ Packed(s)
  BY DEF DirSound
<1> QED BY <1>1, CountIs, ScanIsAll

\* A part of a long name belongs to the first file after it.
LEMMA BlockOf ==
  ASSUME NEW s, DirSound(s), NEW i \in DOMAIN s, s[i].kind = "lfn", NEW j \in Sfns(s), i < j,
         \A k \in i + 1 .. j - 1 : s[k].kind # "sfn"
  PROVE  /\ i + s[i].part = j /\ Block(s, s[i].name, j) /\ HasLong(s, j, s[i].name)
         /\ s[i].part \in 1 .. Parts[s[i].name] /\ s[i].name \in Name
<1> DEFINE n == s[i].name
           p == s[i].part
           J == i + p
<1>1. i \in Nat /\ j \in Nat /\ i >= 1 /\ j \in DOMAIN s /\ s[i] \in Entry /\ s[j].kind = "sfn"
  BY At DEF Sfns
<1>2. n \in Name /\ p \in Nat /\ s[i] = Lfn(n, p)
  BY <1>1, EntryIs
<1>3. p \in 1 .. Parts[n] /\ Block(s, n, J)
  BY DEF DirSound, Whole
<1>4. Parts[n] \in Nat /\ Parts[n] >= 1
  BY <1>2, Consts
<1>5. J \in Sfns(s) /\ J > Parts[n] /\ \A q \in 1 .. Parts[n] : s[J - q] = Lfn(n, q)
  BY <1>3 DEF Block
<1> HIDE DEF n
<1>6. s[J].kind = "sfn" /\ J \in Nat
  BY <1>1, <1>2, <1>5 DEF Sfns
<1>7. ~(J < j)
  <2>1. SUFFICES ASSUME J < j PROVE FALSE
    OBVIOUS
  <2>2. J \in i + 1 .. j - 1
    BY <2>1, <1>1, <1>3, <1>4
  <2> QED BY <2>2, <1>6
<1>8. ~(J > j)
  <2>1. SUFFICES ASSUME J > j PROVE FALSE
    OBVIOUS
  <2>2. J - j \in 1 .. Parts[n] /\ J - (J - j) = j
    BY <2>1, <1>1, <1>2, <1>3, <1>4
  <2>3. s[j] = Lfn(n, J - j)
    BY <2>2, <1>5
  <2> QED BY <2>3, <1>1, Kinds
<1>9. J = j
  BY <1>7, <1>8, <1>6, <1>1
<1>10. HasLong(s, j, n)
  <2>1. s[J - 1] = Lfn(n, 1) /\ J > 1
    BY <1>4, <1>5, <1>6
  <2> QED BY <2>1, <1>9 DEF HasLong
<1> QED BY <1>2, <1>3, <1>9, <1>10 DEF n

\* A file with a long name has all the entries of it.
LEMMA LongBlock ==
  ASSUME NEW s, DirSound(s), NEW j \in Sfns(s), NEW x, HasLong(s, j, x)
  PROVE  x \in Name /\ Block(s, x, j) /\ j - 1 \in DOMAIN s /\ s[j - 1].kind = "lfn" /\ s[j - 1].name = x
<1>1. j \in DOMAIN s /\ j > 1 /\ s[j - 1] = Lfn(x, 1)
  BY DEF Sfns, HasLong
<1>2. j - 1 \in DOMAIN s /\ j \in Nat
  BY <1>1, DirScans
<1>3. s[j - 1].kind = "lfn" /\ s[j - 1].name = x /\ s[j - 1].part = 1
  BY <1>1, Kinds
<1>4. s[j - 1] \in Entry
  BY <1>2, At
<1>5. x \in Name
  BY <1>3, <1>4, EntryIs
<1>6. Block(s, s[j - 1].name, (j - 1) + s[j - 1].part)
  BY <1>2, <1>3 DEF DirSound, Whole
<1>7. (j - 1) + 1 = j
  BY <1>2
<1> QED BY <1>2, <1>3, <1>5, <1>6, <1>7

\* When no other file is between, a scan from an entry on that does not begin amid the name of
\* a file finds the whole name; when it begins there it finds none.
LEMMA LongIsIs ==
  ASSUME NEW s, DirSound(s), NEW j \in Sfns(s), NEW from \in 0 .. j - 1, NEW n \in Name,
         \A k \in from + 1 .. j - 1 : s[k].kind # "sfn"
  PROVE  LongIs(s, from, j, n) <=> ~InBlock(s, from, j) /\ HasLong(s, j, n)
<1> DEFINE I(q) == {i \in from + 1 .. j - 1 : s[i].kind = "lfn" /\ s[i].part = q}
<1>1. j \in DOMAIN s /\ j \in Nat /\ from \in Nat /\ DOMAIN s = 1 .. Len(s) /\ Len(s) \in Nat /\ j <= Len(s)
  BY At, DirScans DEF Sfns
<1>2. Parts[n] \in Nat /\ Parts[n] >= 1
  BY Consts
<1>3. ASSUME NEW q \in 1 .. Parts[n], NEW i \in I(q)
      PROVE  i = j - q /\ HasLong(s, j, s[i].name) /\ Block(s, s[i].name, j)
  <2>1. i \in DOMAIN s /\ s[i].kind = "lfn" /\ s[i].part = q /\ i < j /\ i \in Nat
    BY <1>1, <1>3
  <2>2. \A k \in i + 1 .. j - 1 : s[k].kind # "sfn"
    BY <1>1, <1>3
  <2>3. i + q = j /\ HasLong(s, j, s[i].name) /\ Block(s, s[i].name, j)
    BY <2>1, <2>2, BlockOf
  <2> QED BY <2>1, <2>3, <1>2
<1>4. \A q \in 1 .. Parts[n] : I(q) # {} => Greatest(I(q)) \in I(q)
  <2>1. SUFFICES ASSUME NEW q \in 1 .. Parts[n], I(q) # {} PROVE Greatest(I(q)) \in I(q)
    OBVIOUS
  <2>2. I(q) \in SUBSET (0 .. j) /\ j \in Nat
    BY <1>1
  <2> HIDE DEF I
  <2> QED BY <2>1, <2>2, GreatestIs
<1>5. LongIs(s, from, j, n) <=> \A q \in 1 .. Parts[n] : I(q) # {} /\ s[Greatest(I(q))].name = n
  BY DEF LongIs
<1>6. ASSUME ~InBlock(s, from, j), HasLong(s, j, n) PROVE LongIs(s, from, j, n)
  <2>1. Block(s, n, j)
    BY <1>6, LongBlock
  <2>2. j > Parts[n] /\ \A q \in 1 .. Parts[n] : s[j - q] = Lfn(n, q)
    BY <2>1 DEF Block
  <2>3. ASSUME NEW q \in 1 .. Parts[n] PROVE I(q) # {} /\ s[Greatest(I(q))].name = n
    <3>1. s[j - q].kind = "lfn" /\ s[j - q].part = q /\ s[j - q].name = n
      BY <2>2, Kinds
    <3>2. from < j - q
      <4>1. SUFFICES ASSUME from >= j - q PROVE FALSE
        BY <1>1, <1>2
      <4>2. j - from \in 1 .. Parts[n] /\ from \in DOMAIN s /\ j - (j - from) = from
        BY <4>1, <1>1, <1>2, <2>2
      <4>3. s[from] = Lfn(n, j - from)
        BY <4>2, <2>2
      <4>4. s[from].kind = "lfn" /\ from + s[from].part = j
        BY <4>3, Kinds, <1>1
      <4> QED BY <4>2, <4>4, <1>6 DEF InBlock
    <3>3. j - q \in I(q)
      BY <3>1, <3>2, <1>1, <1>2
    <3>4. Greatest(I(q)) \in I(q)
      BY <3>3, <1>4
    <3> HIDE DEF I
    <3>5. Greatest(I(q)) = j - q
      BY <3>4, <1>3
    <3> QED BY <3>1, <3>3, <3>5
  <2> QED BY <2>3, <1>5
<1>7. ASSUME LongIs(s, from, j, n) PROVE HasLong(s, j, n) /\ ~InBlock(s, from, j)
  <2>1. \A q \in 1 .. Parts[n] : I(q) # {} /\ s[Greatest(I(q))].name = n
    BY <1>7, <1>5
  <2>2. HasLong(s, j, n) /\ Block(s, n, j)
    <3>1. 1 \in 1 .. Parts[n]
      BY <1>2
    <3>2. Greatest(I(1)) \in I(1) /\ s[Greatest(I(1))].name = n
      BY <3>1, <2>1, <1>4
    <3> HIDE DEF I
    <3> QED BY <3>1, <3>2, <1>3
  <2>3. SUFFICES ASSUME InBlock(s, from, j) PROVE FALSE
    BY <2>2
  <2>4. from \in DOMAIN s /\ s[from].kind = "lfn" /\ from + s[from].part = j
    BY <2>3 DEF InBlock
  <2>5. /\ HasLong(s, j, s[from].name) /\ s[from].part \in 1 .. Parts[s[from].name]
    BY <2>4, <1>1, BlockOf
  <2>6. s[from].name = n
    BY <2>2, <2>5, Kinds DEF HasLong
  <2>7. Parts[n] \in 1 .. Parts[n]
    BY <1>2
  <2>8. PICK i : i \in I(Parts[n])
    BY <2>1, <2>7
  <2>9. i \in from + 1 .. j - 1
    BY <2>8
  <2> HIDE DEF I
  <2>10. i = j - Parts[n]
    BY <2>7, <2>8, <1>3
  <2> QED BY <2>4, <2>5, <2>6, <2>9, <2>10, <1>1, <1>2
<1> QED BY <1>6, <1>7

\* The name of a file in full, by the entry before its own.
LongName(s, j) == IF j > 1 /\ s[j - 1].kind = "lfn" THEN s[j - 1].name ELSE s[j].short

\* A file has a long name exactly when the entry before its own is of one.
LEMMA LongThere ==
  ASSUME NEW s, DirSound(s), NEW j \in Sfns(s)
  PROVE  /\ \A x : HasLong(s, j, x) => LongName(s, j) = x
         /\ j > 1 /\ s[j - 1].kind = "lfn" => /\ HasLong(s, j, LongName(s, j)) /\ LongName(s, j) \in Name
                                              /\ j - 1 \in DOMAIN s /\ InBlock(s, j - 1, j)
         /\ ~(j > 1 /\ s[j - 1].kind = "lfn") => LongName(s, j) = s[j].short /\ \A x : ~HasLong(s, j, x)
<1>1. j \in DOMAIN s /\ j \in Nat /\ DOMAIN s = 1 .. Len(s) /\ Len(s) \in Nat
  BY At, DirScans DEF Sfns
<1>2. \A x : HasLong(s, j, x) => j > 1 /\ s[j - 1].kind = "lfn" /\ s[j - 1].name = x
  BY Kinds DEF HasLong
<1>3. ASSUME j > 1, s[j - 1].kind = "lfn"
      PROVE  HasLong(s, j, s[j - 1].name) /\ s[j - 1].name \in Name /\ j - 1 \in DOMAIN s /\ InBlock(s, j - 1, j)
  <2>1. j - 1 \in DOMAIN s /\ j - 1 < j /\ \A k \in (j - 1) + 1 .. j - 1 : s[k].kind # "sfn"
    BY <1>1, <1>3
  <2>2. (j - 1) + s[j - 1].part = j /\ HasLong(s, j, s[j - 1].name) /\ s[j - 1].name \in Name
    BY <2>1, <1>3, BlockOf
  <2> QED BY <2>1, <2>2, <1>3 DEF InBlock
<1> QED BY <1>2, <1>3 DEF LongName

\* The name a scan gives a file: the short one when it began amid the long one.
LEMMA NameFromIs ==
  ASSUME NEW s, DirSound(s), NEW j \in Sfns(s), NEW from \in 0 .. j - 1,
         \A k \in from + 1 .. j - 1 : s[k].kind # "sfn"
  PROVE  NameFrom(s, from, j) = IF InBlock(s, from, j) THEN s[j].short ELSE LongName(s, j)
<1> DEFINE read == {s[i].name : i \in {k \in from + 1 .. j - 1 : s[k].kind = "lfn"}}
           spelt == {n \in read : LongIs(s, from, j, n)}
<1>1. NameFrom(s, from, j) = IF spelt = {} THEN s[j].short ELSE CHOOSE n \in spelt : TRUE
  BY DEF NameFrom
<1>2. j \in DOMAIN s /\ j \in Nat /\ DOMAIN s = 1 .. Len(s) /\ Len(s) \in Nat /\ from \in Nat
  BY At, DirScans DEF Sfns
<1>3. read \subseteq Name
  <2>1. SUFFICES ASSUME NEW k \in from + 1 .. j - 1, s[k].kind = "lfn" PROVE s[k].name \in Name
    OBVIOUS
  <2>2. k \in DOMAIN s
    BY <1>2
  <2>3. s[k] \in Entry
    BY <2>2, At
  <2> QED BY <2>1, <2>3, EntryIs
<1>4. \A n \in spelt : ~InBlock(s, from, j) /\ HasLong(s, j, n)
  <2>1. \A n \in Name : LongIs(s, from, j, n) => ~InBlock(s, from, j) /\ HasLong(s, j, n)
    BY LongIsIs
  <2> QED BY <2>1, <1>3
<1>5. CASE InBlock(s, from, j) \/ ~(j > 1 /\ s[j - 1].kind = "lfn")
  <2>1. spelt = {}
    BY <1>4, <1>5, LongThere
  <2> HIDE DEF spelt
  <2> QED BY <2>1, <1>1, <1>5, LongThere
<1>6. CASE ~InBlock(s, from, j) /\ j > 1 /\ s[j - 1].kind = "lfn"
  <2>1. HasLong(s, j, LongName(s, j)) /\ LongName(s, j) \in Name /\ j - 1 \in DOMAIN s /\ InBlock(s, j - 1, j)
    BY <1>6, LongThere
  <2>2. from # j - 1
    BY <1>6, <2>1
  <2>3. j - 1 \in from + 1 .. j - 1 /\ s[j - 1].name = LongName(s, j)
    BY <2>2, <1>2, <1>6 DEF LongName
  <2>4. LongIs(s, from, j, LongName(s, j))
    BY <2>1, <1>6, LongIsIs
  <2>5. LongName(s, j) \in spelt
    BY <2>3, <2>4, <1>6
  <2>6. \A n \in spelt : n = LongName(s, j)
    BY <1>4, LongThere
  <2> HIDE DEF spelt
  <2>7. (CHOOSE n \in spelt : TRUE) \in spelt
    BY <2>5
  <2>8. (CHOOSE n \in spelt : TRUE) = LongName(s, j)
    BY <2>6, <2>7
  <2> QED BY <1>1, <1>6, <2>5, <2>8
<1> QED BY <1>5, <1>6

\* The entry of the file before file j, from which on its name is read.
LEMMA LastSfnIs ==
  ASSUME NEW s, DirSound(s), NEW j \in Sfns(s)
  PROVE  /\ LastBefore(s, j, {"sfn"}) \in 0 .. j - 1
         /\ \A k \in LastBefore(s, j, {"sfn"}) + 1 .. j - 1 : s[k].kind # "sfn"
         /\ ~InBlock(s, LastBefore(s, j, {"sfn"}), j)
<1>1. j \in Nat /\ j >= 1
  BY At DEF Sfns
<1> DEFINE g == LastBefore(s, j, {"sfn"})
<1>2. g \in 0 .. j - 1 /\ (g # 0 => s[g].kind \in {"sfn"}) /\ \A i \in g + 1 .. j - 1 : s[i].kind \notin {"sfn"}
  BY <1>1, LastBeforeIs
<1> HIDE DEF g
<1>3. ~InBlock(s, g, j)
  <2>1. SUFFICES ASSUME InBlock(s, g, j) PROVE FALSE
    OBVIOUS
  <2>2. g \in DOMAIN s /\ s[g].kind = "lfn"
    BY <2>1 DEF InBlock
  <2>3. g # 0
    BY <2>2, DirScans
  <2> QED BY <2>2, <2>3, <1>2
<1> QED BY <1>2, <1>3 DEF g

\* NameOf is the name in full.
LEMMA NameOfIs ==
  ASSUME NEW s, DirSound(s), NEW j \in Sfns(s)
  PROVE  NameOf(s, j) = LongName(s, j) /\ NameOf(s, j) \in AnyName /\ Named(s, j, NameOf(s, j))
<1>1. NameOf(s, j) = LongName(s, j)
  BY LastSfnIs, NameFromIs DEF NameOf
<1>2. s[j] \in Entry /\ s[j].kind = "sfn"
  BY At DEF Sfns
<1>3. s[j].short \in AnyName
  BY <1>2, EntryIs
<1>4. LongName(s, j) \in AnyName /\ Named(s, j, LongName(s, j))
  BY <1>3, LongThere DEF Named, AnyName
<1> QED BY <1>1, <1>4

\* Match finds the one file that has a name, or none has it.
LEMMA MatchIs ==
  ASSUME NEW s, DirSound(s), NEW n \in AnyName
  PROVE  /\ Match(s, n) = 0 => \A j \in Sfns(s) : ~Named(s, j, n)
         /\ Match(s, n) # 0 => Match(s, n) \in Sfns(s) /\ Named(s, Match(s, n), n)
         /\ \A j \in Sfns(s) : Named(s, j, n) => Match(s, n) = j
<1> DEFINE M == {j \in Files(s) : s[j].short = n \/ (n \in Name /\ LongIs(s, LastBefore(s, j, {"sfn"}), j, n))}
<1>1. ASSUME NEW j \in Sfns(s) PROVE j \in M <=> Named(s, j, n)
  <2>1. j \in M <=> s[j].short = n \/ (n \in Name /\ LongIs(s, LastBefore(s, j, {"sfn"}), j, n))
    BY DirScans
  <2>2. n \in Name => (LongIs(s, LastBefore(s, j, {"sfn"}), j, n) <=> HasLong(s, j, n))
    BY LastSfnIs, LongIsIs
  <2>3. HasLong(s, j, n) => n \in Name
    BY LongBlock
  <2> HIDE DEF M
  <2> QED BY <2>1, <2>2, <2>3 DEF Named
<1>2. M \subseteq Sfns(s) /\ Sfns(s) \subseteq Nat /\ 0 \notin Sfns(s)
  BY DirScans DEF Sfns
<1>3. Match(s, n) = IF M = {} THEN 0 ELSE Least(M)
  BY DEF Match
<1> HIDE DEF M
<1>4. M # {} => Least(M) \in M
  BY <1>2, LeastIs
<1>5. \A i, j \in M : i = j
  BY <1>1, <1>2 DEF DirSound, Apart
<1> QED BY <1>1, <1>2, <1>3, <1>4, <1>5

\* What has the name is found, if nothing else is.
LEMMA FoundIs ==
  ASSUME NEW s, DirSound(s), NEW n \in AnyName, Found(s, n) = 0
  PROVE  Match(s, n) = 0
<1> DEFINE M == {j \in Files(s) : Match(s, n) = j \/ Labelled(s, j, n)}
<1>1. Found(s, n) = IF M = {} THEN 0 ELSE Least(M)
  BY DEF Found
<1>2. M \in SUBSET Nat /\ 0 \notin M
  BY DirScans DEF Sfns
<1>3. Match(s, n) # 0 => Match(s, n) \in M
  BY DirScans, MatchIs
<1> HIDE DEF M
<1>4. M # {} => Least(M) \in M
  BY <1>2, LeastIs
<1> QED BY <1>1, <1>2, <1>3, <1>4

-----------------------------------------------------------------------------
(* What the invariant says of names *)

\* Directories that are as they should be have long names that are whole.
LEMMA WholeIs ==
  ASSUME \A d \in DOMAIN entries : DirSound(entries[d])
  PROVE  LongNamesWhole
<1>1. SUFFICES ASSUME NEW s, DirSound(s), NEW j \in 1 .. Count(s), s[j].kind = "lfn"
      PROVE /\ s[j].part < Parts[s[j].name] => j > 1 /\ s[j - 1] = Lfn(s[j].name, s[j].part + 1)
            /\ IF s[j].part > 1 THEN s[j + 1] = Lfn(s[j].name, s[j].part - 1)
               ELSE s[j + 1].kind = "sfn" /\ s[j + 1].short = IF s[j].name \in DOMAIN Base
                      THEN [base |-> Base[s[j].name], seq |-> s[j + 1].short.seq] ELSE s[j].name
  BY DEF LongNamesWhole
<1>2. j \in DOMAIN s /\ j \in Nat /\ j >= 1
  BY <1>1, DirScans
<1> DEFINE n == s[j].name
           p == s[j].part
           J == j + p
<1>3. p \in 1 .. Parts[n] /\ Block(s, n, J)
  BY <1>1, <1>2 DEF DirSound, Whole
<1>4. n \in Name /\ J \in Sfns(s) /\ J > Parts[n] /\ Fits(n, s[J].short) /\ \A q \in 1 .. Parts[n] : s[J - q] = Lfn(n, q)
  BY <1>3 DEF Block
<1>5. Parts[n] \in Nat /\ p \in Nat /\ p >= 1 /\ p <= Parts[n]
  BY <1>3, <1>4, Consts
<1> HIDE DEF n, p
<1>6. ASSUME p < Parts[n] PROVE j > 1 /\ s[j - 1] = Lfn(n, p + 1)
  <2>1. p + 1 \in 1 .. Parts[n] /\ J - (p + 1) = j - 1 /\ j > 1
    BY <1>2, <1>4, <1>5, <1>6
  <2> QED BY <2>1, <1>4
<1>7. ASSUME p > 1 PROVE s[j + 1] = Lfn(n, p - 1)
  <2>1. p - 1 \in 1 .. Parts[n] /\ J - (p - 1) = j + 1
    BY <1>2, <1>5, <1>7
  <2> QED BY <2>1, <1>4
<1>8. ASSUME ~(p > 1)
      PROVE  s[j + 1].kind = "sfn" /\ s[j + 1].short = IF n \in DOMAIN Base
               THEN [base |-> Base[n], seq |-> s[j + 1].short.seq] ELSE n
  <2>1. J = j + 1
    BY <1>5, <1>8, <1>2
  <2>2. s[j + 1].kind = "sfn" /\ Fits(n, s[j + 1].short)
    BY <2>1, <1>4 DEF Sfns
  <2>3. CASE n \in DOMAIN Base
    <3>1. PICK k \in 0 .. MaxSeq : s[j + 1].short = [base |-> Base[n], seq |-> k]
      BY <2>2, <2>3 DEF Fits
    <3>2. s[j + 1].short.seq = k
      BY <3>1
    <3> QED BY <2>2, <2>3, <3>1, <3>2
  <2>4. CASE n \notin DOMAIN Base
    BY <2>2, <2>4 DEF Fits
  <2> QED BY <2>3, <2>4
<1> QED BY <1>6, <1>7, <1>8 DEF n, p

\* The invariant is as strong as NamesLeadBack.
LEMMA IInvNames == DirIInv => NamesLeadBack
<1>1. SUFFICES ASSUME DirIInv, ~slip
      PROVE LongNamesWhole /\ \A d \in DOMAIN entries : LET s == entries[d]
              IN \A j \in Files(s) : Match(s, s[j].short) = j /\ Match(s, NameOf(s, j)) = j
  BY Zenon DEF NamesLeadBack
<1>2. \A d \in DOMAIN entries : DirSound(entries[d])
  BY <1>1 DEF DirIInv, DirsSound
<1>3. ASSUME NEW s, DirSound(s), NEW j \in Files(s)
      PROVE  Match(s, s[j].short) = j /\ Match(s, NameOf(s, j)) = j
  <2>1. j \in Sfns(s)
    BY <1>3, DirScans
  <2>2. s[j] \in Entry /\ s[j].kind = "sfn"
    BY <2>1, <1>3, At DEF Sfns
  <2>3. s[j].short \in AnyName /\ Named(s, j, s[j].short)
    BY <2>2, EntryIs DEF Named
  <2> QED BY <2>1, <2>3, <1>3, NameOfIs, MatchIs
<1> QED BY <1>2, <1>3, WholeIs

\* What the listing gives, by the invariant.
LEMMA IInvListed == DirIInv => ListedOnce
<1>1. SUFFICES ASSUME DirIInv, ~slip, list # None
      PROVE  list.next \notin list.seen /\ (list.next = None => list.seen = list.stay)
  BY DEF ListedOnce
<1>2. ListFields(entries, list) /\ IF list.next = None THEN list.seen = list.stay
                                  ELSE ListGoes(entries[list.dir], list)
  BY <1>1 DEF DirIInv, ListSound, ListOpen
<1>3. DirSound(entries[list.dir]) /\ None \notin AnyName /\ list.stay \subseteq AnyName
  BY <1>1, <1>2, MountAssumption DEF DirIInv, DirsSound, ListFields, AnyName
<1>4. CASE list.next = None
  BY <1>2, <1>3, <1>4
<1>5. CASE list.next # None
  <2>1. ListGoes(entries[list.dir], list)
    BY <1>2, <1>5
  <2>2. SUFFICES ASSUME list.next \in list.seen PROVE FALSE
    BY <1>5
  <2>3. list.next \in list.stay
    BY <2>1, <2>2 DEF ListGoes, ListBase
  <2>4. list.index \in Sfns(entries[list.dir]) /\ NameOf(entries[list.dir], list.index) = list.next
    BY <2>1, <2>3 DEF ListGoes
  <2>5. list.index \in Staying(entries[list.dir], list.stay) /\ list.index \in Nat
    BY <2>3, <2>4, <1>2 DEF Staying, ListFields
  <2> QED BY <2>1, <2>2, <2>4, <2>5 DEF ListGoes
<1> QED BY <1>4, <1>5

-----------------------------------------------------------------------------
(* Where entries are stored *)

\* A run is of entries not in use, before one that is.
LEMMA RunIs ==
  ASSUME NEW s, DirSound(s), NEW r \in Runs(s)
  PROVE  /\ r[1] \in Nat /\ r[2] \in Nat /\ 1 <= r[1] /\ r[1] <= r[2] /\ r[2] < Count(s)
         /\ \A m \in r[1] .. r[2] : m \notin Taken(s)
<1> DEFINE used == Taken(s)
<1>1. used \subseteq Nat /\ Count(s) \in Nat /\ \A k \in used : k <= Count(s)
  BY DirScans DEF Taken
<1>2. PICK i \in (1 .. Count(s)) \ used :
        (\E k \in used : k > i) /\ r = <<i, Least({k \in used : k > i}) - 1>>
  BY DEF Runs
<1> HIDE DEF used
<1> DEFINE S == {k \in used : k > i}
<1>3. S \in SUBSET Nat /\ S # {}
  BY <1>1, <1>2
<1>4. Least(S) \in S /\ \A y \in S : Least(S) <= y
  BY <1>3, LeastIs
<1>5. i \in Nat /\ i >= 1 /\ Least(S) \in Nat /\ Least(S) > i /\ Least(S) <= Count(s)
  <2>1. \A k \in S : k \in Nat /\ k > i /\ k <= Count(s)
    BY <1>1
  <2> HIDE DEF S
  <2> QED BY <2>1, <1>1, <1>2, <1>4
<1>6. ASSUME NEW m \in i .. Least(S) - 1 PROVE m \notin used
  <2>1. SUFFICES ASSUME m \in used PROVE FALSE
    OBVIOUS
  <2>2. m # i /\ m \in Nat
    BY <2>1, <1>2, <1>5
  <2>3. m \in S
    BY <2>1, <2>2, <1>5
  <2> HIDE DEF S
  <2> QED BY <2>2, <2>3, <1>4, <1>5
<1>7. r[1] = i /\ r[2] = Least(S) - 1
  BY <1>2
<1> HIDE DEF S
<1> QED BY <1>1, <1>5, <1>6, <1>7 DEF used

\* Is the entry, if there is one, not in use?
IsFree(s, i) == i \in DOMAIN s => s[i].kind \in {"end", "deleted"}

\* getDirentryStoreOffset gives a place where nothing is in use, up to which nothing is unused.
LEMMA StoreIs ==
  ASSUME NEW s, DirSound(s), NEW n \in Name
  PROVE  /\ StoreAt(s, Parts[n] + 1) \in 1 .. Len(s) + 1
         /\ \A i \in StoreAt(s, Parts[n] + 1) .. StoreAt(s, Parts[n] + 1) + Parts[n] : IsFree(s, i)
         /\ \A i \in DOMAIN s : i < StoreAt(s, Parts[n] + 1) => s[i].kind # "end"
<1> DEFINE size == Parts[n] + 1
           runs == Runs(s)
           tight == {r[1] : r \in {q \in runs : q[2] - q[1] + 1 = size}}
           loose == {r \in runs : r[2] - r[1] + 1 > size}
           first == CHOOSE r \in loose : \A q \in loose : r[1] <= q[1]
           at == StoreAt(s, size)
<1>1. at = IF tight # {} THEN Least(tight) ELSE IF loose # {} THEN first[2] + 1 - size ELSE AtEnd(s)
  BY DEF StoreAt
<1>2. /\ Taken(s) = {j \in DOMAIN s : s[j].kind \in {"sfn", "lfn", "label"}}
      /\ Count(s) \in 1 .. Len(s) /\ Len(s) \in Nat /\ DOMAIN s = 1 .. Len(s)
      /\ s[Count(s)] = End \/ Count(s) = Len(s)
      /\ \A i \in DOMAIN s : i > Count(s) => s[i] = End
      /\ \A i \in DOMAIN s : i < Count(s) => s[i].kind # "end"
  BY DirScans
<1>3. Parts[n] \in Nat /\ Parts[n] >= 1
  BY Consts
<1>4. \A i \in DOMAIN s : i \notin Taken(s) => s[i].kind \in {"end", "deleted"}
  <2>1. \A i \in DOMAIN s : s[i] \in Entry
    BY At
  <2> QED BY <1>2, <2>1, EntryIs
<1>5. \A r \in runs : /\ r[1] \in Nat /\ r[2] \in Nat /\ 1 <= r[1] /\ r[1] <= r[2] /\ r[2] < Count(s)
                      /\ \A m \in r[1] .. r[2] : m \notin Taken(s)
  BY RunIs
<1> HIDE DEF runs
<1>6. ASSUME NEW r \in runs, NEW a, a = r[2] - Parts[n], a >= r[1]
      PROVE  /\ a \in 1 .. Len(s) + 1 /\ \A i \in a .. a + Parts[n] : IsFree(s, i)
             /\ \A i \in DOMAIN s : i < a => s[i].kind # "end"
  <2>1. /\ r[1] \in Nat /\ r[2] \in Nat /\ 1 <= r[1] /\ r[1] <= r[2] /\ r[2] < Count(s)
        /\ \A m \in r[1] .. r[2] : m \notin Taken(s)
    BY <1>5
  <2>2. a \in Nat /\ a + Parts[n] = r[2]
    BY <2>1, <1>3, <1>6
  <2>3. \A i \in a .. a + Parts[n] : i \in r[1] .. r[2]
    BY <2>1, <2>2, <1>6
  <2>4. \A i \in a .. a + Parts[n] : IsFree(s, i)
    BY <2>1, <2>3, <1>4 DEF IsFree
  <2>5. a \in 1 .. Len(s) + 1 /\ a <= Count(s)
    BY <2>1, <2>2, <1>2, <1>3, <1>6
  <2>6. \A i \in DOMAIN s : i < a => s[i].kind # "end"
    BY <2>5, <1>2
  <2> QED BY <2>4, <2>5, <2>6
<1>7. CASE tight # {}
  <2>1. tight \in SUBSET Nat
    BY <1>5
  <2>2. Least(tight) \in tight
    BY <2>1, <1>7, LeastIs
  <2>3. PICK r \in runs : r[2] - r[1] + 1 = size /\ Least(tight) = r[1]
    BY <2>2
  <2> HIDE DEF tight
  <2>4. at = r[1] /\ r[1] = r[2] - Parts[n] /\ r[1] >= r[1]
    BY <2>3, <1>1, <1>3, <1>5, <1>7
  <2> QED BY <2>4, <1>6
<1>8. CASE tight = {} /\ loose # {}
  <2> DEFINE S == {r[1] : r \in loose}
  <2>1. S \in SUBSET Nat /\ S # {}
    BY <1>5, <1>8
  <2>2. Least(S) \in S /\ \A y \in S : Least(S) <= y
    BY <2>1, LeastIs
  <2>3. PICK r \in loose : r[1] = Least(S)
    BY <2>2
  <2>4. \A q \in loose : r[1] <= q[1]
    BY <2>2, <2>3
  <2> HIDE DEF S, loose
  <2>5. \E x \in loose : \A q \in loose : x[1] <= q[1]
    BY <2>4
  <2>6. first \in loose
    BY <2>5
  <2> HIDE DEF first, tight
  <2>7. first \in runs /\ first[2] - first[1] + 1 > size /\ at = first[2] + 1 - size
    BY <2>6, <1>1, <1>8 DEF loose
  <2>8. at = first[2] - Parts[n] /\ at >= first[1]
    BY <2>7, <1>3, <1>5
  <2> QED BY <2>7, <2>8, <1>6
<1>9. CASE tight = {} /\ loose = {}
  <2> HIDE DEF tight, loose
  <2>1. at = AtEnd(s)
    BY <1>1, <1>9
  <2>2. CASE Count(s) \in Taken(s)
    <3>1. s[Count(s)].kind # "end"
      BY <2>2, <1>2
    <3>2. Count(s) = Len(s) /\ at = Len(s) + 1
      BY <3>1, <2>1, <2>2, <1>2, Kinds DEF AtEnd
    <3>3. \A i \in at .. at + Parts[n] : i \notin DOMAIN s
      BY <3>2, <1>2
    <3> HIDE DEF at
    <3>4. at \in 1 .. Len(s) + 1 /\ \A i \in at .. at + Parts[n] : IsFree(s, i)
      BY <3>2, <3>3, <1>2 DEF IsFree
    <3>5. \A i \in DOMAIN s : i < at => s[i].kind # "end"
      BY <3>1, <3>2, <1>2
    <3> QED BY <3>4, <3>5 DEF at
  <2>3. CASE Count(s) \notin Taken(s)
    <3>1. at = Count(s)
      BY <2>1, <2>3 DEF AtEnd
    <3>2. \A i \in DOMAIN s : i >= Count(s) => s[i].kind \in {"end", "deleted"}
      BY <2>3, <1>2, <1>4, Kinds
    <3> HIDE DEF at
    <3>3. at \in 1 .. Len(s) + 1 /\ \A i \in at .. at + Parts[n] : IsFree(s, i)
      BY <3>1, <3>2, <1>2, <1>3 DEF IsFree
    <3>4. \A i \in DOMAIN s : i < at => s[i].kind # "end"
      BY <3>1, <1>2
    <3> QED BY <3>3, <3>4 DEF at
  <2> QED BY <2>2, <2>3
<1> QED BY <1>7, <1>8, <1>9

-----------------------------------------------------------------------------
(* Changes that keep what the names are *)

\* t is directory s with other sizes of files, or longer.
Alike(s, t) ==
  /\ t \in Seq(Entry) /\ DOMAIN s \subseteq DOMAIN t
  /\ \A i \in DOMAIN s :
       \/ t[i] = s[i]
       \/ /\ s[i].kind = "sfn" /\ t[i].kind = "sfn"
          /\ t[i].short = s[i].short /\ t[i].dir = s[i].dir /\ t[i].head = s[i].head
  /\ \A i \in DOMAIN t \ DOMAIN s : t[i] = End

\* Is file j the same in both?
SameFor(s, t, j) ==
  /\ t[j].short = s[j].short /\ t[j].dir = s[j].dir /\ t[j].head = s[j].head
  /\ NameOf(t, j) = NameOf(s, j)
  /\ \A i : InBlock(t, i, j) <=> InBlock(s, i, j)
SameFiles(s, t) == Sfns(t) = Sfns(s) /\ \A j \in Sfns(s) : SameFor(s, t, j)
SameSizes(s, t) == \A j \in Sfns(s) \cap Sfns(t) : t[j].size = s[j].size

\* Such a directory is as it should be, with the same files.
LEMMA AlikeSound ==
  ASSUME NEW s, NEW t, DirSound(s), Alike(s, t)
  PROVE  DirSound(t) /\ SameFiles(s, t)
<1>1. s \in Seq(Entry) /\ DOMAIN s = 1 .. Len(s) /\ Len(s) \in Nat /\ Len(s) >= 1
  BY DEF DirSound
<1>2. t \in Seq(Entry) /\ DOMAIN t = 1 .. Len(t) /\ Len(t) \in Nat /\ DOMAIN s \subseteq DOMAIN t
  BY DEF Alike
<1>3. Len(t) >= Len(s)
  BY <1>1, <1>2
<1>4. \A i \in DOMAIN t \ DOMAIN s : t[i] = End /\ t[i].kind = "end"
  BY Kinds DEF Alike
<1>5. \A i \in DOMAIN s : t[i].kind = s[i].kind /\ (s[i].kind # "sfn" => t[i] = s[i])
  BY DEF Alike
<1>6. Sfns(t) = Sfns(s) /\ Sfns(s) \subseteq DOMAIN s
  BY <1>2, <1>4, <1>5 DEF Sfns
<1>7. \A j \in Sfns(s) : t[j].short = s[j].short /\ t[j].dir = s[j].dir /\ t[j].head = s[j].head
  BY DEF Alike, Sfns
<1>8. \A n, q : \A i \in DOMAIN s : t[i] = Lfn(n, q) <=> s[i] = Lfn(n, q)
  BY <1>5, Kinds
<1>9. \A j \in Sfns(s) : \A x : HasLong(t, j, x) <=> HasLong(s, j, x)
  <2>1. \A j \in Sfns(s) : j > 1 => j - 1 \in DOMAIN s
    BY <1>1, <1>6
  <2> QED BY <2>1, <1>8 DEF HasLong
<1>10. \A j \in Sfns(s) : \A x : Named(t, j, x) <=> Named(s, j, x)
  BY <1>7, <1>9 DEF Named
<1>11. \A i, j : InBlock(t, i, j) <=> InBlock(s, i, j)
  BY <1>2, <1>4, <1>5 DEF InBlock
<1>12. \A n, j : Block(s, n, j) => Block(t, n, j)
  <2>1. SUFFICES ASSUME NEW n, NEW j, Block(s, n, j) PROVE Block(t, n, j)
    OBVIOUS
  <2>2. /\ n \in Name /\ j \in Sfns(s) /\ j > Parts[n] /\ Fits(n, s[j].short)
        /\ \A q \in 1 .. Parts[n] : s[j - q] = Lfn(n, q)
    BY <2>1 DEF Block
  <2>3. \A q \in 1 .. Parts[n] : j - q \in DOMAIN s
    BY <2>2, <1>1, <1>6, Consts
  <2>4. \A q \in 1 .. Parts[n] : t[j - q] = Lfn(n, q)
    BY <2>2, <2>3, <1>8
  <2> QED BY <2>2, <2>4, <1>6, <1>7 DEF Block
<1>13. Packed(t)
  <2>1. SUFFICES ASSUME NEW i \in DOMAIN t, NEW j \in DOMAIN t, i < j, t[i] = End PROVE t[j] = End
    BY DEF Packed
  <2>2. CASE j \notin DOMAIN s
    BY <2>2, <1>4
  <2>3. CASE j \in DOMAIN s
    <3>1. i \in DOMAIN s
      BY <2>1, <2>3, <1>1, <1>2
    <3>2. s[i].kind = "end" /\ s[i] = End
      BY <3>1, <2>1, <1>5, Kinds
    <3>3. s[j] = End
      BY <3>1, <3>2, <2>1, <2>3 DEF DirSound, Packed
    <3> QED BY <3>3, <2>3, <1>5, Kinds
  <2> QED BY <2>2, <2>3
<1>14. Whole(t)
  <2>1. SUFFICES ASSUME NEW i \in DOMAIN t, t[i].kind = "lfn"
        PROVE  t[i].part \in 1 .. Parts[t[i].name] /\ Block(t, t[i].name, i + t[i].part)
    BY DEF Whole
  <2>2. i \in DOMAIN s /\ t[i] = s[i]
    BY <2>1, <1>4, <1>5
  <2>3. s[i].part \in 1 .. Parts[s[i].name] /\ Block(s, s[i].name, i + s[i].part)
    BY <2>1, <2>2 DEF DirSound, Whole
  <2> QED BY <2>2, <2>3, <1>12
<1>15. Apart(t)
  BY <1>6, <1>10 DEF Apart, DirSound
<1>16. OneLabel(t)
  <2>1. SUFFICES ASSUME NEW i \in DOMAIN t, NEW j \in DOMAIN t, t[i].kind = "label", t[j].kind = "label" PROVE i = j
    BY DEF OneLabel
  <2>2. i \in DOMAIN s /\ j \in DOMAIN s /\ s[i].kind = "label" /\ s[j].kind = "label"
    BY <2>1, <1>4, <1>5
  <2> QED BY <2>2 DEF DirSound, OneLabel
<1>17. DirSound(t)
  BY <1>1, <1>2, <1>3, <1>13, <1>14, <1>15, <1>16 DEF DirSound
<1>18. \A j \in Sfns(s) : NameOf(t, j) = NameOf(s, j)
  <2>1. SUFFICES ASSUME NEW j \in Sfns(s) PROVE LongName(t, j) = LongName(s, j)
    BY <1>6, <1>17, NameOfIs
  <2>2. j > 1 => j - 1 \in DOMAIN s
    BY <1>1, <1>6
  <2> QED BY <2>2, <1>5, <1>7 DEF LongName
<1> QED BY <1>6, <1>7, <1>11, <1>17, <1>18 DEF SameFiles, SameFor

\* The places of the entries of a name stored at `at`, of P entries before the short one.
LEMMA Places ==
  ASSUME NEW at \in Nat, at >= 1, NEW P \in Nat, P >= 1, NEW J \in Nat, J = at + P
  PROVE  /\ J > P /\ J > 1 /\ J \in at .. J /\ J \notin at .. J - 1
         /\ J - 1 \in at .. J - 1 /\ J - (J - 1) = 1 /\ J - 1 \in Nat
         /\ \A q \in 1 .. P : J - q \in at .. J - 1 /\ J - (J - q) = q
         /\ \A i \in at .. J - 1 : i + (J - i) = J /\ J - i \in 1 .. P
         /\ \A j \in Nat : j \notin at .. J => j \notin at .. J - 1 /\ j # J
OBVIOUS

\* Is there room at `at` for the entries of name n, of which that at J is the last, and is t what
\* storing them gives?
SavedAt(s, n, at, P, J, short, dir, head, t) ==
  /\ DirSound(s) /\ n \in Name /\ short \in AnyName /\ Fits(n, short)
  /\ at \in Nat /\ at >= 1 /\ P \in Nat /\ P = Parts[n] /\ J \in Nat /\ J = at + P /\ J <= Len(s)
  /\ dir \in BOOLEAN /\ head \in Cluster \cup {Root, None}
  /\ \A i \in at .. J : IsFree(s, i)
  /\ \A i \in DOMAIN s : i < at => s[i].kind # "end"
  /\ \A j \in Sfns(s) : ~Named(s, j, n) /\ ~Named(s, j, short)
  /\ t = Saved(s, at, n, short, dir, head)

\* saveDirentry where nothing is in use adds a file, with names no other has.
LEMMA SaveIs ==
  ASSUME NEW s, NEW n, NEW at, NEW P, NEW J, NEW short, NEW dir, NEW head, NEW t,
         SavedAt(s, n, at, P, J, short, dir, head, t)
  PROVE  /\ DirSound(t) /\ Len(t) = Len(s)
         /\ Sfns(t) = Sfns(s) \cup {J} /\ J \notin Sfns(s)
         /\ \A j \in Sfns(s) : SameFor(s, t, j)
         /\ NameOf(t, J) = n /\ t[J] = Sfn(short, dir, head) /\ SameSizes(s, t)
<1>b. DirSound(s) /\ n \in Name /\ short \in AnyName /\ Fits(n, short) /\ dir \in BOOLEAN /\ head \in Cluster \cup {Root, None}
  BY DEF SavedAt
<1>c. at \in Nat /\ at >= 1 /\ P \in Nat /\ P = Parts[n] /\ J \in Nat /\ J = at + P /\ J <= Len(s)
  BY DEF SavedAt
<1>d. \A i \in at .. J : IsFree(s, i)
  BY DEF SavedAt
<1>e. \A i \in DOMAIN s : i < at => s[i].kind # "end"
  BY DEF SavedAt
<1>f. \A j \in Sfns(s) : ~Named(s, j, n) /\ ~Named(s, j, short)
  BY DEF SavedAt
<1>1. s \in Seq(Entry) /\ DOMAIN s = 1 .. Len(s) /\ Len(s) \in Nat /\ Len(s) >= 1
  BY <1>b DEF DirSound
<1>2. at \in Nat /\ P \in Nat /\ P >= 1 /\ J \in Nat /\ J \in DOMAIN s
  BY <1>1, <1>b, <1>c, Consts
<1>g. J \in DOMAIN s
  BY <1>2
<1>a. /\ J > P /\ J > 1 /\ J \in at .. J /\ J \notin at .. J - 1
      /\ J - 1 \in at .. J - 1 /\ J - (J - 1) = 1 /\ J - 1 \in Nat
      /\ \A q \in 1 .. P : J - q \in at .. J - 1 /\ J - (J - q) = q
      /\ \A i \in at .. J - 1 : i + (J - i) = J /\ J - i \in 1 .. P
      /\ \A j \in Nat : j \notin at .. J => j \notin at .. J - 1 /\ j # J
  <2>1. at \in Nat /\ at >= 1 /\ P \in Nat /\ P >= 1 /\ J \in Nat /\ J = at + P
    BY <1>2, <1>c
  <2> QED BY <2>1, Places
<1>3. t = [j \in DOMAIN s |-> IF j \in at .. J - 1 THEN Lfn(n, J - j) ELSE IF j = J THEN Sfn(short, dir, head) ELSE s[j]]
  BY <1>c DEF Saved, SavedAt
<1>4. DOMAIN t = DOMAIN s
  BY <1>3
<1>5. \A j \in DOMAIN s : j \in at .. J - 1 => t[j] = Lfn(n, J - j)
  BY <1>3
<1>6. t[J] = Sfn(short, dir, head)
  BY <1>g, <1>a, <1>3
<1>7. \A j \in DOMAIN s : j \notin at .. J => t[j] = s[j]
  <2>1. \A j \in Nat : j \notin at .. J => j \notin at .. J - 1 /\ j # J
    BY <1>a
  <2>2. \A j \in DOMAIN s : j \in Nat
    BY <1>1
  <2> QED BY <2>1, <2>2, <1>3
<1>8. \A j \in DOMAIN s : j \in at .. J => s[j].kind \in {"end", "deleted"}
  BY <1>d DEF IsFree
<1>9. \A j \in at .. J - 1 : j \in DOMAIN s /\ J - j \in 1 .. P /\ J - j \in Nat
  BY <1>1, <1>2, <1>c
<1>10. t \in Seq(Entry) /\ Len(t) = Len(s)
  <2>1. ASSUME NEW j \in DOMAIN s PROVE t[j] \in Entry
    <3>1. CASE j \in at .. J - 1
      BY <3>1, <1>5, <1>9, <1>b, EntriesAre
    <3>2. CASE j = J
      <4>1. Sfn(short, dir, head) \in Entry
        BY <1>b, EntriesAre, Consts DEF Sfn
      <4> QED BY <3>2, <4>1, <1>6
    <3>3. CASE j \notin at .. J
      BY <3>3, <1>7, <1>b, At
    <3> QED BY <3>1, <3>2, <3>3, <1>2
  <2>2. t = [j \in 1 .. Len(s) |-> t[j]]
    BY <1>1, <1>3
  <2> QED BY <2>1, <2>2, <1>1
<1>11. Sfns(t) = Sfns(s) \cup {J} /\ J \notin Sfns(s) /\ Sfns(s) \subseteq DOMAIN s
  <2>1. \A j \in DOMAIN s : j \in at .. J - 1 => t[j].kind = "lfn"
    BY <1>5, Kinds
  <2>2. t[J].kind = "sfn"
    BY <1>6, Kinds
  <2>3. \A j \in DOMAIN s : t[j].kind = "sfn" <=> s[j].kind = "sfn" \/ j = J
    BY <2>1, <2>2, <1>2, <1>7, <1>8
  <2>4. J \notin Sfns(s)
    <3>1. s[J].kind \in {"end", "deleted"}
      BY <1>g, <1>a, <1>8
    <3> QED BY <3>1 DEF Sfns
  <2>5. Sfns(t) = Sfns(s) \cup {J}
    BY <2>3, <1>g, <1>4, Zenon DEF Sfns
  <2> QED BY <2>4, <2>5 DEF Sfns
<1>12. \A j \in Sfns(s) : j \in Nat /\ j \notin at .. J /\ t[j] = s[j] /\ s[j].kind = "sfn"
  BY <1>1, <1>7, <1>8, <1>11 DEF Sfns
<1>13. ASSUME NEW j \in Sfns(s), j > 1
       PROVE  /\ j - 1 \in DOMAIN s
              /\ t[j - 1].kind = "lfn" \/ s[j - 1].kind = "lfn" => t[j - 1] = s[j - 1]
  <2>1. j - 1 \in DOMAIN s
    BY <1>1, <1>11, <1>13
  <2>2. CASE j - 1 = J
    <3>1. t[j - 1].kind = "sfn" /\ s[j - 1].kind # "lfn"
      <4>1. t[J].kind = "sfn" /\ s[J].kind \in {"end", "deleted"}
        BY <1>a, <1>2, <1>6, <1>8, Kinds
      <4> QED BY <4>1, <2>2
    <3> QED BY <2>1, <3>1
  <2>3. CASE j - 1 # J
    <3>1. j - 1 \notin at .. J
      BY <2>3, <1>2, <1>12, <1>13
    <3> QED BY <2>1, <3>1, <1>7
  <2> QED BY <2>2, <2>3
<1>14. \A j \in Sfns(s) : \A x : HasLong(t, j, x) <=> HasLong(s, j, x)
  <2>1. \A j \in Sfns(s) : \A x : j > 1 => (t[j - 1] = Lfn(x, 1) <=> s[j - 1] = Lfn(x, 1))
    BY <1>13, Kinds
  <2> QED BY <2>1 DEF HasLong
<1>15. \A j \in Sfns(s) : \A x : Named(t, j, x) <=> Named(s, j, x)
  BY <1>12, <1>14 DEF Named
<1>16. J > 1 /\ t[J - 1] = Lfn(n, 1)
  <2>1. t[J - 1] = Lfn(n, J - (J - 1))
    BY <1>5, <1>9, <1>a
  <2> QED BY <2>1, <1>a
<1>17. \A x : Named(t, J, x) => x = short \/ x = n
  BY <1>6, <1>16, Kinds DEF Named, HasLong
<1>18. Apart(t)
  <2>1. SUFFICES ASSUME NEW i \in Sfns(t), NEW j \in Sfns(t), NEW x \in AnyName, Named(t, i, x), Named(t, j, x)
        PROVE i = j
    BY DEF Apart
  <2>2. CASE i \in Sfns(s) /\ j \in Sfns(s)
    <3>1. Named(s, i, x) /\ Named(s, j, x)
      BY <2>1, <2>2, <1>15
    <3> QED BY <2>2, <3>1, <1>b DEF DirSound, Apart
  <2>3. CASE i = J /\ j \in Sfns(s)
    BY <2>1, <2>3, <1>15, <1>17, <1>f
  <2>4. CASE j = J /\ i \in Sfns(s)
    BY <2>1, <2>4, <1>15, <1>17, <1>f
  <2> QED BY <2>1, <2>2, <2>3, <2>4, <1>11
<1>19. Packed(t)
  <2>1. SUFFICES ASSUME NEW i \in DOMAIN t, NEW j \in DOMAIN t, i < j, t[i] = End PROVE t[j] = End
    BY DEF Packed
  <2>2. i \in DOMAIN s /\ j \in DOMAIN s
    BY <1>4
  <2>3. i \notin at .. J
    <3>1. i \notin at .. J - 1
      BY <2>1, <1>5, <2>2, Kinds
    <3>2. i # J
      BY <2>1, <1>6, Kinds
    <3> QED BY <3>1, <3>2, <2>2, <1>1, <1>2
  <2>4. s[i] = End /\ s[i].kind = "end"
    BY <2>1, <2>2, <2>3, <1>7, Kinds
  <2>5. i > J /\ j \notin at .. J
    BY <2>1, <2>2, <2>3, <2>4, <1>1, <1>2, <1>e
  <2>6. s[j] = End
    BY <2>1, <2>2, <2>4, <1>b DEF DirSound, Packed
  <2> QED BY <2>2, <2>5, <2>6, <1>7
<1>20. Whole(t)
  <2>1. SUFFICES ASSUME NEW i \in DOMAIN s, t[i].kind = "lfn"
        PROVE  t[i].part \in 1 .. Parts[t[i].name] /\ Block(t, t[i].name, i + t[i].part)
    BY <1>4 DEF Whole
  <2>2. CASE i \in at .. J - 1
    <3>1. t[i].name = n /\ t[i].part = J - i /\ J - i \in 1 .. P /\ i + (J - i) = J
      <4>1. t[i] = Lfn(n, J - i)
        BY <2>2, <1>5, <1>9
      <4>2. i + (J - i) = J /\ J - i \in 1 .. P
        BY <2>2, <1>a
      <4>3. t[i].name = n /\ t[i].part = J - i
        BY <4>1, Kinds
      <4> QED BY <4>2, <4>3
    <3>2. J > P /\ J \in Sfns(t) /\ Fits(n, t[J].short)
      <4>1. t[J].short = short
        BY <1>6, Kinds
      <4>2. J \in Sfns(t)
        BY <1>11
      <4>3. J > P
        BY <1>a
      <4> QED BY <4>1, <4>2, <4>3, <1>b
    <3>3. \A q \in 1 .. P : t[J - q] = Lfn(n, q)
      <4>1. SUFFICES ASSUME NEW q \in 1 .. P PROVE t[J - q] = Lfn(n, q)
        OBVIOUS
      <4>2. J - q \in at .. J - 1 /\ J - (J - q) = q
        BY <1>a
      <4> QED BY <4>2, <1>5, <1>9
    <3>4. Block(t, n, J)
      BY <3>2, <3>3, <1>b, <1>c DEF Block
    <3> QED BY <3>1, <3>4, <1>c
  <2>3. CASE i \notin at .. J - 1
    <3>1. i # J
      BY <2>1, <1>6, Kinds
    <3>2. t[i] = s[i]
      BY <2>3, <3>1, <1>1, <1>2, <1>7
    <3>3. s[i].part \in 1 .. Parts[s[i].name] /\ Block(s, s[i].name, i + s[i].part)
      BY <2>1, <3>2, <1>b DEF DirSound, Whole
    <3>4. ASSUME NEW m, NEW j, Block(s, m, j) PROVE Block(t, m, j)
      <4>1. /\ m \in Name /\ j \in Sfns(s) /\ j > Parts[m] /\ Fits(m, s[j].short)
            /\ \A q \in 1 .. Parts[m] : s[j - q] = Lfn(m, q)
        BY <3>4 DEF Block
      <4>2. \A q \in 1 .. Parts[m] : j - q \in DOMAIN s
        BY <4>1, <1>1, <1>11, Consts
      <4>3. ASSUME NEW q \in 1 .. Parts[m] PROVE j - q \notin at .. J
        <5>1. s[j - q].kind = "lfn"
          BY <4>1, Kinds
        <5> QED BY <5>1, <4>2, <1>8
      <4>4. \A q \in 1 .. Parts[m] : t[j - q] = Lfn(m, q)
        BY <4>1, <4>2, <4>3, <1>7
      <4> QED BY <4>1, <4>4, <1>11, <1>12 DEF Block
    <3> QED BY <3>2, <3>3, <3>4
  <2> QED BY <2>2, <2>3
<1>21. OneLabel(t)
  <2>1. SUFFICES ASSUME NEW i \in DOMAIN t, NEW j \in DOMAIN t, t[i].kind = "label", t[j].kind = "label" PROVE i = j
    BY DEF OneLabel
  <2>2. ASSUME NEW k \in DOMAIN t, t[k].kind = "label" PROVE k \in DOMAIN s /\ s[k].kind = "label"
    <3>1. k \notin at .. J - 1 /\ k # J /\ k \in DOMAIN s
      BY <2>2, <1>4, <1>5, <1>6, Kinds
    <3> QED BY <3>1, <2>2, <1>1, <1>2, <1>7
  <2> QED BY <2>1, <2>2, <1>b DEF DirSound, OneLabel
<1>22. DirSound(t)
  BY <1>1, <1>10, <1>18, <1>19, <1>20, <1>21, <1>b DEF DirSound
<1>23. \A j \in Sfns(s) : \A i : InBlock(t, i, j) <=> InBlock(s, i, j)
  <2>1. SUFFICES ASSUME NEW j \in Sfns(s), NEW i \in DOMAIN s PROVE InBlock(t, i, j) <=> InBlock(s, i, j)
    BY <1>4 DEF InBlock
  <2>2. CASE i \in at .. J - 1
    <3>1. t[i].part = J - i /\ i + (J - i) = J /\ J # j
      <4>1. t[i] = Lfn(n, J - i)
        BY <2>2, <1>5, <1>9
      <4>2. J # j
        BY <1>11
      <4>3. i + (J - i) = J
        BY <2>2, <1>a
      <4>4. t[i].part = J - i
        BY <4>1, Kinds
      <4> QED BY <4>2, <4>3, <4>4
    <3>2. s[i].kind # "lfn"
      BY <2>2, <1>2, <1>8
    <3> QED BY <3>1, <3>2 DEF InBlock
  <2>3. CASE i = J
    <3>1. t[i].kind # "lfn" /\ s[i].kind # "lfn"
      <4>1. s[J].kind \in {"end", "deleted"}
        BY <1>g, <1>a, <1>8
      <4>2. t[J].kind = "sfn"
        BY <1>6, Kinds
      <4> QED BY <2>3, <4>1, <4>2
    <3> QED BY <3>1 DEF InBlock
  <2>4. CASE i \notin at .. J
    BY <2>4, <1>4, <1>7 DEF InBlock
  <2> QED BY <2>2, <2>3, <2>4, <1>1, <1>2
<1>24. \A j \in Sfns(s) : NameOf(t, j) = NameOf(s, j)
  <2>1. SUFFICES ASSUME NEW j \in Sfns(s) PROVE LongName(t, j) = LongName(s, j)
    BY <1>b, <1>11, <1>22, NameOfIs
  <2>2. t[j].short = s[j].short
    BY <1>12
  <2> QED BY <2>2, <1>13 DEF LongName
<1>25. NameOf(t, J) = n
  <2>1. HasLong(t, J, n) /\ J \in Sfns(t)
    BY <1>11, <1>16 DEF HasLong
  <2> QED BY <2>1, <1>22, LongThere, NameOfIs
<1>26. \A j \in Sfns(s) : SameFor(s, t, j)
  BY <1>12, <1>23, <1>24 DEF SameFor
<1>27. SameSizes(s, t)
  BY <1>12 DEF SameSizes
<1> QED BY <1>6, <1>10, <1>11, <1>22, <1>25, <1>26, <1>27

\* What fat_clearDirSpace erases of a file: its entry and those of its long name.
EntriesOf(s, j) == {i \in DOMAIN s : InBlock(s, i, j)} \cup {j}
Without(s, j) == [i \in DOMAIN s |-> IF i \in EntriesOf(s, j) THEN Deleted ELSE s[i]]
PlacesOf(d, j) == {<<d, i>> : i \in EntriesOf(entries[d], j)}

\* Without them the file is gone, and the others are as they were.
LEMMA EraseIs ==
  ASSUME NEW s, DirSound(s), NEW J \in Sfns(s),
         NEW t, t = Without(s, J)
  PROVE  /\ DirSound(t) /\ Sfns(t) = Sfns(s) \ {J}
         /\ (\A j \in Sfns(t) : SameFor(s, t, j)) /\ SameSizes(s, t)
<1> DEFINE E == EntriesOf(s, J)
<1>1. s \in Seq(Entry) /\ DOMAIN s = 1 .. Len(s) /\ Len(s) \in Nat /\ Len(s) >= 1
  BY DEF DirSound
<1>2. J \in DOMAIN s /\ J \in Nat /\ s[J].kind = "sfn"
  BY <1>1 DEF Sfns
<1>3. \A i \in E : i \in DOMAIN s /\ (i = J \/ (s[i].kind = "lfn" /\ i + s[i].part = J))
  BY <1>2 DEF EntriesOf, InBlock
<1>4. \A i \in DOMAIN s : s[i].kind = "lfn" /\ i + s[i].part = J => i \in E
  BY DEF EntriesOf, InBlock
<1>5. J \in E
  BY DEF EntriesOf
<1> HIDE DEF E
<1>6. DOMAIN t = DOMAIN s /\ \A i \in DOMAIN s : t[i] = IF i \in E THEN Deleted ELSE s[i]
  BY DEF E, Without
<1>7. \A i \in DOMAIN s : i \in E => t[i].kind = "deleted"
  BY <1>6, Kinds
<1>8. \A i \in DOMAIN s : i \notin E => t[i] = s[i]
  BY <1>6
<1>9. t \in Seq(Entry) /\ Len(t) = Len(s)
  <2>1. \A i \in 1 .. Len(s) : t[i] \in Entry
    BY <1>1, <1>6, At, EntriesAre
  <2>2. t = [i \in 1 .. Len(s) |-> t[i]]
    BY <1>1, <1>6 DEF Without
  <2> QED BY <2>1, <2>2, <1>1
<1>10. Sfns(t) = Sfns(s) \ {J}
  <2>1. \A i \in DOMAIN s : t[i].kind = "sfn" <=> s[i].kind = "sfn" /\ i # J
    BY <1>3, <1>5, <1>7, <1>8
  <2> QED BY <2>1, <1>6 DEF Sfns
<1>11. \A j \in Sfns(t) : j \in Sfns(s) /\ j # J /\ j \in DOMAIN s /\ j \in Nat /\ j \notin E /\ t[j] = s[j]
  BY <1>1, <1>3, <1>8, <1>10 DEF Sfns
<1>12. ASSUME NEW j \in Sfns(t), NEW i \in DOMAIN s, InBlock(s, i, j) PROVE i \notin E /\ t[i] = s[i]
  <2>1. i + s[i].part = j /\ s[i].kind = "lfn" /\ j # J
    BY <1>12, <1>11 DEF InBlock
  <2>2. i \notin E
    BY <2>1, <1>2, <1>3
  <2> QED BY <2>2, <1>8
<1>13. ASSUME NEW j \in Sfns(t), j > 1
       PROVE  /\ j - 1 \in DOMAIN s
              /\ t[j - 1].kind = "lfn" \/ s[j - 1].kind = "lfn" => t[j - 1] = s[j - 1]
  <2>1. j - 1 \in DOMAIN s
    BY <1>1, <1>11, <1>13
  <2>2. CASE s[j - 1].kind = "lfn"
    <3>1. InBlock(s, j - 1, j)
      BY <2>2, <1>11, <1>13, LongThere
    <3> QED BY <2>1, <3>1, <1>12
  <2>3. CASE t[j - 1].kind = "lfn"
    BY <2>1, <2>3, <1>7, <1>8
  <2> QED BY <2>1, <2>2, <2>3
<1>14. \A j \in Sfns(t) : \A x : Named(t, j, x) <=> Named(s, j, x)
  <2>1. \A j \in Sfns(t) : \A x : j > 1 => (t[j - 1] = Lfn(x, 1) <=> s[j - 1] = Lfn(x, 1))
    BY <1>13, Kinds
  <2> QED BY <2>1, <1>11 DEF Named, HasLong
<1>15. Apart(t)
  <2>1. SUFFICES ASSUME NEW i \in Sfns(t), NEW j \in Sfns(t), NEW x \in AnyName, Named(t, i, x), Named(t, j, x)
        PROVE i = j
    BY DEF Apart
  <2>2. i \in Sfns(s) /\ j \in Sfns(s) /\ Named(s, i, x) /\ Named(s, j, x)
    BY <2>1, <1>11, <1>14
  <2> QED BY <2>2 DEF DirSound, Apart
<1>16. Packed(t)
  <2>1. SUFFICES ASSUME NEW i \in DOMAIN s, NEW j \in DOMAIN s, i < j, t[i] = End PROVE t[j] = End
    BY <1>6 DEF Packed
  <2>2. i \notin E
    BY <2>1, <1>7, Kinds
  <2>3. s[i] = End
    BY <2>1, <2>2, <1>8
  <2>4. s[j] = End /\ s[j].kind = "end"
    BY <2>1, <2>3, Kinds DEF DirSound, Packed
  <2>5. j \notin E
    BY <2>4, <1>2, <1>3
  <2> QED BY <2>4, <2>5, <1>8
<1>17. Whole(t)
  <2>1. SUFFICES ASSUME NEW i \in DOMAIN s, t[i].kind = "lfn"
        PROVE  t[i].part \in 1 .. Parts[t[i].name] /\ Block(t, t[i].name, i + t[i].part)
    BY <1>6 DEF Whole
  <2>2. i \notin E /\ t[i] = s[i]
    BY <2>1, <1>7, <1>8
  <2> DEFINE m == s[i].name
             j == i + s[i].part
  <2>3. s[i].part \in 1 .. Parts[m] /\ Block(s, m, j)
    BY <2>1, <2>2 DEF DirSound, Whole
  <2>4. /\ m \in Name /\ j \in Sfns(s) /\ j > Parts[m] /\ Fits(m, s[j].short)
        /\ \A q \in 1 .. Parts[m] : s[j - q] = Lfn(m, q)
    BY <2>3 DEF Block
  <2>5. j # J
    BY <2>1, <2>2, <1>4
  <2>6. j \in Sfns(t) /\ j \in Nat /\ j \in DOMAIN s
    BY <2>4, <2>5, <1>10, <1>11
  <2> HIDE DEF m, j
  <2>7. ASSUME NEW q \in 1 .. Parts[m] PROVE t[j - q] = Lfn(m, q)
    <3>1. j - q \in DOMAIN s /\ (j - q) + q = j
      BY <2>4, <2>6, <1>1, Consts
    <3>2. InBlock(s, j - q, j)
      BY <2>4, <2>7, <3>1, Kinds DEF InBlock
    <3> QED BY <3>1, <3>2, <2>4, <2>6, <1>12
  <2>8. Block(t, m, j)
    BY <2>4, <2>6, <2>7, <1>11 DEF Block
  <2> QED BY <2>2, <2>3, <2>8 DEF m, j
<1>18. OneLabel(t)
  <2>1. \A k \in DOMAIN t : t[k].kind = "label" => k \in DOMAIN s /\ s[k].kind = "label"
    BY <1>6, <1>7, <1>8
  <2> QED BY <2>1 DEF DirSound, OneLabel
<1>19. DirSound(t)
  BY <1>1, <1>9, <1>15, <1>16, <1>17, <1>18 DEF DirSound
<1>20. ASSUME NEW j \in Sfns(t) PROVE SameFor(s, t, j)
  <2>1. \A i : InBlock(t, i, j) <=> InBlock(s, i, j)
    <3>1. SUFFICES ASSUME NEW i \in DOMAIN s PROVE InBlock(t, i, j) <=> InBlock(s, i, j)
      BY <1>6 DEF InBlock
    <3>2. CASE i \in E
      BY <3>2, <1>7, <1>12, <1>20 DEF InBlock
    <3>3. CASE i \notin E
      BY <3>3, <1>6, <1>8 DEF InBlock
    <3> QED BY <3>2, <3>3
  <2>2. LongName(t, j) = LongName(s, j)
    BY <1>11, <1>13, <1>20 DEF LongName
  <2>3. NameOf(t, j) = NameOf(s, j)
    BY <2>2, <1>11, <1>19, <1>20, NameOfIs
  <2> QED BY <2>1, <2>3, <1>11, <1>20 DEF SameFor
<1>21. SameSizes(s, t)
  BY <1>11 DEF SameSizes
<1> QED BY <1>10, <1>19, <1>20, <1>21

\* A file that is the same has the same names.
LEMMA NamedSame ==
  ASSUME NEW s, NEW t, DirSound(s), DirSound(t), NEW j \in Sfns(s), j \in Sfns(t), SameFor(s, t, j), NEW x
  PROVE  Named(t, j, x) <=> Named(s, j, x)
<1>1. /\ t[j].short = s[j].short /\ NameOf(t, j) = NameOf(s, j)
      /\ InBlock(t, j - 1, j) <=> InBlock(s, j - 1, j)
  BY DEF SameFor
<1>2. ASSUME NEW u, DirSound(u), j \in Sfns(u)
      PROVE  HasLong(u, j, x) <=> InBlock(u, j - 1, j) /\ NameOf(u, j) = x
  <2>1. DOMAIN u = 1 .. Len(u) /\ Len(u) \in Nat /\ j \in Nat /\ NameOf(u, j) = LongName(u, j)
    BY <1>2, DirScans, At, NameOfIs DEF Sfns
  <2>2. InBlock(u, j - 1, j) => j > 1 /\ u[j - 1].kind = "lfn"
    BY <2>1 DEF InBlock
  <2>3. HasLong(u, j, x) => j > 1 /\ u[j - 1].kind = "lfn"
    BY Kinds DEF HasLong
  <2>4. j > 1 /\ u[j - 1].kind = "lfn" => HasLong(u, j, LongName(u, j)) /\ InBlock(u, j - 1, j)
    BY <1>2, LongThere
  <2>5. HasLong(u, j, x) => LongName(u, j) = x
    BY <1>2, LongThere
  <2> QED BY <2>1, <2>2, <2>3, <2>4, <2>5
<1>3. HasLong(t, j, x) <=> HasLong(s, j, x)
  BY <1>1, <1>2
<1> QED BY <1>1, <1>3 DEF Named

\* setShortNameSequence gives a short name that no file has, unless it is out of numbers.
LEMMA ShortFresh ==
  ASSUME NEW s, DirSound(s), NEW n \in Name, Match(s, n) = 0, ~NoNumber(s, n)
  PROVE  /\ ShortFor(s, n) \in AnyName /\ Fits(n, ShortFor(s, n))
         /\ \A j \in Sfns(s) : ~Named(s, j, n) /\ ~Named(s, j, ShortFor(s, n))
<1>1. \A j \in Sfns(s) : ~Named(s, j, n)
  BY MatchIs DEF AnyName
<1>2. CASE n \notin DOMAIN Base
  <2>1. ShortFor(s, n) = n
    BY <1>2 DEF ShortFor
  <2> QED BY <1>1, <1>2, <2>1 DEF Fits, AnyName
<1>3. CASE n \in DOMAIN Base
  <2> DEFINE seqOf(x) == IF x \in Sequenced /\ x.base = Base[n] THEN x.seq ELSE 0
             free == (0 .. MaxSeq) \ {seqOf(s[j].short) : j \in Files(s)}
             short == [base |-> Base[n], seq |-> Least(free)]
  <2>1. ShortFor(s, n) = [base |-> Base[n], seq |-> IF free = {} THEN MaxSeq + 1 ELSE Least(free)]
    BY <1>3 DEF ShortFor
  <2>2. free # {}
    <3>1. SUFFICES ASSUME free = {} PROVE FALSE
      OBVIOUS
    <3>2. ShortFor(s, n) = [base |-> Base[n], seq |-> MaxSeq + 1]
      BY <2>1, <3>1
    <3>3. ShortFor(s, n).seq = MaxSeq + 1
      BY <3>2
    <3> QED BY <3>3, <1>3 DEF NoNumber
  <2>3. free \in SUBSET Nat
    BY Consts
  <2>4. Least(free) \in free
    BY <2>2, <2>3, LeastIs
  <2>5. \A j \in Sfns(s) : seqOf(s[j].short) # Least(free)
    BY <2>4, DirScans
  <2>6. Least(free) \in 0 .. MaxSeq
    BY <2>4
  <2>7. ShortFor(s, n) = short
    BY <2>1, <2>2
  <2> HIDE DEF free
  <2>8. short \in Sequenced /\ short.base = Base[n] /\ short.seq = Least(free) /\ Fits(n, short)
    BY <1>3, <2>6 DEF Sequenced, Fits
  <2> HIDE DEF short
  <2>9. seqOf(short) = Least(free)
    BY <2>8
  <2> HIDE DEF seqOf
  <2>10. \A j \in Sfns(s) : s[j].short # short
    BY <2>5, <2>9
  <2>11. \A j \in Sfns(s) : ~HasLong(s, j, short)
    <3>1. SUFFICES ASSUME NEW j \in Sfns(s), HasLong(s, j, short) PROVE FALSE
      OBVIOUS
    <3>2. Block(s, short, j)
      BY <3>1, LongBlock
    <3>3. short \notin DOMAIN Base
      BY <2>8, MountAssumption
    <3> QED BY <3>2, <3>3, <2>10 DEF Block, Fits
  <2> QED BY <1>1, <2>7, <2>8, <2>10, <2>11 DEF AnyName, Named
<1> QED BY <1>2, <1>3

\* A directory with one more cluster, or none.
Grown(s, g) == s \o (IF g THEN Blank ELSE <<>>)

\* t is directory s, or it with room at the end.
Larger(s, t) == Alike(s, t) /\ SameSizes(s, t)

\* It is the same directory, with room.
LEMMA GrownIs ==
  ASSUME NEW s, DirSound(s), NEW g \in BOOLEAN
  PROVE  /\ Alike(s, Grown(s, g)) /\ Len(Grown(s, g)) \in Nat
         /\ Len(Grown(s, g)) >= Len(s) /\ (g => Len(Grown(s, g)) = Len(s) + EntryCount)
         /\ SameSizes(s, Grown(s, g))
<1>1. s \in Seq(Entry) /\ DOMAIN s = 1 .. Len(s) /\ Len(s) \in Nat
  BY DEF DirSound
<1>2. CASE ~g
  <2>1. Grown(s, g) = s \o <<>>
    BY <1>2 DEF Grown
  <2>2. Grown(s, g) = s
    BY <2>1, <1>1
  <2> QED BY <2>2, <1>1, <1>2 DEF Alike, SameSizes
<1>3. CASE g
  <2>1. Grown(s, g) = s \o Blank
    BY <1>3 DEF Grown
  <2>2. Blank \in Seq(Entry) /\ Len(Blank) = EntryCount /\ \A i \in 1 .. EntryCount : Blank[i] = End
    BY Consts, EntriesAre DEF Blank
  <2> DEFINE t == s \o Blank
  <2>3. t \in Seq(Entry) /\ Len(t) = Len(s) + EntryCount
    BY <1>1, <2>2
  <2>4. \A i \in 1 .. Len(s) : t[i] = s[i]
    BY <1>1, <2>2
  <2>5. ASSUME NEW i \in 1 .. Len(t), ~(i \in 1 .. Len(s)) PROVE t[i] = End
    <3>1. i - Len(s) \in 1 .. EntryCount /\ t[i] = Blank[i - Len(s)]
      BY <1>1, <2>2, <2>3, <2>5, Consts
    <3> QED BY <3>1, <2>2
  <2> HIDE DEF t
  <2>6. DOMAIN t = 1 .. Len(t) /\ Len(t) \in Nat
    BY <2>3
  <2>7. Alike(s, t)
    <3>1. DOMAIN s \subseteq DOMAIN t
      BY <1>1, <2>3, <2>6, Consts
    <3> QED BY <3>1, <1>1, <2>3, <2>4, <2>5, <2>6 DEF Alike
  <2>8. SameSizes(s, t)
    BY <1>1, <2>4 DEF SameSizes, Sfns
  <2> QED BY <2>1, <2>3, <2>6, <2>7, <2>8, <1>1, Consts DEF t
<1> QED BY <1>2, <1>3

\* A new directory is as it should be, with its first two entries.
LEMMA EmptyIs ==
  ASSUME NEW c \in Cluster \cup {Root}, NEW parent \in Cluster \cup {Root}, EntryCount >= 2,
         NEW t, t = EmptyDirectory(c, parent)
  PROVE  /\ DirSound(t) /\ Sfns(t) = {1, 2} /\ t[1].dir /\ t[2].dir
         /\ t[1].short = Dot /\ t[2].short = DotDot
<1> DEFINE a == Sfn(Dot, TRUE, c)
           b == Sfn(DotDot, TRUE, parent)
<1>2. a \in Entry /\ b \in Entry
  <2>1. \A dir \in BOOLEAN : Sfn(Dot, dir, c) \in Entry /\ Sfn(DotDot, dir, parent) \in Entry
    BY SfnIs DEF AnyName
  <2> QED BY <2>1
<1>6. a.kind = "sfn" /\ b.kind = "sfn" /\ a.dir /\ b.dir /\ a.short = Dot /\ b.short = DotDot
  BY DEF Sfn
<1>0. t = [Blank EXCEPT ![1] = a, ![2] = b]
  BY DEF EmptyDirectory
<1> HIDE DEF a, b
<1>1. t = [i \in 1 .. EntryCount |-> IF i = 1 THEN a ELSE IF i = 2 THEN b ELSE End]
  BY <1>0, Consts DEF Blank
<1>3. t \in Seq(Entry) /\ Len(t) = EntryCount /\ DOMAIN t = 1 .. EntryCount /\ EntryCount \in Nat
  BY <1>1, <1>2, EntriesAre, Consts
<1>4. t[1] = a /\ t[2] = b
  BY <1>1, <1>3
<1>5. \A i \in DOMAIN t : i # 1 /\ i # 2 => t[i] = End /\ t[i].kind = "end"
  BY <1>1, <1>3, Kinds
<1>7. Sfns(t) = {1, 2}
  <2>1. 1 \in DOMAIN t /\ 2 \in DOMAIN t
    BY <1>3
  <2>2. \A i \in DOMAIN t : t[i].kind = "sfn" <=> i = 1 \/ i = 2
    BY <1>4, <1>5, <1>6
  <2> QED BY <2>1, <2>2 DEF Sfns
<1>8. \A i \in DOMAIN t : t[i].kind # "lfn" /\ t[i].kind # "label"
  BY <1>4, <1>5, <1>6
<1>9. \A j \in Sfns(t) : \A x : ~HasLong(t, j, x)
  <2>1. SUFFICES ASSUME NEW j \in Sfns(t), NEW x, j > 1, t[j - 1] = Lfn(x, 1) PROVE FALSE
    BY DEF HasLong
  <2>2. j = 2
    BY <2>1, <1>7
  <2>3. t[1].kind = "lfn"
    BY <2>1, <2>2, Kinds
  <2> QED BY <2>3, <1>4, <1>6
<1>10. Apart(t)
  BY <1>4, <1>6, <1>7, <1>9, MountAssumption DEF Apart, Named
<1>11. Packed(t)
  <2>1. SUFFICES ASSUME NEW i \in DOMAIN t, NEW j \in DOMAIN t, i < j, t[i] = End PROVE t[j] = End
    BY DEF Packed
  <2>2. i # 1 /\ i # 2
    BY <2>1, <1>4, <1>6, Kinds
  <2>3. j # 1 /\ j # 2
    BY <2>1, <2>2, <1>3
  <2> QED BY <2>3, <1>5
<1>12. Whole(t) /\ OneLabel(t)
  BY <1>8 DEF Whole, OneLabel
<1> QED BY <1>3, <1>4, <1>6, <1>7, <1>10, <1>11, <1>12 DEF DirSound

\* Directory t is s with one more file, with the entry at J.
Added(s, t, J, n, dir, head) ==
  /\ DirSound(t) /\ Sfns(t) = Sfns(s) \cup {J} /\ J \notin Sfns(s) /\ J \in Nat
  /\ \A j \in Sfns(s) : SameFor(s, t, j)
  /\ NameOf(t, J) = n /\ t[J].dir = dir /\ t[J].head = head /\ J <= Len(t)
  /\ t[J].short \in Called /\ t[J].size = 0 /\ SameSizes(s, t)

\* fat_modifyDirSpace, for a name that is not there, adds a file.
LEMMA AddedIs ==
  ASSUME NEW s, DirSound(s), NEW n \in Name, Match(s, n) = 0, ~NoNumber(s, n),
         NEW g \in BOOLEAN, StoreAt(s, Parts[n] + 1) + Parts[n] > Len(s) => g,
         NEW dir \in BOOLEAN, NEW head \in Cluster \cup {Root, None},
         NEW t, t = Saved(Grown(s, g), StoreAt(s, Parts[n] + 1), n, ShortFor(s, n), dir, head)
  PROVE  Added(s, t, StoreAt(s, Parts[n] + 1) + Parts[n], n, dir, head)
<1> DEFINE u == Grown(s, g)
           at == StoreAt(s, Parts[n] + 1)
           P == Parts[n]
           J == at + P
<1>1. Alike(s, u) /\ Len(u) \in Nat /\ Len(u) >= Len(s) /\ (g => Len(u) = Len(s) + EntryCount)
  BY GrownIs
<1>2. DirSound(u) /\ SameFiles(s, u)
  BY <1>1, AlikeSound
<1>3. /\ at \in 1 .. Len(s) + 1
      /\ \A i \in at .. J : IsFree(s, i)
      /\ \A i \in DOMAIN s : i < at => s[i].kind # "end"
  BY StoreIs
<1>4. P \in Nat /\ P >= 1 /\ P < EntryCount /\ EntryCount \in Nat /\ P = Parts[n] /\ J = at + P
  BY Consts
<1>5. DOMAIN s = 1 .. Len(s) /\ Len(s) \in Nat /\ DOMAIN u = 1 .. Len(u)
  BY <1>2, DirScans
<1>6. ShortFor(s, n) \in AnyName /\ Fits(n, ShortFor(s, n))
      /\ \A j \in Sfns(s) : ~Named(s, j, n) /\ ~Named(s, j, ShortFor(s, n))
  BY ShortFresh
<1>7. t = Saved(u, at, n, ShortFor(s, n), dir, head) /\ (J > Len(s) => g)
  OBVIOUS
<1>8. n \in Name /\ dir \in BOOLEAN /\ head \in Cluster \cup {Root, None}
  OBVIOUS
<1> HIDE DEF u, at, P, J
<1>9. at \in Nat /\ at >= 1 /\ J \in Nat /\ J <= Len(u)
  <2>1. CASE g
    BY <2>1, <1>1, <1>3, <1>4, <1>5
  <2>2. CASE ~g
    <3>1. at \in Nat /\ at >= 1 /\ J \in Nat
      BY <1>3, <1>4, <1>5
    <3>2. ~(J > Len(s)) /\ Len(s) \in Nat
      BY <2>2, <1>5, <1>7
    <3> QED BY <3>1, <3>2, <1>1
  <2> QED BY <2>1, <2>2
<1>10. \A i \in at .. J : IsFree(u, i)
  <2>1. SUFFICES ASSUME NEW i \in at .. J, i \in DOMAIN u PROVE u[i].kind \in {"end", "deleted"}
    BY DEF IsFree
  <2>2. CASE i \in DOMAIN s
    <3>1. s[i].kind \in {"end", "deleted"}
      BY <2>1, <2>2, <1>3 DEF IsFree
    <3>2. u[i] = s[i]
      BY <2>2, <3>1, <1>1 DEF Alike
    <3> QED BY <3>1, <3>2
  <2>3. CASE i \notin DOMAIN s
    BY <2>1, <2>3, <1>1, Kinds DEF Alike
  <2> QED BY <2>2, <2>3
<1>11. \A i \in DOMAIN u : i < at => u[i].kind # "end"
  <2>1. SUFFICES ASSUME NEW i \in DOMAIN u, i < at PROVE u[i].kind # "end"
    OBVIOUS
  <2>2. i \in DOMAIN s
    BY <2>1, <1>3, <1>5
  <2>3. u[i].kind = s[i].kind
    BY <2>2, <1>1 DEF Alike
  <2> QED BY <2>1, <2>2, <2>3, <1>3
<1>12. \A j \in Sfns(u) : ~Named(u, j, n) /\ ~Named(u, j, ShortFor(s, n))
  <2>1. SUFFICES ASSUME NEW j \in Sfns(u), NEW x, ~Named(s, j, x) PROVE ~Named(u, j, x)
    BY <1>2, <1>6 DEF SameFiles
  <2>2. j \in Sfns(s) /\ SameFor(s, u, j)
    BY <1>2 DEF SameFiles
  <2> QED BY <2>1, <2>2, <1>2, NamedSame
<1>13. SavedAt(u, n, at, P, J, ShortFor(s, n), dir, head, t)
  BY <1>2, <1>4, <1>6, <1>7, <1>8, <1>9, <1>10, <1>11, <1>12, Zenon DEF SavedAt
<1>14. /\ DirSound(t) /\ Len(t) = Len(u)
       /\ Sfns(t) = Sfns(u) \cup {J} /\ J \notin Sfns(u)
       /\ \A j \in Sfns(u) : SameFor(u, t, j)
       /\ NameOf(t, J) = n /\ t[J] = Sfn(ShortFor(s, n), dir, head) /\ SameSizes(u, t)
  BY <1>13, SaveIs
<1>15. \A j \in Sfns(s) : SameFor(s, t, j)
  BY <1>2, <1>14 DEF SameFiles, SameFor
<1>16. t[J].dir = dir /\ t[J].head = head /\ t[J].short = ShortFor(s, n) /\ t[J].size = 0
  BY <1>14 DEF Sfn
<1>17. ShortFor(s, n) \in Called
  <2>1. \A k \in 0 .. MaxSeq : n \in DOMAIN Base => [base |-> Base[n], seq |-> k] \in Sequenced
    BY DEF Sequenced
  <2> QED BY <2>1, <1>6 DEF Fits, Called
<1>18. SameSizes(s, t)
  <2>1. SameSizes(s, u)
    BY GrownIs DEF u
  <2> QED BY <2>1, <1>2, <1>14 DEF SameSizes, SameFiles
<1>19. Added(s, t, J, n, dir, head)
  BY <1>2, <1>9, <1>14, <1>15, <1>16, <1>17, <1>18 DEF Added, SameFiles
<1> QED BY <1>19 DEF J, P, at

-----------------------------------------------------------------------------
(* What a change to one directory leaves as it was *)

\* t is s with fewer files, and others that are no directories; its directories are all there.
Evolves(s, t) ==
  /\ DirSound(t)
  /\ \A j \in Sfns(s) : s[j].dir => j \in Sfns(t)
  /\ \A j \in Sfns(t) : IF j \in Sfns(s) THEN SameFor(s, t, j) ELSE ~t[j].dir

\* Then all directories are as they should be.
LEMMA ReplaceIs ==
  ASSUME NEW e, DirsSound(e), NEW d \in DOMAIN e, NEW t, Evolves(e[d], t),
         NEW e2, e2 = [e EXCEPT ![d] = t]
  PROVE  DirsSound(e2)
<1>1. Domains(e) /\ HeadsSound(e) /\ \A c \in DOMAIN e : DirSound(e[c])
  BY DEF DirsSound
<1>2. DOMAIN e2 = DOMAIN e /\ e2[d] = t /\ (\A c \in DOMAIN e : c # d => e2[c] = e[c]) /\ Domains(e2)
  BY <1>1 DEF Domains
<1>3. \A c \in DOMAIN e2 : DirSound(e2[c])
  BY <1>1, <1>2 DEF Evolves
<1>4. Root \in DOMAIN e
  BY <1>1 DEF Domains
<1>5. \A j \in Sfns(e2[Root]) : e2[Root][j].dir =>
        j \in Sfns(e[Root]) /\ e[Root][j].dir /\ e[Root][j].head = e2[Root][j].head
  BY <1>2, <1>4 DEF Evolves, SameFor
<1>6. \A c \in DOMAIN e2 \ {Root} : /\ {1, 2} \subseteq Sfns(e2[c])
                                    /\ \A j \in Sfns(e2[c]) : e2[c][j].dir <=> j \in {1, 2}
  <2>1. SUFFICES ASSUME NEW c \in DOMAIN e \ {Root}
        PROVE {1, 2} \subseteq Sfns(e2[c]) /\ \A j \in Sfns(e2[c]) : e2[c][j].dir <=> j \in {1, 2}
    BY <1>2
  <2>2. {1, 2} \subseteq Sfns(e[c]) /\ \A j \in Sfns(e[c]) : e[c][j].dir <=> j \in {1, 2}
    BY <1>1 DEF HeadsSound
  <2>3. CASE c # d
    BY <2>2, <2>3, <1>2
  <2>4. CASE c = d
    <3>1. {1, 2} \subseteq Sfns(t)
      BY <2>2, <2>4 DEF Evolves
    <3>2. \A j \in Sfns(t) : t[j].dir <=> j \in {1, 2}
      <4>1. SUFFICES ASSUME NEW j \in Sfns(t) PROVE t[j].dir <=> j \in {1, 2}
        OBVIOUS
      <4>2. CASE j \in Sfns(e[c])
        <5>1. t[j].dir = e[c][j].dir
          BY <4>2, <2>4 DEF Evolves, SameFor
        <5> QED BY <5>1, <4>2, <2>2
      <4>3. CASE j \notin Sfns(e[c])
        <5>1. ~t[j].dir
          BY <4>3, <2>4 DEF Evolves
        <5> QED BY <5>1, <4>3, <2>2
      <4> QED BY <4>2, <4>3
    <3> QED BY <3>1, <3>2, <2>4, <1>2
  <2> QED BY <2>3, <2>4
<1>7. HeadsSound(e2)
  BY <1>1, <1>2, <1>5, <1>6 DEF HeadsSound
<1> QED BY <1>2, <1>3, <1>7 DEF DirsSound

\* An open file keeps its entry.
EntryStays(e, e2, f, h) ==
  f[h] # None =>
    /\ f[h].at[1] \in DOMAIN e2 /\ f[h].at[2] \in Sfns(e2[f[h].at[1]])
    /\ e2[f[h].at[1]][f[h].at[2]].dir = e[f[h].at[1]][f[h].at[2]].dir

\* Then the handles are as they should be.
LEMMA HandlesFollow ==
  ASSUME NEW e, NEW e2, NEW f, HandlesSound(e, f),
         \A h \in Handle : EntryStays(e, e2, f, h)
  PROVE  HandlesSound(e2, f)
<1>1. \A h \in Handle : HandleSound(e, f[h]) /\ f = [g \in Handle |-> f[g]]
  BY DEF HandlesSound
<1>2. ASSUME NEW h \in Handle PROVE HandleSound(e2, f[h])
  <2>1. CASE f[h] = None
    BY <2>1 DEF HandleSound
  <2>2. CASE f[h] # None
    <3>1. /\ f[h].at \in (DOMAIN e) \X Nat /\ f[h].size \in 0 .. MaxSize
          /\ f[h] = [at |-> f[h].at, name |-> f[h].name, path |-> f[h].path, size |-> f[h].size,
                     write |-> f[h].write, grew |-> f[h].grew]
          /\ f[h].at[2] \in Sfns(e[f[h].at[1]]) /\ ~e[f[h].at[1]][f[h].at[2]].dir
      BY <2>2, <1>1, Zenon DEF HandleSound
    <3>2. f[h].at \in (DOMAIN e2) \X Nat
      BY <3>1, <2>2 DEF EntryStays
    <3>3. f[h].at[2] \in Sfns(e2[f[h].at[1]]) /\ ~e2[f[h].at[1]][f[h].at[2]].dir
      BY <3>1, <2>2 DEF EntryStays
    <3> QED BY <3>1, <3>2, <3>3, Zenon DEF HandleSound
  <2> QED BY <2>1, <2>2
<1>3. f = [g \in Handle |-> f[g]]
  BY DEF HandlesSound
<1> QED BY <1>2, <1>3 DEF HandlesSound

\* Directory t is s without the files called X, and with others that were not in the listing.
GoesOn(s, t, X, stay) ==
  /\ \A j \in Sfns(s) : NameOf(s, j) \notin X => j \in Sfns(t)
  /\ \A j \in Sfns(t) : IF j \in Sfns(s) THEN SameFor(s, t, j) ELSE NameOf(t, j) \notin stay

\* Then the listing goes on.
LEMMA ListFollows ==
  ASSUME NEW e, NEW e2, NEW l, l # None, ListSound(e, l), l.dir \in DOMAIN e2,
         NEW X, l.next # None => GoesOn(e[l.dir], e2[l.dir], X, l.stay),
         NEW l2, l2 = [dir |-> l.dir, index |-> l.index, next |-> l.next,
                       stay |-> l.stay \ X, seen |-> l.seen \ X]
  PROVE  ListSound(e2, l2)
<1> DEFINE s == e[l.dir]
           t == e2[l.dir]
<1>1. ListFields(e, l) /\ IF l.next = None THEN l.seen = l.stay ELSE ListGoes(s, l)
  BY DEF ListSound, ListOpen
<1>2. l2.dir = l.dir /\ l2.index = l.index /\ l2.next = l.next /\ l2.stay = l.stay \ X /\ l2.seen = l.seen \ X
  OBVIOUS
<1>3. ListFields(e2, l2)
  <2>1. l.index \in Nat /\ l.stay \subseteq AnyName
    BY <1>1 DEF ListFields
  <2>2. l2 = [dir |-> l2.dir, index |-> l2.index, next |-> l2.next, stay |-> l2.stay, seen |-> l2.seen]
    BY <1>2
  <2> QED BY <2>1, <2>2, <1>2 DEF ListFields
<1>4. CASE l.next = None
  <2>1. l.seen = l.stay
    BY <1>1, <1>4
  <2>2. l2.next = None /\ l2.seen = l2.stay
    BY <2>1, <1>2, <1>4
  <2> QED BY <2>2, <1>3 DEF ListSound, ListOpen
<1>5. CASE l.next # None
  <2>1. ListGoes(s, l)
    BY <1>1, <1>5
  <2>2. \A j \in Sfns(s) : NameOf(s, j) \notin X => j \in Sfns(t)
    BY <1>5 DEF GoesOn
  <2>3. \A j \in Sfns(t) : IF j \in Sfns(s) THEN SameFor(s, t, j) ELSE NameOf(t, j) \notin l.stay
    BY <1>5 DEF GoesOn
  <2> HIDE DEF s, t
  <2>4. ASSUME NEW j \in Staying(t, l2.stay)
        PROVE  /\ j \in Staying(s, l.stay) /\ NameOf(t, j) = NameOf(s, j) /\ NameOf(s, j) \notin X
               /\ \A i : InBlock(t, i, j) <=> InBlock(s, i, j)
    <3>1. j \in Sfns(t) /\ NameOf(t, j) \in l.stay /\ NameOf(t, j) \notin X
      BY <1>2 DEF Staying
    <3>2. j \in Sfns(s) /\ SameFor(s, t, j)
      BY <3>1, <2>3
    <3> QED BY <3>1, <3>2 DEF SameFor, Staying
  <2>5. l.seen \subseteq l.stay /\ l2.seen \subseteq l2.stay
    BY <2>1, <1>2 DEF ListGoes, ListBase
  <2>6. ASSUME NEW x \in l2.stay PROVE \E j \in Sfns(t) : NameOf(t, j) = x
    <3>1. x \in l.stay /\ x \notin X
      BY <1>2
    <3>2. PICK j \in Sfns(s) : NameOf(s, j) = x
      BY <3>1, <2>1 DEF ListGoes, ListBase
    <3>3. j \in Sfns(t) /\ SameFor(s, t, j)
      BY <3>1, <3>2, <2>2, <2>3
    <3> QED BY <3>2, <3>3 DEF SameFor
  <2>7. \A j \in Staying(t, l2.stay) : j > l2.index => ~InBlock(t, l2.index, j)
    BY <2>1, <2>4, <1>2 DEF ListGoes, ListBase
  <2>8. ListBase(t, l2)
    BY <2>5, <2>6, <2>7 DEF ListBase
  <2>9. \A j \in Staying(t, l2.stay) : NameOf(t, j) \in l2.seen <=> j < l2.index
    BY <2>1, <2>4, <1>2 DEF ListGoes
  <2>10. \A j \in Staying(t, l2.stay) : j = l2.index => l2.next = NameOf(t, j)
    BY <2>1, <2>4, <1>2 DEF ListGoes
  <2>11. l2.next \in l2.stay => l2.index \in Sfns(t) /\ NameOf(t, l2.index) = l2.next
    <3>1. SUFFICES ASSUME l.next \in l.stay, l.next \notin X
          PROVE  l.index \in Sfns(t) /\ NameOf(t, l.index) = l.next
      BY <1>2
    <3>2. l.index \in Sfns(s) /\ NameOf(s, l.index) = l.next
      BY <3>1, <2>1 DEF ListGoes
    <3>3. l.index \in Sfns(t) /\ SameFor(s, t, l.index)
      BY <3>1, <3>2, <2>2, <2>3
    <3> QED BY <3>2, <3>3 DEF SameFor
  <2>12. ListGoes(t, l2)
    BY <2>8, <2>9, <2>10, <2>11 DEF ListGoes
  <2> QED BY <2>12, <1>2, <1>3, <1>5 DEF ListSound, ListOpen, t
<1> QED BY <1>4, <1>5

\* A listing of which no file is removed.
LEMMA ListKept ==
  ASSUME NEW e, NEW e2, NEW l, ListSound(e, l),
         l # None => l.dir \in DOMAIN e2,
         l # None /\ l.next # None => GoesOn(e[l.dir], e2[l.dir], {}, l.stay)
  PROVE  ListSound(e2, l)
<1>1. CASE l = None
  BY <1>1 DEF ListSound, ListOpen
<1>2. CASE l # None
  <2>1. l = [dir |-> l.dir, index |-> l.index, next |-> l.next, stay |-> l.stay, seen |-> l.seen]
    BY <1>2 DEF ListSound, ListOpen, ListFields
  <2>2. l.stay \ {} = l.stay /\ l.seen \ {} = l.seen
    OBVIOUS
  <2>3. l = [dir |-> l.dir, index |-> l.index, next |-> l.next, stay |-> l.stay \ {}, seen |-> l.seen \ {}]
    BY <2>1, <2>2, Zenon
  <2> QED BY <2>3, <1>2, ListFollows
<1> QED BY <1>1, <1>2

-----------------------------------------------------------------------------
(* The steps of each call *)

Sound(e, f, l) == DirsSound(e) /\ HandlesSound(e, f) /\ ListSound(e, l)

\* The directory a path is in.
LEMMA DirOfIs ==
  ASSUME DirsSound(entries), NEW p \in DirPath \cup FilePath, DirOf(p) # None
  PROVE  /\ DirOf(p) \in DOMAIN entries /\ p[Len(p)] \in Name /\ DirSound(entries[DirOf(p)])
         /\ p \in DirPath => DirOf(p) = Root
<1>1. Root \in DOMAIN entries /\ (\A d \in DOMAIN entries : DirSound(entries[d])) /\ HeadsSound(entries)
  BY DEF DirsSound, Domains
<1>2. p \in {<<n>> : n \in Name} \/ p \in {<<n, m>> : n \in Name, m \in Name}
  BY DirAssumption
<1>3. p \in DirPath => p \in {<<n>> : n \in Name}
  BY DirAssumption
<1>4. CASE p \in {<<n>> : n \in Name}
  <2>1. PICK n \in Name : p = <<n>>
    BY <1>4
  <2>2. Len(p) = 1 /\ p[Len(p)] \in Name
    BY <2>1
  <2>3. DirOf(p) = Root
    BY <2>2 DEF DirOf
  <2> QED BY <2>2, <2>3, <1>1
<1>5. CASE p \in {<<n, m>> : n \in Name, m \in Name}
  <2>1. PICK n \in Name, m \in Name : p = <<n, m>>
    BY <1>5
  <2>2. Len(p) = 2 /\ p[Len(p)] \in Name /\ p[1] \in Name
    BY <2>1
  <2> DEFINE s == entries[Root]
             j == Match(s, p[1])
  <2>3. DirOf(p) = IF j = 0 \/ ~s[j].dir THEN None ELSE s[j].head
    BY <2>2 DEF DirOf
  <2>4. j # 0 /\ s[j].dir /\ DirOf(p) = s[j].head
    BY <2>3
  <2>5. j \in Sfns(s)
    BY <2>2, <2>4, <1>1, MatchIs DEF AnyName
  <2> HIDE DEF j
  <2>6. DirOf(p) \in DOMAIN entries
    BY <2>4, <2>5, <1>1 DEF HeadsSound
  <2>7. p \notin DirPath
    BY <1>3, <2>2
  <2> QED BY <2>2, <2>6, <2>7, <1>1
<1> QED BY <1>2, <1>4, <1>5

\* A change of sizes, or a longer directory, leaves all as it was.
LEMMA AlikeStep ==
  ASSUME NEW e, NEW f, NEW l, Sound(e, f, l), NEW d \in DOMAIN e, NEW t, Alike(e[d], t),
         NEW e2, e2 = [e EXCEPT ![d] = t]
  PROVE  Sound(e2, f, l)
<1>1. DirsSound(e) /\ HandlesSound(e, f) /\ ListSound(e, l) /\ DirSound(e[d]) /\ Domains(e)
  BY DEF Sound, DirsSound
<1>2. DirSound(t) /\ SameFiles(e[d], t)
  BY <1>1, AlikeSound
<1>3. DOMAIN e2 = DOMAIN e /\ e2[d] = t /\ \A c \in DOMAIN e : c # d => e2[c] = e[c]
  BY <1>1 DEF Domains
<1>4. Evolves(e[d], t)
  BY <1>2 DEF Evolves, SameFiles
<1>5. DirsSound(e2)
  BY <1>1, <1>4, ReplaceIs
<1>6. \A c \in DOMAIN e : /\ Sfns(e2[c]) = Sfns(e[c])
                          /\ \A j \in Sfns(e[c]) : SameFor(e[c], e2[c], j)
  BY <1>2, <1>3 DEF SameFiles, SameFor
<1>7. HandlesSound(e2, f)
  <2>1. \A h \in Handle : f[h] # None => f[h].at[1] \in DOMAIN e /\ f[h].at[2] \in Sfns(e[f[h].at[1]])
    BY <1>1 DEF HandlesSound, HandleSound
  <2>2. \A h \in Handle : EntryStays(e, e2, f, h)
    BY <2>1, <1>3, <1>6 DEF SameFor, EntryStays
  <2> QED BY <2>2, <1>1, HandlesFollow
<1>8. ListSound(e2, l)
  <2>1. l # None => l.dir \in DOMAIN e
    BY <1>1 DEF ListSound, ListOpen, ListFields
  <2>2. l # None => l.dir \in DOMAIN e2 /\ GoesOn(e[l.dir], e2[l.dir], {}, l.stay)
    BY <2>1, <1>3, <1>6 DEF GoesOn
  <2> QED BY <2>2, <1>1, ListKept
<1> QED BY <1>5, <1>7, <1>8 DEF Sound

\* fat_updateSfn changes the size of a file and nothing else.
LEMMA SetSizeStep ==
  ASSUME NEW f, NEW l, Sound(entries, f, l), NEW place \in (DOMAIN entries) \X Nat,
         place[2] \in Sfns(entries[place[1]]), NEW v \in 0 .. MaxSize
  PROVE  /\ Sound(SetSize(place, v), f, l) /\ DOMAIN SetSize(place, v) = DOMAIN entries
         /\ \A d \in DOMAIN entries : Alike(entries[d], SetSize(place, v)[d])
<1> DEFINE d == place[1]
           j == place[2]
           s == entries[d]
           t == [s EXCEPT ![j].size = v]
<1>1. Domains(entries) /\ DirSound(s) /\ d \in DOMAIN entries
  BY DEF Sound, DirsSound
<1>2. s \in Seq(Entry) /\ DOMAIN s = 1 .. Len(s) /\ Len(s) \in Nat
  BY <1>1 DEF DirSound
<1>3. j \in DOMAIN s /\ s[j] \in Entry /\ s[j].kind = "sfn"
  BY <1>1, At DEF Sfns
<1>4. /\ s[j].short \in AnyName /\ s[j].dir \in BOOLEAN /\ s[j].head \in Cluster \cup {Root, None}
      /\ s[j] = [kind |-> "sfn", short |-> s[j].short, dir |-> s[j].dir, head |-> s[j].head, size |-> s[j].size]
  BY <1>3, EntryIs
<1>5. [s[j] EXCEPT !.size = v] = [kind |-> "sfn", short |-> s[j].short, dir |-> s[j].dir, head |-> s[j].head, size |-> v]
  BY <1>4
<1>6. [s[j] EXCEPT !.size = v] \in Entry
  BY <1>4, <1>5, EntriesAre
<1> DEFINE x == [s[j] EXCEPT !.size = v]
<1>7. t = [s EXCEPT ![j] = x] /\ SetSize(place, v) = [entries EXCEPT ![d] = t]
  BY DEF SetSize
<1>8. x.kind = "sfn" /\ x.short = s[j].short /\ x.dir = s[j].dir /\ x.head = s[j].head /\ x \in Entry
  BY <1>5, <1>6
<1> HIDE DEF x
<1>9. Alike(s, t)
  <2>1. t \in Seq(Entry) /\ DOMAIN t = DOMAIN s /\ t[j] = x /\ \A i \in DOMAIN s : i # j => t[i] = s[i]
    <3>1. t = [i \in 1 .. Len(s) |-> IF i = j THEN x ELSE s[i]]
      BY <1>2, <1>7
    <3>2. \A i \in 1 .. Len(s) : s[i] \in Entry
      BY <1>2
    <3> HIDE DEF t
    <3>3. t \in [1 .. Len(s) -> Entry]
      BY <3>1, <3>2, <1>8
    <3> QED BY <3>1, <3>3, <1>2, <1>3
  <2> HIDE DEF t
  <2> QED BY <2>1, <1>3, <1>8 DEF Alike
<1> HIDE DEF t
<1>10. Sound(SetSize(place, v), f, l)
  BY <1>1, <1>7, <1>9, AlikeStep
<1>11. DOMAIN SetSize(place, v) = DOMAIN entries
  BY <1>1, <1>7 DEF Domains
<1>12. ASSUME NEW c \in DOMAIN entries PROVE Alike(entries[c], SetSize(place, v)[c])
  <2>1. CASE c = d
    BY <2>1, <1>1, <1>7, <1>9 DEF Domains
  <2>2. CASE c # d
    <3>1. SetSize(place, v)[c] = entries[c]
      BY <2>2, <1>1, <1>7 DEF Domains
    <3>2. entries[c] \in Seq(Entry)
      BY DEF Sound, DirsSound, DirSound
    <3> QED BY <3>1, <3>2 DEF Alike
  <2> QED BY <2>1, <2>2
<1> QED BY <1>10, <1>11, <1>12

\* A new file leaves the others, their handles and the listing as they were.
LEMMA AddStep ==
  ASSUME NEW e, NEW f, NEW l, Sound(e, f, l), NEW d \in DOMAIN e, NEW n \in Name, Match(e[d], n) = 0,
         NEW t, NEW J, Added(e[d], t, J, n, FALSE, None), NEW e2, e2 = [e EXCEPT ![d] = t]
  PROVE  Sound(e2, f, l) /\ d \in DOMAIN e2 /\ J \in Sfns(e2[d]) /\ ~e2[d][J].dir /\ J \in Nat
<1>1. DirsSound(e) /\ HandlesSound(e, f) /\ ListSound(e, l) /\ DirSound(e[d]) /\ Domains(e)
  BY DEF Sound, DirsSound
<1>2. /\ DirSound(t) /\ Sfns(t) = Sfns(e[d]) \cup {J} /\ J \notin Sfns(e[d]) /\ J \in Nat
      /\ \A j \in Sfns(e[d]) : SameFor(e[d], t, j)
      /\ NameOf(t, J) = n /\ t[J].dir = FALSE
  BY DEF Added
<1>3. DOMAIN e2 = DOMAIN e /\ e2[d] = t /\ \A c \in DOMAIN e : c # d => e2[c] = e[c]
  BY <1>1 DEF Domains
<1>4. Evolves(e[d], t)
  BY <1>2 DEF Evolves
<1>5. DirsSound(e2)
  BY <1>1, <1>4, ReplaceIs
<1>6. \A c \in DOMAIN e : /\ Sfns(e[c]) \subseteq Sfns(e2[c])
                          /\ \A j \in Sfns(e[c]) : SameFor(e[c], e2[c], j)
  BY <1>2, <1>3 DEF SameFor
<1>7. HandlesSound(e2, f)
  <2>1. \A h \in Handle : f[h] # None => f[h].at[1] \in DOMAIN e /\ f[h].at[2] \in Sfns(e[f[h].at[1]])
    BY <1>1 DEF HandlesSound, HandleSound
  <2>2. \A h \in Handle : EntryStays(e, e2, f, h)
    BY <2>1, <1>3, <1>6 DEF SameFor, EntryStays
  <2> QED BY <2>2, <1>1, HandlesFollow
<1>8. ListSound(e2, l)
  <2>1. l # None => l.dir \in DOMAIN e
    BY <1>1 DEF ListSound, ListOpen, ListFields
  <2>2. ASSUME l # None, l.next # None PROVE GoesOn(e[l.dir], e2[l.dir], {}, l.stay)
    <3>1. CASE l.dir # d
      BY <3>1, <2>1, <2>2, <1>3, <1>6 DEF GoesOn
    <3>2. CASE l.dir = d
      <4>1. ASSUME n \in l.stay PROVE \E j \in Sfns(e[d]) : NameOf(e[d], j) = n
        BY <4>1, <3>2, <2>2, <1>1 DEF ListSound, ListOpen, ListGoes, ListBase
      <4>2. \A j \in Sfns(e[d]) : ~Named(e[d], j, n)
        BY <1>1, MatchIs DEF AnyName
      <4>3. n \notin l.stay
        BY <4>1, <4>2, <1>1, NameOfIs
      <4> QED BY <4>3, <3>2, <1>2, <1>3 DEF GoesOn
    <3> QED BY <3>1, <3>2
  <2> QED BY <2>1, <2>2, <1>1, <1>3, ListKept
<1> QED BY <1>2, <1>3, <1>5, <1>7, <1>8 DEF Sound

\* A handle is given to a file.
LEMMA AttachIs ==
  ASSUME NEW e, NEW f, HandlesSound(e, f), NEW h \in Handle,
         NEW d \in DOMAIN e, NEW j \in Nat, j \in Sfns(e[d]), ~e[d][j].dir, NEW size \in 0 .. MaxSize,
         NEW name, NEW canon, NEW write, NEW grew,
         NEW f2, f2 = [f EXCEPT ![h] = [at |-> <<d, j>>, name |-> name, path |-> canon, size |-> size,
                                        write |-> write, grew |-> grew]]
  PROVE  HandlesSound(e, f2)
<1> DEFINE r == [at |-> <<d, j>>, name |-> name, path |-> canon, size |-> size, write |-> write, grew |-> grew]
<1>1. f = [g \in Handle |-> f[g]] /\ \A g \in Handle : HandleSound(e, f[g])
  BY DEF HandlesSound
<1>2. r.at = <<d, j>> /\ r.size = size /\ r.at[1] = d /\ r.at[2] = j /\ r.at \in (DOMAIN e) \X Nat
  OBVIOUS
<1>3. r = [at |-> r.at, name |-> r.name, path |-> r.path, size |-> r.size, write |-> r.write, grew |-> r.grew]
  OBVIOUS
<1>4. HandleSound(e, r)
  <2> HIDE DEF r
  <2>1. r.at[2] \in Sfns(e[r.at[1]]) /\ ~e[r.at[1]][r.at[2]].dir
    BY <1>2
  <2> QED BY <2>1, <1>2, <1>3, Zenon DEF HandleSound
<1>5. f2 = [f EXCEPT ![h] = r]
  OBVIOUS
<1> HIDE DEF r
<1>6. f2 = [g \in Handle |-> f2[g]] /\ f2[h] = r /\ \A g \in Handle : g # h => f2[g] = f[g]
  BY <1>1, <1>5
<1> QED BY <1>1, <1>4, <1>6 DEF HandlesSound

\* What is found as a file, or as a directory, when no label is in the way.
LEMMA FillsIs ==
  ASSUME NEW d, DirSound(entries[d]), NEW n \in Name, NEW dir \in BOOLEAN, Fills(d, n, dir) # 0,
         ~Astray(entries[d], n)
  PROVE  /\ Fills(d, n, dir) \in Sfns(entries[d]) /\ Fills(d, n, dir) \in Nat
         /\ Fills(d, n, dir) = Match(entries[d], n)
         /\ entries[d][Fills(d, n, dir)].dir = dir
         /\ entries[d][Fills(d, n, dir)].size \in 0 .. MaxSize
         /\ entries[d][Fills(d, n, dir)].head \in Cluster \cup {Root, None}
<1> DEFINE j == Match(entries[d], n)
<1>1. Fills(d, n, dir) = j /\ j # 0 /\ entries[d][j].dir = dir
  BY DEF Fills, Astray
<1>2. j \in Sfns(entries[d])
  BY <1>1, MatchIs DEF AnyName
<1> HIDE DEF j
<1>3. entries[d][j] \in Entry /\ entries[d][j].kind = "sfn" /\ j \in Nat
  BY <1>2, At DEF Sfns
<1>4. entries[d][j].size \in 0 .. MaxSize /\ entries[d][j].head \in Cluster \cup {Root, None}
  BY <1>3, EntryIs
<1> QED BY <1>1, <1>2, <1>3, <1>4 DEF j

\* The same, for a path.
LEMMA Target ==
  ASSUME DirsSound(entries), NEW p \in DirPath \cup FilePath, DirOf(p) # None, NEW dir \in BOOLEAN,
         Fills(DirOf(p), p[Len(p)], dir) # 0, ~Astray(entries[DirOf(p)], p[Len(p)])
  PROVE  /\ DirOf(p) \in DOMAIN entries /\ DirSound(entries[DirOf(p)])
         /\ Fills(DirOf(p), p[Len(p)], dir) \in Sfns(entries[DirOf(p)])
         /\ Fills(DirOf(p), p[Len(p)], dir) \in Nat
         /\ Fills(DirOf(p), p[Len(p)], dir) = Match(entries[DirOf(p)], p[Len(p)])
         /\ entries[DirOf(p)][Fills(DirOf(p), p[Len(p)], dir)].dir = dir
         /\ entries[DirOf(p)][Fills(DirOf(p), p[Len(p)], dir)].size \in 0 .. MaxSize
<1>1. DirOf(p) \in DOMAIN entries /\ p[Len(p)] \in Name /\ DirSound(entries[DirOf(p)])
  BY DirOfIs
<1> QED BY <1>1, FillsIs

\* What fs_open opens.
LEMMA Matched ==
  ASSUME DirsSound(entries), NEW p \in FilePath, DirOf(p) # None, NEW j, j = Match(entries[DirOf(p)], p[Len(p)]), j # 0
  PROVE  /\ DirOf(p) \in DOMAIN entries /\ DirSound(entries[DirOf(p)]) /\ j \in Sfns(entries[DirOf(p)]) /\ j \in Nat
         /\ entries[DirOf(p)][j].size \in 0 .. MaxSize /\ entries[DirOf(p)][j].dir \in BOOLEAN
<1>1. DirOf(p) \in DOMAIN entries /\ p[Len(p)] \in Name /\ DirSound(entries[DirOf(p)])
  BY DirOfIs
<1>2. j \in Sfns(entries[DirOf(p)])
  BY <1>1, MatchIs DEF AnyName
<1>3. entries[DirOf(p)][j] \in Entry /\ entries[DirOf(p)][j].kind = "sfn" /\ j \in Nat
  BY <1>1, <1>2, At DEF Sfns
<1> QED BY <1>1, <1>2, <1>3, EntryIs

\* fs_open of a file that is there.
LEMMA OpenThereStep ==
  ASSUME Sound(entries, handle, list), NEW h \in Handle, NEW p \in FilePath, OpenThere(h, p)
  PROVE  Sound(entries', handle', list')
<1> DEFINE d == DirOf(p)
           n == p[Len(p)]
           j == Match(entries[d], n)
<1>1. d # None /\ j # 0 /\ ~entries[d][j].dir /\ list' = list
  BY DEF OpenThere
<1>2. PICK write \in BOOLEAN, trunc \in BOOLEAN :
        /\ entries' = IF trunc THEN SetSize(<<d, j>>, 0) ELSE entries
        /\ Attach(h, p, <<d, j>>, NameOf(entries[d], j), Canon(p, NameOf(entries[d], j)),
                  IF trunc THEN 0 ELSE entries[d][j].size, write)
  BY DEF OpenThere
<1>3. DirsSound(entries)
  BY DEF Sound
<1>4. /\ d \in DOMAIN entries /\ DirSound(entries[d]) /\ j \in Sfns(entries[d]) /\ j \in Nat
      /\ ~entries[d][j].dir /\ entries[d][j].size \in 0 .. MaxSize
  BY <1>1, <1>3, Matched
<1> HIDE DEF d, n, j
<1>5. 0 \in 0 .. MaxSize
  BY Consts
<1>6. Sound(entries', handle, list) /\ d \in DOMAIN entries' /\ j \in Sfns(entries'[d]) /\ ~entries'[d][j].dir
  <2>1. CASE ~trunc
    BY <2>1, <1>2, <1>4
  <2>2. CASE trunc
    <3>1. entries' = SetSize(<<d, j>>, 0)
      BY <2>2, <1>2
    <3>2. <<d, j>> \in (DOMAIN entries) \X Nat /\ <<d, j>>[1] = d /\ <<d, j>>[2] = j
      BY <1>4
    <3>3. /\ Sound(SetSize(<<d, j>>, 0), handle, list) /\ DOMAIN SetSize(<<d, j>>, 0) = DOMAIN entries
          /\ \A c \in DOMAIN entries : Alike(entries[c], SetSize(<<d, j>>, 0)[c])
      <4>1. \A place \in (DOMAIN entries) \X Nat : place[2] \in Sfns(entries[place[1]]) =>
              /\ Sound(SetSize(place, 0), handle, list) /\ DOMAIN SetSize(place, 0) = DOMAIN entries
              /\ \A c \in DOMAIN entries : Alike(entries[c], SetSize(place, 0)[c])
        BY <1>5, SetSizeStep
      <4> QED BY <4>1, <3>2, <1>4
    <3>4. SameFiles(entries[d], entries'[d])
      BY <3>1, <3>3, <1>4, AlikeSound
    <3> QED BY <3>1, <3>3, <3>4, <1>4 DEF SameFiles, SameFor
  <2> QED BY <2>1, <2>2
<1>7. HandlesSound(entries', handle')
  <2>1. HandlesSound(entries', handle)
    BY <1>6 DEF Sound
  <2> DEFINE size == IF trunc THEN 0 ELSE entries[d][j].size
  <2>2. size \in 0 .. MaxSize
    BY <1>4, <1>5
  <2>3. handle' = [handle EXCEPT ![h] = [at |-> <<d, j>>, name |-> NameOf(entries[d], j), path |-> Canon(p, NameOf(entries[d], j)),
                                         size |-> size, write |-> write, grew |-> FALSE]]
    BY <1>2 DEF Attach
  <2> HIDE DEF size
  <2> QED BY <2>1, <2>2, <2>3, <1>4, <1>6, AttachIs
<1> QED BY <1>1, <1>6, <1>7 DEF Sound

\* fs_write.
LEMMA WriteStep ==
  ASSUME Sound(entries, handle, list), NEW h \in Handle, Write(h)
  PROVE  Sound(entries', handle', list')
<1>1. handle[h] # None /\ entries' = entries /\ list' = list
  BY DEF Write, Opened
<1>2. PICK n \in handle[h].size + 1 .. MaxSize : handle' = [handle EXCEPT ![h].size = n, ![h].grew = TRUE]
  BY DEF Write
<1>3. handle = [g \in Handle |-> handle[g]] /\ \A g \in Handle : HandleSound(entries, handle[g])
  BY DEF Sound, HandlesSound
<1>4. /\ handle[h].at \in (DOMAIN entries) \X Nat /\ handle[h].size \in 0 .. MaxSize
      /\ handle[h] = [at |-> handle[h].at, name |-> handle[h].name, path |-> handle[h].path, size |-> handle[h].size,
                      write |-> handle[h].write, grew |-> handle[h].grew]
      /\ handle[h].at[2] \in Sfns(entries[handle[h].at[1]]) /\ ~entries[handle[h].at[1]][handle[h].at[2]].dir
  BY <1>1, <1>3, Zenon DEF HandleSound
<1> DEFINE r == [at |-> handle[h].at, name |-> handle[h].name, path |-> handle[h].path, size |-> n,
                 write |-> handle[h].write, grew |-> TRUE]
<1>5. handle' = [g \in Handle |-> IF g = h THEN r ELSE handle[g]]
  <2>1. [[handle[h] EXCEPT !.size = n] EXCEPT !.grew = TRUE] = r
    <3>1. PICK a, b, c, k, w, g : handle[h] = [at |-> a, name |-> b, path |-> c, size |-> k, write |-> w, grew |-> g]
      BY <1>4
    <3> DEFINE q == [at |-> a, name |-> b, path |-> c, size |-> k, write |-> w, grew |-> g]
               u == [at |-> a, name |-> b, path |-> c, size |-> n, write |-> w, grew |-> TRUE]
    <3>0. PICK y : y = TRUE
      OBVIOUS
    <3>2. handle[h].at = a /\ handle[h].name = b /\ handle[h].path = c /\ handle[h].write = w
      BY <3>1
    <3>3. r = u
      BY <3>2
    <3>4. [q EXCEPT !.size = n] = [at |-> a, name |-> b, path |-> c, size |-> n, write |-> w, grew |-> g]
      OBVIOUS
    <3>5. [[at |-> a, name |-> b, path |-> c, size |-> n, write |-> w, grew |-> g] EXCEPT !.grew = y]
            = [at |-> a, name |-> b, path |-> c, size |-> n, write |-> w, grew |-> y]
      OBVIOUS
    <3>6. [[at |-> a, name |-> b, path |-> c, size |-> n, write |-> w, grew |-> g] EXCEPT !.grew = TRUE] = u
      BY <3>0, <3>5, Zenon
    <3> QED BY <3>1, <3>3, <3>4, <3>6, Zenon
  <2>2. handle' = [handle EXCEPT ![h] = [[handle[h] EXCEPT !.size = n] EXCEPT !.grew = TRUE]]
    BY <1>2, <1>3
  <2> HIDE DEF r
  <2> QED BY <2>1, <2>2, <1>3
<1>6. n \in 0 .. MaxSize
  BY <1>4, Consts
<1>7. r.at = handle[h].at /\ r.size = n
      /\ r = [at |-> r.at, name |-> r.name, path |-> r.path, size |-> r.size, write |-> r.write, grew |-> r.grew]
  OBVIOUS
<1> HIDE DEF r
<1>8. HandleSound(entries, r)
  BY <1>4, <1>6, <1>7, Zenon DEF HandleSound
<1>9. handle' = [g \in Handle |-> handle'[g]] /\ \A g \in Handle : HandleSound(entries, handle'[g])
  BY <1>3, <1>5, <1>8
<1>10. HandlesSound(entries', handle')
  BY <1>1, <1>9 DEF HandlesSound
<1> QED BY <1>1, <1>10 DEF Sound

\* fs_close.
LEMMA CloseStep ==
  ASSUME Sound(entries, handle, list), NEW h \in Handle, Close(h)
  PROVE  Sound(entries', handle', list')
<1>1. handle[h] # None /\ list' = list /\ handle' = [handle EXCEPT ![h] = None]
      /\ entries' = IF handle[h].grew THEN SetSize(handle[h].at, handle[h].size) ELSE entries
  BY DEF Close, Opened
<1>2. HandleSound(entries, handle[h])
  BY DEF Sound, HandlesSound
<1>3. /\ handle[h].at \in (DOMAIN entries) \X Nat /\ handle[h].size \in 0 .. MaxSize
      /\ handle[h].at[2] \in Sfns(entries[handle[h].at[1]])
  BY <1>1, <1>2 DEF HandleSound
<1>4. Sound(SetSize(handle[h].at, handle[h].size), handle, list)
  BY <1>3, SetSizeStep
<1>5. Sound(entries', handle, list)
  BY <1>1, <1>4
<1>6. HandlesSound(entries', handle')
  <2>1. handle = [g \in Handle |-> handle[g]] /\ \A g \in Handle : HandleSound(entries', handle[g])
    BY <1>5 DEF Sound, HandlesSound
  <2>2. HandleSound(entries', None)
    BY DEF HandleSound
  <2>3. handle' = [g \in Handle |-> IF g = h THEN None ELSE handle[g]]
    BY <1>1, <2>1
  <2> QED BY <2>1, <2>2, <2>3 DEF HandlesSound
<1> QED BY <1>1, <1>5, <1>6 DEF Sound

\* The directories when directory d has become t and those of X are new.
Kept(d, t, X) ==
  [x \in DOMAIN entries \cup X |->
     IF x = d THEN t ELSE IF x \in DOMAIN entries THEN entries[x] ELSE EmptyDirectory(Least(Free), d)]

\* What fat_modifyDirSpace makes of the directory: t with the new file, or none when it is not made.
LEMMA StoredIs ==
  ASSUME DirsSound(entries), NEW d \in DOMAIN entries, NEW n \in Name, Match(entries[d], n) = 0,
         NEW o \in Outcomes(d, n), NEW dir \in BOOLEAN, o.made => ~NoNumber(entries[d], n),
         NEW c \in Cluster \cup {Root, None}, c = IF dir THEN Least(Free) ELSE None,
         NEW X, X = IF dir THEN {c} ELSE {}
  PROVE  /\ ~o.made => \E t : Larger(entries[d], t) /\ Stored(d, n, dir, o) = [entries EXCEPT ![d] = t]
         /\ o.made => \E t : /\ Added(entries[d], t, StoreAt(entries[d], Parts[n] + 1) + Parts[n], n, dir, c)
                             /\ Stored(d, n, dir, o) = Kept(d, t, X)
<1> DEFINE s == entries[d]
           at == StoreAt(s, Parts[n] + 1)
           t == Saved(Grown(s, o.grow), at, n, ShortFor(s, n), dir, c)
<1>1. o.grow \in BOOLEAN /\ o.made \in BOOLEAN /\ (o.made => (Needs(d, n) => o.grow))
  BY DEF Outcomes
<1>2. DirSound(s)
  BY DEF DirsSound
<1>3. ASSUME ~o.made
      PROVE  Stored(d, n, dir, o) = [entries EXCEPT ![d] = Grown(s, o.grow)]
  BY <1>3 DEF Stored, Grown
<1>4. Larger(s, Grown(s, o.grow))
  BY <1>1, <1>2, GrownIs DEF Larger
<1>5. ASSUME o.made
      PROVE  Stored(d, n, dir, o) = Kept(d, t, X)
  <2>1. Stored(d, n, dir, o) = [x \in DOMAIN entries \cup X |->
                                  IF x = d THEN t ELSE IF x \in DOMAIN entries THEN entries[x]
                                  ELSE EmptyDirectory(c, d)]
    BY <1>5, Zenon DEF Stored, Grown
  <2> HIDE DEF t
  <2>2. \A x \in DOMAIN entries \cup X : x \in DOMAIN entries \/ c = Least(Free)
    OBVIOUS
  <2> QED BY <2>1, <2>2 DEF Kept
<1>6. ASSUME o.made PROVE Added(s, t, at + Parts[n], n, dir, c)
  <2>1. at + Parts[n] > Len(s) => o.grow
    BY <1>1, <1>6 DEF Needs
  <2>2. ~NoNumber(s, n)
    BY <1>6
  <2>4. t = Saved(Grown(s, o.grow), StoreAt(s, Parts[n] + 1), n, ShortFor(s, n), dir, c)
    OBVIOUS
  <2> HIDE DEF t, s
  <2>5. Match(s, n) = 0
    BY DEF s
  <2> QED BY <2>1, <2>2, <2>4, <2>5, <1>1, <1>2, AddedIs
<1> HIDE DEF t
<1> QED BY <1>3, <1>4, <1>5, <1>6

\* What fs_open of a new file does: the directory is as it was, with room perhaps, or has the file.
LEMMA OpenNewIs ==
  ASSUME DirsSound(entries), NEW h \in Handle, NEW p \in FilePath, OpenNew(h, p), ~slip'
  PROVE  /\ DirOf(p) \in DOMAIN entries /\ p[Len(p)] \in Name /\ Match(entries[DirOf(p)], p[Len(p)]) = 0
         /\ list' = list /\ handle[h] = None
         /\ \E t, J : /\ entries' = [entries EXCEPT ![DirOf(p)] = t]
                      /\ \/ Larger(entries[DirOf(p)], t) /\ handle' = handle
                         \/ /\ Added(entries[DirOf(p)], t, J, p[Len(p)], FALSE, None)
                            /\ Attach(h, p, <<DirOf(p), J>>, p[Len(p)], Canon(p, p[Len(p)]), 0, TRUE)
<1> DEFINE d == DirOf(p)
           n == p[Len(p)]
           s == entries[d]
           at == StoreAt(s, Parts[n] + 1) + Parts[n]
<1>1. d # None /\ Found(s, n) = 0 /\ list' = list /\ handle[h] = None
  BY DEF OpenNew
<1>2. PICK o \in Outcomes(d, n), trunc \in BOOLEAN :
        LET v == Stored(d, n, FALSE, o)
            cut == o.made /\ trunc /\ d = Root /\ fat32
        IN /\ entries' = IF cut THEN [v EXCEPT ![d] = SubSeq(@, 1, EntryCount)] ELSE v
           /\ slip' = (entries'[d] # v[d] \/ (o.made /\ NoNumber(entries[d], n)))
           /\ IF o.made /\ at <= Len(entries'[d]) THEN Attach(h, p, <<d, at>>, n, Canon(p, n), 0, TRUE)
              ELSE UNCHANGED handle
  BY DEF OpenNew
<1>3. d \in DOMAIN entries /\ n \in Name /\ DirSound(s) /\ DirsSound(entries) /\ Domains(entries)
  BY <1>1, DirOfIs DEF DirsSound
<1>12. Match(s, n) = 0
  BY <1>1, <1>3, FoundIs DEF AnyName
<1> DEFINE v == Stored(d, n, FALSE, o)
<1>4. entries'[d] = v[d] /\ (o.made => ~NoNumber(s, n)) /\ o.made \in BOOLEAN
  <2>1. slip' = (entries'[d] # v[d] \/ (o.made /\ NoNumber(entries[d], n)))
    BY <1>2
  <2>2. o.made \in BOOLEAN
    BY DEF Outcomes
  <2> HIDE DEF v, d, n
  <2> QED BY <2>1, <2>2
<1>5. entries' = [v EXCEPT ![d] = SubSeq(@, 1, EntryCount)] \/ entries' = v
  BY <1>2
<1>6. IF o.made /\ at <= Len(entries'[d]) THEN Attach(h, p, <<d, at>>, n, Canon(p, n), 0, TRUE) ELSE UNCHANGED handle
  BY <1>2
<1>7. \E t : /\ ~o.made => Larger(s, t)
             /\ o.made => Added(s, t, at, n, FALSE, None)
             /\ v = [entries EXCEPT ![d] = t]
  <2>1. FALSE \in BOOLEAN /\ None \in Cluster \cup {Root, None}
        /\ None = (IF FALSE THEN Least(Free) ELSE None) /\ {} = (IF FALSE THEN {None} ELSE {})
    OBVIOUS
  <2>2. /\ ~o.made => \E t : Larger(entries[d], t) /\ Stored(d, n, FALSE, o) = [entries EXCEPT ![d] = t]
        /\ o.made => \E t : /\ Added(entries[d], t, StoreAt(entries[d], Parts[n] + 1) + Parts[n], n, FALSE, None)
                            /\ Stored(d, n, FALSE, o) = Kept(d, t, {})
    <3>1. PICK dir \in BOOLEAN : ~dir
      OBVIOUS
    <3>2. None = (IF dir THEN Least(Free) ELSE None) /\ {} = (IF dir THEN {None} ELSE {})
      BY <3>1
    <3> HIDE DEF v, d, n, at
    <3>3. /\ ~o.made => \E t : Larger(entries[d], t) /\ Stored(d, n, dir, o) = [entries EXCEPT ![d] = t]
          /\ o.made => \E t : /\ Added(entries[d], t, StoreAt(entries[d], Parts[n] + 1) + Parts[n], n, dir, None)
                              /\ Stored(d, n, dir, o) = Kept(d, t, {})
      BY <1>12, <1>3, <1>4, <2>1, <3>2, StoredIs
    <3>4. dir = FALSE
      BY <3>1
    <3> QED BY <3>3, <3>4, Zenon
  <2> HIDE DEF d
  <2>3. \A t : Kept(d, t, {}) = [entries EXCEPT ![d] = t]
    BY <1>3 DEF Domains, Kept
  <2> HIDE DEF n
  <2> QED BY <2>2, <2>3, <1>4
<1> HIDE DEF v, at, d, n
<1>8. PICK t : (~o.made => Larger(s, t)) /\ (o.made => Added(s, t, at, n, FALSE, None)) /\ v = [entries EXCEPT ![d] = t]
  BY <1>7
<1>9. entries' = v
  <2>1. v = [x \in DOMAIN entries |-> v[x]] /\ d \in DOMAIN entries
    BY <1>3, <1>8
  <2>2. CASE entries' = [v EXCEPT ![d] = SubSeq(@, 1, EntryCount)]
    <3> DEFINE w == SubSeq(v[d], 1, EntryCount)
    <3>1. entries' = [v EXCEPT ![d] = w]
      BY <2>2
    <3> HIDE DEF w
    <3>2. w = v[d]
      BY <3>1, <2>1, <1>4
    <3> QED BY <3>1, <3>2, <2>1
  <2> QED BY <2>2, <1>5
<1>10. CASE ~o.made
  <2>1. handle' = handle
    BY <1>6, <1>10
  <2>2. Larger(s, t) /\ entries' = [entries EXCEPT ![d] = t]
    BY <1>8, <1>9, <1>10
  <2> QED BY <2>1, <2>2, <1>1, <1>3, <1>12 DEF d, n
<1>11. CASE o.made
  <2>1. Added(s, t, at, n, FALSE, None) /\ entries' = [entries EXCEPT ![d] = t]
    BY <1>8, <1>9, <1>11
  <2>2. entries'[d] = t /\ at <= Len(t)
    BY <2>1, <1>3 DEF Added
  <2>3. Attach(h, p, <<d, at>>, n, Canon(p, n), 0, TRUE)
    BY <2>2, <1>6, <1>11
  <2>4. \E J : Added(s, t, J, n, FALSE, None) /\ Attach(h, p, <<d, J>>, n, Canon(p, n), 0, TRUE)
    BY <2>1, <2>3
  <2> QED BY <2>1, <2>4, <1>1, <1>3, <1>12, Zenon DEF d, n
<1> QED BY <1>4, <1>10, <1>11

\* fs_open of a new file.
LEMMA OpenNewStep ==
  ASSUME Sound(entries, handle, list), NEW h \in Handle, NEW p \in FilePath, OpenNew(h, p), ~slip'
  PROVE  Sound(entries', handle', list')
<1> DEFINE d == DirOf(p)
           n == p[Len(p)]
           s == entries[d]
<1>1. DirsSound(entries)
  BY DEF Sound
<1>2. d \in DOMAIN entries /\ n \in Name /\ Match(s, n) = 0 /\ list' = list
  BY <1>1, OpenNewIs
<1>3. PICK t, J : /\ entries' = [entries EXCEPT ![d] = t]
                  /\ \/ Larger(s, t) /\ handle' = handle
                     \/ Added(s, t, J, n, FALSE, None) /\ Attach(h, p, <<d, J>>, n, Canon(p, n), 0, TRUE)
  BY <1>1, OpenNewIs
<1> HIDE DEF d, n
<1>4. CASE Larger(s, t) /\ handle' = handle
  BY <1>2, <1>3, <1>4, AlikeStep DEF Larger
<1>5. CASE Added(s, t, J, n, FALSE, None) /\ Attach(h, p, <<d, J>>, n, Canon(p, n), 0, TRUE)
  <2>1. /\ Sound(entries', handle, list) /\ d \in DOMAIN entries' /\ J \in Sfns(entries'[d])
        /\ ~entries'[d][J].dir /\ J \in Nat
    BY <1>2, <1>3, <1>5, AddStep
  <2>2. handle' = [handle EXCEPT ![h] = [at |-> <<d, J>>, name |-> n, path |-> Canon(p, n), size |-> 0,
                                         write |-> TRUE, grew |-> FALSE]]
    BY <1>5 DEF Attach
  <2>3. 0 \in 0 .. MaxSize /\ HandlesSound(entries', handle)
    BY <2>1, Consts DEF Sound
  <2>4. HandlesSound(entries', handle')
    BY <2>1, <2>2, <2>3, AttachIs
  <2> QED BY <2>1, <2>4, <1>2 DEF Sound
<1> QED BY <1>3, <1>4, <1>5

\* The root directory has one more directory, and the new one is empty.
LEMMA NewDirStep ==
  ASSUME NEW f, Sound(entries, f, None), NEW n \in Name, NEW c \in Cluster, c \notin DOMAIN entries,
         c = Least(Free), NEW t, NEW J, Added(entries[Root], t, J, n, TRUE, c),
         NEW e2, e2 = Kept(Root, t, {c})
  PROVE  Sound(e2, f, None)
<1> DEFINE s == entries[Root]
           u == EmptyDirectory(c, Root)
<1>1. DirsSound(entries) /\ HandlesSound(entries, f) /\ Domains(entries) /\ HeadsSound(entries)
      /\ \A x \in DOMAIN entries : DirSound(entries[x])
  BY DEF Sound, DirsSound
<1>2. Root \in DOMAIN entries /\ DOMAIN entries \subseteq Cluster \cup {Root} /\ c # Root
  BY <1>1 DEF Domains
<1>3. EntryCount >= 2
  BY Consts
<1>4. DirSound(u) /\ Sfns(u) = {1, 2} /\ u[1].dir /\ u[2].dir
  BY <1>2, <1>3, EmptyIs
<1> HIDE DEF u
<1>5. DOMAIN e2 = DOMAIN entries \cup {c} /\ e2[Root] = t /\ e2[c] = u
      /\ (\A x \in DOMAIN entries : x # Root => e2[x] = entries[x]) /\ e2 = [x \in DOMAIN e2 |-> e2[x]]
  BY <1>2 DEF Kept, u
<1>6. /\ DirSound(t) /\ Sfns(t) = Sfns(s) \cup {J} /\ J \notin Sfns(s)
      /\ \A j \in Sfns(s) : SameFor(s, t, j)
      /\ t[J].dir = TRUE /\ t[J].head = c
  BY DEF Added
<1> HIDE DEF s
<1>7. \A j \in Sfns(s) : t[j].dir = s[j].dir /\ t[j].head = s[j].head
  BY <1>6 DEF SameFor
<1>8. \A j \in Sfns(t) : t[j].dir => t[j].head \in DOMAIN e2 \ {Root}
  <2>1. \A j \in Sfns(s) : s[j].dir => s[j].head \in DOMAIN entries \ {Root}
    BY <1>1 DEF HeadsSound, s
  <2> QED BY <2>1, <1>2, <1>5, <1>6, <1>7
<1>9. \A i, j \in Sfns(t) : t[i].dir /\ t[j].dir /\ t[i].head = t[j].head => i = j
  <2>1. \A i, j \in Sfns(s) : s[i].dir /\ s[j].dir /\ s[i].head = s[j].head => i = j
    BY <1>1 DEF HeadsSound, s
  <2>2. \A j \in Sfns(s) : s[j].dir => s[j].head # c
    BY <1>1 DEF HeadsSound, s
  <2> QED BY <2>1, <2>2, <1>6, <1>7
<1>10. \A x \in DOMAIN e2 \ {Root} : /\ {1, 2} \subseteq Sfns(e2[x])
                                     /\ \A j \in Sfns(e2[x]) : e2[x][j].dir <=> j \in {1, 2}
  <2>1. SUFFICES ASSUME NEW x \in DOMAIN e2 \ {Root}
        PROVE {1, 2} \subseteq Sfns(e2[x]) /\ \A j \in Sfns(e2[x]) : e2[x][j].dir <=> j \in {1, 2}
    OBVIOUS
  <2>2. CASE x = c
    <3>1. \A j \in {1, 2} : u[j].dir
      BY <1>4
    <3> QED BY <3>1, <2>2, <1>4, <1>5
  <2>3. CASE x # c
    <3>1. e2[x] = entries[x] /\ x \in DOMAIN entries \ {Root}
      BY <2>3, <1>5
    <3>2. {1, 2} \subseteq Sfns(entries[x]) /\ \A j \in Sfns(entries[x]) : entries[x][j].dir <=> j \in {1, 2}
      BY <3>1, <1>1 DEF HeadsSound
    <3> QED BY <3>1, <3>2
  <2> QED BY <2>2, <2>3
<1>11. DirsSound(e2)
  <2>1. Domains(e2)
    BY <1>2, <1>5 DEF Domains
  <2>2. HeadsSound(e2)
    <3>1. /\ \A j \in Sfns(e2[Root]) : e2[Root][j].dir => e2[Root][j].head \in DOMAIN e2 \ {Root}
          /\ \A i, j \in Sfns(e2[Root]) :
               e2[Root][i].dir /\ e2[Root][j].dir /\ e2[Root][i].head = e2[Root][j].head => i = j
      BY <1>5, <1>8, <1>9
    <3> QED BY <1>10, <3>1, Zenon DEF HeadsSound
  <2>3. \A x \in DOMAIN e2 : DirSound(e2[x])
    BY <1>1, <1>4, <1>5, <1>6
  <2> QED BY <2>1, <2>2, <2>3 DEF DirsSound
<1>12. HandlesSound(e2, f)
  <2>1. \A h \in Handle : f[h] # None => f[h].at[1] \in DOMAIN entries /\ f[h].at[2] \in Sfns(entries[f[h].at[1]])
    BY <1>1 DEF HandlesSound, HandleSound
  <2>2. \A h \in Handle : EntryStays(entries, e2, f, h)
    <3>1. SUFFICES ASSUME NEW h \in Handle, f[h] # None
          PROVE  /\ f[h].at[1] \in DOMAIN e2 /\ f[h].at[2] \in Sfns(e2[f[h].at[1]])
                 /\ e2[f[h].at[1]][f[h].at[2]].dir = entries[f[h].at[1]][f[h].at[2]].dir
      BY DEF EntryStays
    <3> DEFINE x == f[h].at[1]
               j == f[h].at[2]
    <3>2. x \in DOMAIN entries /\ j \in Sfns(entries[x])
      BY <2>1, <3>1
    <3> HIDE DEF x, j
    <3>3. x \in DOMAIN e2 /\ j \in Sfns(e2[x]) /\ e2[x][j].dir = entries[x][j].dir
      <4>1. CASE x = Root
        <5>1. j \in Sfns(s)
          BY <3>2, <4>1 DEF s
        <5>2. t[j].dir = s[j].dir /\ j \in Sfns(t)
          BY <5>1, <1>6, <1>7
        <5> QED BY <5>2, <4>1, <1>5, <1>2 DEF s
      <4>2. CASE x # Root
        BY <4>2, <3>2, <1>5
      <4> QED BY <4>1, <4>2
    <3> QED BY <3>3 DEF x, j
  <2> QED BY <2>2, <1>1, HandlesFollow
<1> QED BY <1>11, <1>12 DEF Sound, ListSound, ListOpen

\* What fs_mkdir does: the root directory is as it was, or has one more directory.
LEMMA MakeDirIs ==
  ASSUME DirsSound(entries), NEW p \in DirPath, MakeDir(p), ~slip'
  PROVE  /\ p[Len(p)] \in Name /\ Match(entries[Root], p[Len(p)]) = 0 /\ handle' = handle /\ list' = list
         /\ \/ \E t : Larger(entries[Root], t) /\ entries' = [entries EXCEPT ![Root] = t]
            \/ \E c \in Cluster \ DOMAIN entries : \E t, J :
                 /\ Added(entries[Root], t, J, p[Len(p)], TRUE, c) /\ c = Least(Free)
                 /\ entries' = Kept(Root, t, {c})
<1> DEFINE d == DirOf(p)
           n == p[Len(p)]
<1>1. d # None /\ Found(entries[d], n) = 0 /\ handle' = handle /\ list' = list
  BY DEF MakeDir
<1>2. PICK o \in Outcomes(d, n) :
        /\ o.made => Free # {}
        /\ entries' = Stored(d, n, TRUE, o)
        /\ slip' = (o.made /\ NoNumber(entries[d], n))
  BY DEF MakeDir
<1>3. d \in DOMAIN entries /\ n \in Name /\ DirSound(entries[d]) /\ DirsSound(entries) /\ d = Root
  BY <1>1, DirOfIs
<1>11. Match(entries[d], n) = 0
  BY <1>1, <1>3, FoundIs DEF AnyName
<1>4. o.made \in BOOLEAN
  BY DEF Outcomes
<1> HIDE DEF d, n
<1>5. o.made => ~NoNumber(entries[d], n)
  BY <1>2
<1>6. PICK dir \in BOOLEAN : dir
  OBVIOUS
<1>7. dir = TRUE
  BY <1>6
<1>8. entries' = Stored(d, n, dir, o)
  BY <1>2, <1>7, Zenon
<1>9. CASE ~o.made
  <2>1. Stored(d, n, dir, o) = [entries EXCEPT ![d] = entries[d] \o (IF o.grow THEN Blank ELSE <<>>)]
    BY <1>9 DEF Stored
  <2>2. o.grow \in BOOLEAN
    BY DEF Outcomes
  <2>3. Larger(entries[d], Grown(entries[d], o.grow)) /\ entries' = [entries EXCEPT ![d] = Grown(entries[d], o.grow)]
    BY <2>1, <2>2, <1>3, <1>8, GrownIs DEF Grown, Larger
  <2>4. \E t : Larger(entries[Root], t) /\ entries' = [entries EXCEPT ![Root] = t]
    BY <2>3, <1>3
  <2> QED BY <2>4, <1>1, <1>3, <1>11 DEF d, n
<1>10. CASE o.made
  <2> DEFINE c == Least(Free)
  <2>1. c \in Free
    <3>1. Cluster \subseteq Nat
      BY DirAssumption
    <3>2. Free \in SUBSET Nat /\ Free # {}
      BY <3>1, <1>2, <1>10 DEF Free
    <3> QED BY <3>2, LeastIs
  <2>2. c \in Cluster /\ c \notin DOMAIN entries
    BY <2>1 DEF Free
  <2> HIDE DEF c
  <2>3. c = (IF dir THEN Least(Free) ELSE None) /\ {c} = (IF dir THEN {c} ELSE {}) /\ c \in Cluster \cup {Root, None}
    BY <1>6, <2>2 DEF c
  <2>4. \E t : /\ Added(entries[d], t, StoreAt(entries[d], Parts[n] + 1) + Parts[n], n, dir, c)
               /\ Stored(d, n, dir, o) = Kept(d, t, {c})
    BY <1>11, <1>3, <1>5, <1>10, <2>3, StoredIs
  <2>5. PICK t : /\ Added(entries[d], t, StoreAt(entries[d], Parts[n] + 1) + Parts[n], n, dir, c)
                 /\ Stored(d, n, dir, o) = Kept(d, t, {c})
    BY <2>4
  <2>6. PICK J : J = StoreAt(entries[d], Parts[n] + 1) + Parts[n]
    OBVIOUS
  <2>7. Added(entries[Root], t, J, n, TRUE, c) /\ entries' = Kept(Root, t, {c})
    BY <2>5, <2>6, <1>3, <1>7, <1>8, Zenon
  <2>8. c = Least(Free) /\ c \in Cluster \ DOMAIN entries
    BY <2>2 DEF c
  <2>9. \E a \in Cluster \ DOMAIN entries : \E u, K :
          Added(entries[Root], u, K, n, TRUE, a) /\ a = Least(Free) /\ entries' = Kept(Root, u, {a})
    BY <2>7, <2>8, Zenon
  <2> QED BY <2>9, <1>1, <1>3, <1>11, Zenon DEF d, n
<1> QED BY <1>4, <1>9, <1>10

\* fs_mkdir.
LEMMA MakeDirStep ==
  ASSUME Sound(entries, handle, list), list = None, NEW p \in DirPath, MakeDir(p), ~slip'
  PROVE  Sound(entries', handle', list')
<1> DEFINE n == p[Len(p)]
<1>1. DirsSound(entries) /\ Root \in DOMAIN entries
  BY DEF Sound, DirsSound, Domains
<1>2. /\ n \in Name /\ handle' = handle /\ list' = list
      /\ \/ \E t : Larger(entries[Root], t) /\ entries' = [entries EXCEPT ![Root] = t]
         \/ \E c \in Cluster \ DOMAIN entries : \E t, J :
              /\ Added(entries[Root], t, J, n, TRUE, c) /\ c = Least(Free)
              /\ entries' = Kept(Root, t, {c})
  BY <1>1, MakeDirIs
<1> HIDE DEF n
<1>3. ASSUME NEW t, Larger(entries[Root], t), entries' = [entries EXCEPT ![Root] = t]
      PROVE  Sound(entries', handle, list)
  BY <1>1, <1>3, AlikeStep DEF Larger
<1>4. ASSUME NEW c \in Cluster \ DOMAIN entries, NEW t, NEW J, Added(entries[Root], t, J, n, TRUE, c),
             c = Least(Free), entries' = Kept(Root, t, {c})
      PROVE  Sound(entries', handle, list)
  BY <1>2, <1>4, NewDirStep
<1> QED BY <1>2, <1>3, <1>4


-----------------------------------------------------------------------------
(* Removing *)

\* The entries of a long name come directly before the file's own, after any other file.
LEMMA BlockPlaces ==
  ASSUME NEW s, DirSound(s), NEW j \in Sfns(s),
         NEW reset, reset = LastBefore(s, j, {"sfn", "deleted", "label"})
  PROVE  {k \in reset + 1 .. j - 1 : s[k].kind = "lfn"} = {i \in DOMAIN s : InBlock(s, i, j)}
<1>1. j \in DOMAIN s /\ j \in Nat /\ j >= 1 /\ DOMAIN s = 1 .. Len(s) /\ Len(s) \in Nat /\ j <= Len(s)
  BY At, DirScans DEF Sfns
<1>2. /\ reset \in 0 .. j - 1
      /\ reset # 0 => s[reset].kind \in {"sfn", "deleted", "label"}
      /\ \A i \in reset + 1 .. j - 1 : s[i].kind \notin {"sfn", "deleted", "label"}
  BY <1>1, LastBeforeIs
<1>3. ASSUME NEW k \in reset + 1 .. j - 1, s[k].kind = "lfn" PROVE k \in DOMAIN s /\ InBlock(s, k, j)
  <2>1. k \in DOMAIN s /\ k < j /\ k \in Nat
    BY <1>1, <1>2
  <2>2. \A i \in k + 1 .. j - 1 : s[i].kind # "sfn"
    BY <1>1, <1>2, <2>1
  <2>3. k + s[k].part = j
    BY <1>3, <2>1, <2>2, BlockOf
  <2> QED BY <1>3, <2>1, <2>3 DEF InBlock
<1>4. ASSUME NEW i \in DOMAIN s, InBlock(s, i, j) PROVE i \in reset + 1 .. j - 1 /\ s[i].kind = "lfn"
  <2>1. s[i].kind = "lfn" /\ i + s[i].part = j /\ i \in Nat /\ i >= 1
    BY <1>1, <1>4 DEF InBlock
  <2>2. s[i].part \in 1 .. Parts[s[i].name] /\ Block(s, s[i].name, j)
    BY <2>1 DEF DirSound, Whole
  <2> DEFINE n == s[i].name
             q == s[i].part
             P == Parts[n]
  <2>3. n \in Name /\ \A m \in 1 .. P : s[j - m] = Lfn(n, m)
    BY <2>2 DEF Block
  <2>4. P \in Nat /\ q \in 1 .. P /\ i + q = j
    BY <2>1, <2>2, <2>3, Consts
  <2> HIDE DEF n, q, P
  <2>5. i < j
    BY <2>1, <2>4
  <2>6. ~(i <= reset)
    <3>1. SUFFICES ASSUME i <= reset PROVE FALSE
      OBVIOUS
    <3>2. j - reset \in 1 .. P /\ j - (j - reset) = reset /\ reset # 0
      BY <3>1, <2>1, <2>4, <1>1, <1>2
    <3>3. s[reset] = Lfn(n, j - reset)
      BY <3>2, <2>3
    <3>4. s[reset].kind = "lfn"
      BY <3>3, Kinds
    <3> QED BY <3>2, <3>4, <1>2
  <2> QED BY <2>1, <2>5, <2>6, <1>1, <1>2
<1> QED BY <1>3, <1>4

\* A scan that remembers no place of another file remembers those of the one it finds.
LEMMA AfterIs ==
  ASSUME NEW d, DirSound(entries[d]), NEW n \in Name, NEW dir \in BOOLEAN, NEW old, NEW j,
         j = Fills(d, n, dir), j # 0, ~Astray(entries[d], n), After(d, n, dir, old) \subseteq After(d, n, dir, {})
  PROVE  After(d, n, dir, old) = PlacesOf(d, j)
<1> DEFINE s == entries[d]
           reset == LastBefore(s, j, {"sfn", "deleted", "label"})
           K == {k \in reset + 1 .. j - 1 : s[k].kind = "lfn"}
<1>1. j \in Sfns(s) /\ j = Match(s, n) /\ s[j].dir = dir
  BY FillsIs
<1>2. K = {i \in DOMAIN s : InBlock(s, i, j)}
  BY <1>1, BlockPlaces
<1>7. Found(s, n) = j
  BY <1>1 DEF Astray
<1>3. \A o : After(d, n, dir, o) = ((IF reset = 0 THEN o ELSE {}) \cup {<<d, i>> : i \in K}) \cup {<<d, j>>}
  BY <1>1, <1>7 DEF After, Remembered
<1> HIDE DEF reset, K, s
<1>4. After(d, n, dir, {}) = {<<d, i>> : i \in K} \cup {<<d, j>>}
  BY <1>3
<1>5. After(d, n, dir, {}) \subseteq After(d, n, dir, old)
  BY <1>3, <1>4
<1>6. {<<d, i>> : i \in K} \cup {<<d, j>>} = {<<d, i>> : i \in K \cup {j}}
  OBVIOUS
<1> QED BY <1>2, <1>4, <1>5, <1>6 DEF EntriesOf, PlacesOf, s

\* Erasing these leaves the other directories as they are.
LEMMA ErasedIs ==
  ASSUME NEW d, DirSound(entries[d]), NEW j
  PROVE  /\ Erased(PlacesOf(d, j), d) = Without(entries[d], j)
         /\ \A c : c # d /\ DirSound(entries[c]) => Erased(PlacesOf(d, j), c) = entries[c]
<1>1. \A c, i : <<c, i>> \in PlacesOf(d, j) <=> c = d /\ i \in EntriesOf(entries[d], j)
  BY DEF PlacesOf
<1>2. Erased(PlacesOf(d, j), d) = Without(entries[d], j)
  BY <1>1 DEF Erased, Without
<1>3. ASSUME NEW c, c # d, DirSound(entries[c]) PROVE Erased(PlacesOf(d, j), c) = entries[c]
  <2>1. entries[c] = [i \in DOMAIN entries[c] |-> entries[c][i]]
    BY <1>3 DEF DirSound
  <2> QED BY <2>1, <1>1, <1>3 DEF Erased
<1> QED BY <1>2, <1>3

\* What fs_remove does: one directory is without a file, which is not open.
LEMMA RemoveFileIs ==
  ASSUME DirsSound(entries), NEW p \in FilePath, RemoveFile(p), ~slip'
  PROVE  \E d \in DOMAIN entries : d = DirOf(p) /\ d # None /\ \E j \in Sfns(entries[d]) :
           /\ entries[d][j].dir = FALSE /\ entries' = [entries EXCEPT ![d] = Without(entries[d], j)]
           /\ (\A h \in Opened : handle[h].at # <<d, j>>) /\ handle' = handle /\ Forget(d, j)
<1> DEFINE d == DirOf(p)
           n == p[Len(p)]
           j == Fills(d, n, FALSE)
           s == entries[d]
           places == After(d, n, FALSE, de)
           t == Without(s, j)
<1>1. d # None /\ j # 0 /\ handle' = handle /\ Forget(d, j) /\ Clear(d, n, FALSE, de)
      /\ slip' = WrongPlaces(d, n, FALSE, de)
  BY DEF RemoveFile
<1>2. DirsSound(entries) /\ Domains(entries) /\ \A c \in DOMAIN entries : DirSound(entries[c])
  BY DEF DirsSound
<1>3. ~WrongPlaces(d, n, FALSE, de)
  <2> HIDE DEF d, n
  <2> QED BY <1>1
<1>12. ~Astray(s, n)
  BY <1>3 DEF WrongPlaces
<1>4. d \in DOMAIN entries /\ n \in Name /\ DirSound(s) /\ j \in Sfns(s) /\ s[j].dir = FALSE
  BY <1>1, <1>2, <1>12, DirOfIs, Target
<1>5. places \subseteq After(d, n, FALSE, {}) /\ \A h \in Opened : handle[h].at # <<d, j>>
  BY <1>3 DEF WrongPlaces
<1>6. entries' = [c \in DOMAIN entries |-> Erased(places, c)]
  <2>1. entries' = [c \in DOMAIN entries \ {} |-> Erased(places, c)]
    BY <1>1 DEF Clear
  <2> HIDE DEF places
  <2> QED BY <2>1
<1>7. places = PlacesOf(d, j)
  <2>1. PICK dir \in BOOLEAN : dir = FALSE
    OBVIOUS
  <2>2. j = Fills(d, n, dir) /\ After(d, n, dir, de) \subseteq After(d, n, dir, {})
    BY <2>1, <1>5, Zenon
  <2> HIDE DEF j, d, n
  <2>3. After(d, n, dir, de) = PlacesOf(d, j)
    BY <2>2, <1>1, <1>4, <1>12, AfterIs
  <2> QED BY <2>1, <2>3, Zenon
<1>11. d = DirOf(p)
  OBVIOUS
<1> HIDE DEF d, n, j, places
<1>8. Erased(places, d) = t /\ \A c : c # d /\ DirSound(entries[c]) => Erased(places, c) = entries[c]
  BY <1>4, <1>7, ErasedIs
<1> HIDE DEF t
<1>9. DOMAIN entries' = DOMAIN entries /\ entries'[d] = t /\ \A c \in DOMAIN entries : c # d => entries'[c] = entries[c]
  BY <1>2, <1>4, <1>6, <1>8
<1>10. entries' = [entries EXCEPT ![d] = t]
  <2>1. entries' = [c \in DOMAIN entries |-> entries'[c]]
    BY <1>6
  <2> QED BY <2>1, <1>9
<1> QED BY <1>1, <1>4, <1>5, <1>10, <1>11 DEF t

\* fs_remove.
LEMMA RemoveFileStep ==
  ASSUME Sound(entries, handle, list), NEW p \in FilePath, RemoveFile(p), ~slip'
  PROVE  Sound(entries', handle', list')
<1>1. DirsSound(entries) /\ HandlesSound(entries, handle) /\ ListSound(entries, list) /\ Domains(entries)
      /\ \A c \in DOMAIN entries : DirSound(entries[c])
  BY DEF Sound, DirsSound
<1>2. PICK d \in DOMAIN entries : \E j \in Sfns(entries[d]) :
        /\ entries[d][j].dir = FALSE /\ entries' = [entries EXCEPT ![d] = Without(entries[d], j)]
        /\ (\A h \in Opened : handle[h].at # <<d, j>>) /\ handle' = handle /\ Forget(d, j)
  BY <1>1, RemoveFileIs
<1>3. PICK j \in Sfns(entries[d]) :
        /\ entries[d][j].dir = FALSE /\ entries' = [entries EXCEPT ![d] = Without(entries[d], j)]
        /\ (\A h \in Opened : handle[h].at # <<d, j>>) /\ handle' = handle /\ Forget(d, j)
  BY <1>2
<1> DEFINE s == entries[d]
           t == Without(s, j)
<1>4. entries' = [entries EXCEPT ![d] = t]
  BY <1>3
<1>5. DirSound(t) /\ Sfns(t) = Sfns(s) \ {j} /\ \A i \in Sfns(t) : SameFor(s, t, i)
  BY <1>1, EraseIs
<1> HIDE DEF t
<1>6. DOMAIN entries' = DOMAIN entries /\ entries'[d] = t /\ \A c \in DOMAIN entries : c # d => entries'[c] = entries[c]
  BY <1>1, <1>4 DEF Domains
<1>7. DirsSound(entries')
  <2>1. Evolves(s, t)
    BY <1>3, <1>5 DEF Evolves
  <2> QED BY <2>1, <1>1, <1>2, <1>4, ReplaceIs
<1>8. HandlesSound(entries', handle')
  <2>1. ASSUME NEW h \in Handle, handle[h] # None
        PROVE  /\ handle[h].at[1] \in DOMAIN entries' /\ handle[h].at[2] \in Sfns(entries'[handle[h].at[1]])
               /\ entries'[handle[h].at[1]][handle[h].at[2]].dir = entries[handle[h].at[1]][handle[h].at[2]].dir
    <3>1. PICK c, i : handle[h].at = <<c, i>> /\ c \in DOMAIN entries /\ i \in Sfns(entries[c])
      BY <2>1, <1>1 DEF HandlesSound, HandleSound
    <3>2. <<c, i>> # <<d, j>>
      BY <2>1, <3>1, <1>3 DEF Opened
    <3>3. c \in DOMAIN entries' /\ i \in Sfns(entries'[c]) /\ entries'[c][i].dir = entries[c][i].dir
      <4>1. CASE c = d
        <5>1. i \in Sfns(t) /\ SameFor(s, t, i)
          BY <3>1, <3>2, <4>1, <1>5 DEF s
        <5> QED BY <5>1, <4>1, <3>1, <1>6 DEF SameFor, s
      <4>2. CASE c # d
        BY <4>2, <3>1, <1>6
      <4> QED BY <4>1, <4>2
    <3> QED BY <3>1, <3>3
  <2>2. \A h \in Handle : EntryStays(entries, entries', handle, h)
    BY <2>1 DEF EntryStays
  <2> QED BY <2>2, <1>3, <1>1, HandlesFollow
<1>9. ListSound(entries', list')
  <2>1. CASE list = None
    <3>1. list' = None
      BY <2>1, <1>3 DEF Forget
    <3> QED BY <3>1 DEF ListSound, ListOpen
  <2>2. CASE list # None /\ list.dir # d
    <3>1. list' = list /\ list.dir \in DOMAIN entries
      BY <2>2, <1>3, <1>1 DEF Forget, ListSound, ListOpen, ListFields
    <3>2. entries'[list.dir] = entries[list.dir] /\ list.dir \in DOMAIN entries'
      BY <2>2, <3>1, <1>6
    <3>3. GoesOn(entries[list.dir], entries'[list.dir], {}, list.stay)
      BY <3>2 DEF GoesOn, SameFor
    <3> QED BY <3>1, <3>2, <3>3, <1>1, ListKept
  <2>3. CASE list # None /\ list.dir = d
    <3> DEFINE X == {NameOf(s, j)}
    <3>1. list = [dir |-> list.dir, index |-> list.index, next |-> list.next, stay |-> list.stay, seen |-> list.seen]
      BY <2>3, <1>1 DEF ListSound, ListOpen, ListFields
    <3>2. list' = [list EXCEPT !.stay = @ \ X, !.seen = @ \ X]
      BY <2>3, <1>3 DEF Forget
    <3> HIDE DEF X
    <3>3. list' = [dir |-> list.dir, index |-> list.index, next |-> list.next,
                   stay |-> list.stay \ X, seen |-> list.seen \ X]
      BY <3>1, <3>2
    <3>4. GoesOn(s, t, X, list.stay)
      <4>1. \A i \in Sfns(s) : NameOf(s, i) \notin X => i \in Sfns(t)
        BY <1>5 DEF X
      <4> QED BY <4>1, <1>5 DEF GoesOn
    <3>5. list.dir \in DOMAIN entries' /\ GoesOn(entries[list.dir], entries'[list.dir], X, list.stay)
      BY <2>3, <3>4, <1>2, <1>6
    <3> QED BY <2>3, <3>3, <3>5, <1>1, ListFollows
  <2> QED BY <2>1, <2>2, <2>3
<1> QED BY <1>7, <1>8, <1>9 DEF Sound

\* A directory with a file, beside its first two entries, has more than two.
LEMMA ThreeFiles ==
  ASSUME NEW S, IsFiniteSet(S), {1, 2} \subseteq S, NEW k \in S, k \notin {1, 2}
  PROVE  Cardinality(S) > 2
<1>1. IsFiniteSet({1}) /\ Cardinality({1}) = 1
  BY FS_Singleton
<1>2. IsFiniteSet({1} \cup {2}) /\ Cardinality({1} \cup {2}) = 2
  <2>1. 2 \notin {1}
    OBVIOUS
  <2> QED BY <1>1, <2>1, FS_AddElement
<1>3. IsFiniteSet(({1} \cup {2}) \cup {k}) /\ Cardinality(({1} \cup {2}) \cup {k}) = 3
  <2>1. k \notin {1} \cup {2}
    BY <1>2
  <2> QED BY <1>2, <2>1, FS_AddElement
<1> DEFINE T == ({1} \cup {2}) \cup {k}
<1>4. T \in SUBSET S
  OBVIOUS
<1> HIDE DEF T
<1>5. Cardinality(T) <= Cardinality(S) /\ Cardinality(S) \in Nat
  BY <1>4, FS_Subset, FS_CardinalityType
<1> QED BY <1>3, <1>5 DEF T

\* What fs_rmdir does, if it does anything: the root directory is without a directory that held no file.
LEMMA RemoveDirIs ==
  ASSUME DirsSound(entries), NEW p \in DirPath, RemoveDir(p), ~slip, ~slip'
  PROVE  /\ handle' = handle /\ list' = list
         /\ \/ entries' = entries
            \/ \E j \in Sfns(entries[Root]) :
                 /\ entries[Root][j].dir = TRUE /\ Sfns(entries[entries[Root][j].head]) = {1, 2}
                 /\ \A h \in Opened : handle[h].at # <<Root, j>>
                 /\ entries' = [c \in DOMAIN entries \ {entries[Root][j].head} |->
                                  IF c = Root THEN Without(entries[Root], j) ELSE entries[c]]
<1> DEFINE d == DirOf(p)
           n == p[Len(p)]
           j == Fills(d, n, TRUE)
           s == entries[d]
           sub == s[j].head
           rest == Remembered(sub, Count(entries[sub]) + 1, After(d, n, TRUE, de))
           places == After(d, n, TRUE, rest)
           t == Without(s, j)
<1>1. d # None /\ j # 0 /\ handle' = handle /\ list' = list
  BY DEF RemoveDir
<1>2. \/ entries' = entries
      \/ /\ Clear(d, n, TRUE, rest)
         /\ slip' = (WrongPlaces(d, n, TRUE, rest) \/ Cardinality(Files(entries[sub])) > 2)
  BY DEF RemoveDir
<1>3. Domains(entries) /\ HeadsSound(entries) /\ \A c \in DOMAIN entries : DirSound(entries[c])
  BY DEF DirsSound
<1>6. CASE entries' = entries
  BY <1>6, <1>1
<1>7. CASE /\ Clear(d, n, TRUE, rest)
           /\ slip' = (WrongPlaces(d, n, TRUE, rest) \/ Cardinality(Files(entries[sub])) > 2)
  <2>1. ~WrongPlaces(d, n, TRUE, rest) /\ ~(Cardinality(Files(entries[sub])) > 2)
    <3> HIDE DEF d, n, rest, sub
    <3> QED BY <1>7
  <2>11. ~Astray(s, n)
    BY <2>1 DEF WrongPlaces
  <2>12. d = Root /\ d \in DOMAIN entries /\ n \in Name /\ DirSound(s) /\ j \in Sfns(s) /\ s[j].dir = TRUE
    BY <1>1, <1>3, <2>11, DirOfIs, Target
  <2>13. sub \in DOMAIN entries \ {Root}
    BY <1>3, <2>12 DEF HeadsSound
  <2>2. places \subseteq After(d, n, TRUE, {}) /\ \A h \in Opened : handle[h].at # <<d, j>>
    BY <2>1 DEF WrongPlaces
  <2>3. entries' = [c \in DOMAIN entries \ {sub} |-> Erased(places, c)]
    BY <1>7, Zenon DEF Clear
  <2> HIDE DEF rest
  <2>4. places = PlacesOf(d, j)
    <3>1. PICK dir \in BOOLEAN : dir = TRUE
      OBVIOUS
    <3>2. j = Fills(d, n, dir) /\ After(d, n, dir, rest) \subseteq After(d, n, dir, {})
      BY <3>1, <2>2, Zenon
    <3> HIDE DEF j, d, n
    <3>3. After(d, n, dir, rest) = PlacesOf(d, j)
      BY <3>2, <1>1, <2>11, <2>12, AfterIs
    <3> QED BY <3>1, <3>3, Zenon
  <2> HIDE DEF d, n, j, places, sub
  <2>5. Erased(places, d) = t /\ \A c : c # d /\ DirSound(entries[c]) => Erased(places, c) = entries[c]
    BY <2>12, <2>4, ErasedIs
  <2>6. entries' = [c \in DOMAIN entries \ {sub} |-> IF c = Root THEN t ELSE entries[c]]
    BY <1>3, <2>12, <2>3, <2>5
  <2>7. Sfns(entries[sub]) = {1, 2}
    <3>1. {1, 2} \subseteq Sfns(entries[sub])
      BY <1>3, <2>13 DEF HeadsSound
    <3>2. ASSUME NEW i \in Sfns(entries[sub]), i \notin {1, 2} PROVE FALSE
      <4>1. Files(entries[sub]) = Sfns(entries[sub])
        BY <1>3, <2>13, DirScans
      <4>2. IsFiniteSet(Sfns(entries[sub]))
        <5>1. DOMAIN entries[sub] = 1 .. Len(entries[sub]) /\ Len(entries[sub]) \in Nat
          BY <1>3, <2>13, DirScans
        <5>2. IsFiniteSet(1 .. Len(entries[sub])) /\ Sfns(entries[sub]) \in SUBSET (1 .. Len(entries[sub]))
          <6>1. 1 \in Int /\ Len(entries[sub]) \in Int
            BY <5>1
          <6> QED BY <5>1, <6>1, FS_Interval DEF Sfns
        <5> QED BY <5>2, FS_Subset
      <4> QED BY <2>1, <3>1, <3>2, <4>1, <4>2, ThreeFiles
    <3> QED BY <3>1, <3>2
  <2>8. s = entries[Root] /\ sub = entries[Root][j].head /\ t = Without(entries[Root], j)
    BY <2>12 DEF sub, t
  <2>9. \A h \in Opened : handle[h].at # <<Root, j>>
    BY <2>2, <2>12
  <2>10. \E i \in Sfns(entries[Root]) :
           /\ entries[Root][i].dir = TRUE /\ Sfns(entries[entries[Root][i].head]) = {1, 2}
           /\ \A h \in Opened : handle[h].at # <<Root, i>>
           /\ entries' = [c \in DOMAIN entries \ {entries[Root][i].head} |->
                            IF c = Root THEN Without(entries[Root], i) ELSE entries[c]]
    <3> HIDE DEF s, t
    <3>1. entries' = [c \in DOMAIN entries \ {entries[Root][j].head} |->
                        IF c = Root THEN Without(entries[Root], j) ELSE entries[c]]
      BY <2>6, <2>8
    <3> QED BY <3>1, <2>7, <2>8, <2>9, <2>12
  <2> QED BY <2>10, <1>1
<1> QED BY <1>2, <1>6, <1>7

\* fs_rmdir of a directory with no file of its own in it.
LEMMA RemoveDirStep ==
  ASSUME Sound(entries, handle, list), list = None, NEW p \in DirPath, RemoveDir(p), ~slip, ~slip'
  PROVE  Sound(entries', handle', list')
<1>1. DirsSound(entries) /\ HandlesSound(entries, handle) /\ Domains(entries) /\ HeadsSound(entries)
      /\ \A c \in DOMAIN entries : DirSound(entries[c])
  BY DEF Sound, DirsSound
<1>2. handle' = handle /\ list' = list
  BY <1>1, RemoveDirIs
<1>3. CASE entries' = entries
  BY <1>2, <1>3
<1>4. SUFFICES ASSUME entries' # entries PROVE Sound(entries', handle', list')
  BY <1>3
<1>5. PICK j \in Sfns(entries[Root]) :
        /\ entries[Root][j].dir = TRUE /\ Sfns(entries[entries[Root][j].head]) = {1, 2}
        /\ \A h \in Opened : handle[h].at # <<Root, j>>
        /\ entries' = [c \in DOMAIN entries \ {entries[Root][j].head} |->
                         IF c = Root THEN Without(entries[Root], j) ELSE entries[c]]
  BY <1>1, <1>4, RemoveDirIs
<1> DEFINE s == entries[Root]
           sub == s[j].head
           t == Without(s, j)
<1>6. Root \in DOMAIN entries /\ sub \in DOMAIN entries \ {Root} /\ DirSound(s)
  BY <1>1, <1>5 DEF HeadsSound, Domains
<1>7. DirSound(t) /\ Sfns(t) = Sfns(s) \ {j} /\ \A i \in Sfns(t) : SameFor(s, t, i)
  BY <1>5, <1>6, EraseIs
<1>8. entries' = [c \in DOMAIN entries \ {sub} |-> IF c = Root THEN t ELSE entries[c]]
  BY <1>5
<1>9. s = entries[Root] /\ sub = s[j].head /\ Sfns(entries[sub]) = {1, 2}
  BY <1>5
<1> HIDE DEF s, sub, t
<1>10. /\ DOMAIN entries' = DOMAIN entries \ {sub} /\ entries'[Root] = t
       /\ \A c \in DOMAIN entries \ {sub, Root} : entries'[c] = entries[c]
       /\ entries' = [c \in DOMAIN entries' |-> entries'[c]]
  BY <1>6, <1>8
<1>11. \A i \in Sfns(t) : i \in Sfns(s) /\ i # j /\ t[i].dir = s[i].dir /\ t[i].head = s[i].head
  BY <1>7 DEF SameFor
<1>12. DirsSound(entries')
  <2>1. Domains(entries')
    BY <1>1, <1>6, <1>10 DEF Domains
  <2>2. \A i \in Sfns(entries'[Root]) : entries'[Root][i].dir => entries'[Root][i].head \in DOMAIN entries' \ {Root}
    <3>1. \A i \in Sfns(s) : s[i].dir => s[i].head \in DOMAIN entries \ {Root}
      BY <1>1, <1>6, <1>9 DEF HeadsSound
    <3>2. \A i \in Sfns(s) : s[i].dir /\ s[i].head = sub => i = j
      BY <1>1, <1>5, <1>6, <1>9 DEF HeadsSound
    <3> QED BY <3>1, <3>2, <1>10, <1>11
  <2>3. \A i, k \in Sfns(entries'[Root]) :
          entries'[Root][i].dir /\ entries'[Root][k].dir /\ entries'[Root][i].head = entries'[Root][k].head => i = k
    <3>1. \A i, k \in Sfns(s) : s[i].dir /\ s[k].dir /\ s[i].head = s[k].head => i = k
      BY <1>1, <1>6, <1>9 DEF HeadsSound
    <3> QED BY <3>1, <1>10, <1>11
  <2>4. ASSUME NEW x \in DOMAIN entries' \ {Root}
        PROVE {1, 2} \subseteq Sfns(entries'[x]) /\ \A i \in Sfns(entries'[x]) : entries'[x][i].dir <=> i \in {1, 2}
    <3>1. entries'[x] = entries[x] /\ x \in DOMAIN entries \ {Root}
      BY <1>10
    <3>2. {1, 2} \subseteq Sfns(entries[x]) /\ \A i \in Sfns(entries[x]) : entries[x][i].dir <=> i \in {1, 2}
      BY <3>1, <1>1 DEF HeadsSound
    <3> QED BY <3>1, <3>2
  <2>5. HeadsSound(entries')
    BY <2>2, <2>3, <2>4, Zenon DEF HeadsSound
  <2>6. \A x \in DOMAIN entries' : DirSound(entries'[x])
    BY <1>1, <1>7, <1>10
  <2> QED BY <2>1, <2>5, <2>6 DEF DirsSound
<1>13. HandlesSound(entries', handle')
  <2>1. ASSUME NEW h \in Handle, handle[h] # None
        PROVE  /\ handle[h].at[1] \in DOMAIN entries' /\ handle[h].at[2] \in Sfns(entries'[handle[h].at[1]])
               /\ entries'[handle[h].at[1]][handle[h].at[2]].dir = entries[handle[h].at[1]][handle[h].at[2]].dir
    <3>1. PICK c, i : handle[h].at = <<c, i>> /\ c \in DOMAIN entries /\ i \in Sfns(entries[c]) /\ ~entries[c][i].dir
      BY <2>1, <1>1 DEF HandlesSound, HandleSound
    <3>2. c # sub
      <4>1. SUFFICES ASSUME c = sub PROVE FALSE
        OBVIOUS
      <4>2. {1, 2} \subseteq Sfns(entries[sub]) /\ \A k \in Sfns(entries[sub]) : entries[sub][k].dir <=> k \in {1, 2}
        BY <1>1, <1>6 DEF HeadsSound
      <4> QED BY <4>1, <4>2, <3>1, <1>9
    <3>3. c \in DOMAIN entries' /\ i \in Sfns(entries'[c]) /\ entries'[c][i].dir = entries[c][i].dir
      <4>1. CASE c = Root
        <5>1. i # j /\ i \in Sfns(s)
          BY <4>1, <3>1, <1>5, <1>6, <1>9
        <5> QED BY <4>1, <5>1, <1>6, <1>7, <1>9, <1>10, <1>11
      <4>2. CASE c # Root
        BY <4>2, <3>1, <3>2, <1>10
      <4> QED BY <4>1, <4>2
    <3> QED BY <3>1, <3>3
  <2>2. \A h \in Handle : EntryStays(entries, entries', handle, h)
    BY <2>1 DEF EntryStays
  <2> QED BY <2>2, <1>2, <1>1, HandlesFollow
<1> QED BY <1>12, <1>13, <1>2 DEF Sound, ListSound, ListOpen

-----------------------------------------------------------------------------
(* Listing *)

\* fat_getNextDirentry finds the first file or label.
LEMMA NextAfterIs ==
  ASSUME NEW s, DirSound(s), NEW index \in Nat, NEW a, a = NextAfter(s, index)
  PROVE  /\ a \in Nat
         /\ a = 0 => \A i \in DOMAIN s : i > index => s[i].kind \notin {"sfn", "label"}
         /\ a # 0 => /\ a \in DOMAIN s /\ a > index /\ s[a].kind \in {"sfn", "label"}
                     /\ \A i \in DOMAIN s : i > index /\ i < a => s[i].kind \notin {"sfn", "label"}
<1> DEFINE J == {j \in 1 .. Count(s) : j > index /\ s[j].kind \in {"sfn", "label"}}
<1>1. Count(s) \in 1 .. Len(s) /\ Len(s) \in Nat /\ DOMAIN s = 1 .. Len(s)
      /\ \A i \in DOMAIN s : i > Count(s) => s[i].kind \notin {"sfn", "label"}
  BY DirScans, Kinds
<1>2. a = IF J = {} THEN 0 ELSE Least(J)
  BY DEF NextAfter
<1>3. \A i \in DOMAIN s : i > index /\ s[i].kind \in {"sfn", "label"} => i \in J
  BY <1>1
<1>4. J \in SUBSET Nat /\ \A j \in J : j \in DOMAIN s /\ j > index /\ s[j].kind \in {"sfn", "label"} /\ j \in Nat
  BY <1>1
<1>5. 0 \notin J
  OBVIOUS
<1> HIDE DEF J
<1>6. CASE J = {}
  BY <1>2, <1>3, <1>6
<1>7. CASE J # {}
  <2>1. a \in J /\ \A y \in J : a <= y
    <3>1. J \in SUBSET Nat
      BY <1>4
    <3>2. Least(J) \in J /\ \A y \in J : Least(J) <= y
      BY <3>1, <1>7, LeastIs
    <3> QED BY <3>2, <1>2, <1>7
  <2>2. a \in Nat /\ a # 0 /\ a \in DOMAIN s /\ a > index /\ s[a].kind \in {"sfn", "label"}
    BY <2>1, <1>4, <1>5
  <2>3. ASSUME NEW i \in DOMAIN s, i > index, i < a PROVE s[i].kind \notin {"sfn", "label"}
    <3>1. SUFFICES ASSUME s[i].kind \in {"sfn", "label"} PROVE FALSE
      OBVIOUS
    <3>2. a <= i /\ i \in Nat
      BY <3>1, <2>1, <2>3, <1>3, <1>4
    <3> QED BY <3>2, <2>2, <2>3
  <2> QED BY <2>2, <2>3
<1> QED BY <1>6, <1>7

\* Reading ahead finds the next file, or the label.
LEMMA ReadAheadIs ==
  ASSUME NEW l, ListFields(entries, l), NEW s, s = entries[l.dir], DirSound(s), ListReady(s, l),
         NEW l2, l2 = ReadAhead(l)
  PROVE  ListOpen(entries, l2)
<1> DEFINE index == l.index
           j == NextAfter(s, index)
<1>1. /\ l.dir \in DOMAIN entries /\ index \in Nat /\ l.stay \subseteq AnyName
      /\ l = [dir |-> l.dir, index |-> l.index, next |-> l.next, stay |-> l.stay, seen |-> l.seen]
  BY DEF ListFields
<1>2. /\ j \in Nat
      /\ j = 0 => \A i \in DOMAIN s : i > index => s[i].kind \notin {"sfn", "label"}
      /\ j # 0 => /\ j \in DOMAIN s /\ j > index /\ s[j].kind \in {"sfn", "label"}
                  /\ \A i \in DOMAIN s : i > index /\ i < j => s[i].kind \notin {"sfn", "label"}
  BY <1>1, NextAfterIs
<1> DEFINE place == IF j = 0 THEN Count(s) ELSE j
           next == IF j = 0 THEN None ELSE IF s[j].kind = "label" THEN s[j] ELSE NameFrom(s, index, j)
<1>3. l2 = [l EXCEPT !.index = place, !.next = next]
  BY DEF ReadAhead
<1>4. place \in Nat
  BY <1>2, DirScans
<1> HIDE DEF place, next, j
<1>5. l2 = [dir |-> l.dir, index |-> place, next |-> next, stay |-> l.stay, seen |-> l.seen]
  BY <1>1, <1>3
<1>6. l2.dir = l.dir /\ l2.index = place /\ l2.next = next /\ l2.stay = l.stay /\ l2.seen = l.seen
  BY <1>5
<1>7. ListFields(entries, l2)
  BY <1>1, <1>4, <1>5, <1>6 DEF ListFields
<1>8. /\ l.seen \subseteq l.stay
      /\ \A x \in l.stay : \E k \in Sfns(s) : NameOf(s, k) = x
      /\ \A k \in Staying(s, l.stay) : k > index => ~InBlock(s, index, k)
      /\ \A k \in Staying(s, l.stay) : NameOf(s, k) \in l.seen <=> k <= index
  BY DEF ListReady, ListBase
<1>9. \A k \in Sfns(s) : k \in Nat
  BY At DEF Sfns
<1>10. CASE j = 0
  <2>1. next = None
    BY <1>10 DEF next
  <2>2. ASSUME NEW x \in l.stay PROVE x \in l.seen
    <3>1. PICK k \in Sfns(s) : NameOf(s, k) = x
      BY <1>8
    <3>2. k <= index
      BY <1>1, <1>2, <1>9, <1>10 DEF Sfns
    <3> QED BY <3>1, <3>2, <1>8 DEF Staying
  <2>3. l.seen = l.stay
    BY <2>2, <1>8
  <2> QED BY <2>1, <2>3, <1>6, <1>7 DEF ListOpen
<1>12. CASE j # 0 /\ s[j].kind = "label"
  <2>1. place = j /\ next = s[j] /\ j \in DOMAIN s /\ j > index /\ \A i \in Sfns(s) : ~(i > index /\ i < j)
    BY <1>2, <1>12 DEF place, next, Sfns
  <2>2. next \in Labels
    BY <2>1, <1>12, At, EntryIs
  <2>3. next # None /\ next \notin AnyName
    BY <2>2, MountAssumption DEF AnyName
  <2>4. next \notin l.stay
    BY <2>3, <1>1
  <2>5. \A k \in Staying(s, l.stay) : k > j => ~InBlock(s, j, k)
    BY <1>12 DEF InBlock
  <2>6. ListBase(s, l2)
    BY <2>1, <2>5, <1>6, <1>8 DEF ListBase
  <2>7. ASSUME NEW k \in Staying(s, l.stay) PROVE k # j /\ (NameOf(s, k) \in l.seen <=> k < j)
    <3>1. k \in Sfns(s) /\ k \in Nat
      BY <1>9 DEF Staying
    <3>2. k # j
      BY <3>1, <1>12 DEF Sfns
    <3>3. k <= index <=> k < j
      BY <3>1, <3>2, <2>1, <1>1, <1>2
    <3> QED BY <3>2, <3>3, <1>8
  <2>8. ListGoes(s, l2)
    BY <2>1, <2>4, <2>6, <2>7, <1>6 DEF ListGoes
  <2> QED BY <2>3, <2>8, <1>6, <1>7 DEF ListOpen
<1>11. CASE j # 0 /\ s[j].kind # "label"
  <2>1. place = j /\ next = NameFrom(s, index, j) /\ j \in Sfns(s) /\ j > index
        /\ \A i \in Sfns(s) : ~(i > index /\ i < j)
    BY <1>2, <1>11 DEF place, next, Sfns
  <2>2. j \in DOMAIN s /\ s[j].kind = "sfn" /\ DOMAIN s = 1 .. Len(s) /\ Len(s) \in Nat
    BY <2>1, DirScans DEF Sfns
  <2>3. index \in 0 .. j - 1 /\ \A k \in index + 1 .. j - 1 : s[k].kind # "sfn"
    BY <1>1, <1>2, <2>1, <2>2 DEF Sfns
  <2>4. next = IF InBlock(s, index, j) THEN s[j].short ELSE LongName(s, j)
    BY <2>1, <2>3, NameFromIs
  <2>5. NameOf(s, j) = LongName(s, j) /\ NameOf(s, j) \in AnyName /\ Named(s, j, NameOf(s, j))
    BY <2>1, NameOfIs
  <2>6. s[j].short \in AnyName /\ Named(s, j, s[j].short)
    BY <2>2, At, EntryIs DEF Named
  <2>7. next \in AnyName /\ Named(s, j, next)
    BY <2>4, <2>5, <2>6
  <2>8. next # None
    BY <2>7, MountAssumption DEF AnyName
  <2>9. \A k \in Staying(s, l.stay) : k > j => ~InBlock(s, j, k)
    BY <2>2 DEF InBlock
  <2>10. ListBase(s, l2)
    BY <2>1, <2>9, <1>6, <1>8 DEF ListBase
  <2>11. \A k \in Staying(s, l.stay) : NameOf(s, k) \in l.seen <=> k < j
    <3>1. ASSUME NEW k \in Staying(s, l.stay) PROVE k <= index <=> k < j
      <4>1. k \in Sfns(s) /\ k \in Nat
        BY <1>9 DEF Staying
      <4> QED BY <4>1, <2>1, <1>1, <1>2
    <3> QED BY <3>1, <1>8
  <2>12. \A k \in Staying(s, l.stay) : k = j => next = NameOf(s, k)
    BY <2>1, <2>4, <2>5, <1>8
  <2>13. next \in l.stay => NameOf(s, j) = next
    <3>1. SUFFICES ASSUME next \in l.stay PROVE NameOf(s, j) = next
      OBVIOUS
    <3>2. PICK k \in Sfns(s) : NameOf(s, k) = next
      BY <3>1, <1>8
    <3>3. Named(s, k, next)
      BY <3>2, NameOfIs
    <3>4. k = j
      BY <3>3, <2>1, <2>7 DEF DirSound, Apart
    <3> QED BY <3>2, <3>4
  <2>14. ListGoes(s, l2)
    BY <2>1, <2>10, <2>11, <2>12, <2>13, <1>6 DEF ListGoes
  <2> QED BY <2>8, <2>14, <1>6, <1>7 DEF ListOpen
<1> QED BY <1>10, <1>11, <1>12

\* fs_dopen.
LEMMA OpenListStep ==
  ASSUME Sound(entries, handle, list), NEW d \in DOMAIN entries, OpenList(d)
  PROVE  Sound(entries', handle', list')
<1> DEFINE s == entries[d]
           stay == {NameOf(s, j) : j \in Files(s)}
           l == [dir |-> d, index |-> 0, next |-> None, stay |-> stay, seen |-> {}]
<1>1. entries' = entries /\ handle' = handle /\ list' = ReadAhead(l)
  BY DEF OpenList
<1>2. DirSound(s) /\ Files(s) = Sfns(s)
  BY DirScans DEF Sound, DirsSound
<1>3. \A j \in Sfns(s) : NameOf(s, j) \in stay /\ NameOf(s, j) \in AnyName
  BY <1>2, NameOfIs
<1>4. stay \subseteq AnyName /\ \A x \in stay : \E j \in Sfns(s) : NameOf(s, j) = x
  BY <1>2, <1>3
<1> HIDE DEF stay
<1>5. l.dir = d /\ l.index = 0 /\ l.stay = stay /\ l.seen = {} /\ l.next = None
  OBVIOUS
<1>6. l = [dir |-> l.dir, index |-> l.index, next |-> l.next, stay |-> l.stay, seen |-> l.seen]
  OBVIOUS
<1> HIDE DEF l
<1>7. ListFields(entries, l)
  BY <1>4, <1>5, <1>6 DEF ListFields
<1>8. \A j \in Sfns(s) : j \in Nat /\ j >= 1 /\ ~InBlock(s, 0, j)
  <2>1. 0 \notin DOMAIN s
    BY <1>2, DirScans
  <2> QED BY <2>1, <1>2, At DEF Sfns, InBlock
<1>9. ListReady(s, l)
  <2>1. ListBase(s, l)
    BY <1>4, <1>5, <1>8 DEF ListBase, Staying
  <2>2. \A j \in Staying(s, l.stay) : NameOf(s, j) \in l.seen <=> j <= l.index
    BY <1>5, <1>8 DEF Staying
  <2> QED BY <2>1, <2>2 DEF ListReady
<1>10. list' = ReadAhead(l) /\ s = entries[l.dir]
  BY <1>1, <1>5
<1> HIDE DEF s
<1>11. ListSound(entries, list')
  BY <1>2, <1>7, <1>9, <1>10, ReadAheadIs DEF ListSound
<1> QED BY <1>1, <1>11 DEF Sound

\* Giving what was read, and reading ahead.
LEMMA GivenIs ==
  ASSUME DirsSound(entries), NEW l0, ListOpen(entries, l0)
  PROVE  ListOpen(entries, Given(l0))
<1> DEFINE s == entries[l0.dir]
           got == l0.seen \cup ({l0.next} \cap l0.stay)
           l == [l0 EXCEPT !.seen = got]
<1> SUFFICES ASSUME l0.next # None PROVE ListOpen(entries, Given(l0))
  BY DEF Given
<1>1. Given(l0) = ReadAhead(l)
  BY DEF Given
<1>2. ListFields(entries, l0) /\ ListGoes(s, l0)
  BY DEF ListOpen
<1>3. DirSound(s)
  BY <1>2 DEF DirsSound, ListFields
<1>4. /\ l0.dir \in DOMAIN entries /\ l0.index \in Nat /\ l0.stay \subseteq AnyName
      /\ l0 = [dir |-> l0.dir, index |-> l0.index, next |-> l0.next, stay |-> l0.stay, seen |-> l0.seen]
  BY <1>2 DEF ListFields
<1> HIDE DEF s
<1>5. /\ l0.seen \subseteq l0.stay
      /\ \A x \in l0.stay : \E k \in Sfns(s) : NameOf(s, k) = x
      /\ \A k \in Staying(s, l0.stay) : k > l0.index => ~InBlock(s, l0.index, k)
      /\ \A k \in Staying(s, l0.stay) : NameOf(s, k) \in l0.seen <=> k < l0.index
      /\ \A k \in Staying(s, l0.stay) : k = l0.index => l0.next = NameOf(s, k)
      /\ l0.next \in l0.stay => l0.index \in Sfns(s) /\ NameOf(s, l0.index) = l0.next
  BY <1>2 DEF ListGoes, ListBase
<1>6. got \subseteq l0.stay /\ \A x : x \in got <=> x \in l0.seen \/ (x = l0.next /\ x \in l0.stay)
  BY <1>5
<1> HIDE DEF got
<1>7. l = [dir |-> l0.dir, index |-> l0.index, next |-> l0.next, stay |-> l0.stay, seen |-> got]
  BY <1>4
<1> HIDE DEF l
<1>8. l.dir = l0.dir /\ l.index = l0.index /\ l.stay = l0.stay /\ l.seen = got /\ l.next = l0.next
  BY <1>7
<1>9. ListFields(entries, l)
  BY <1>4, <1>7, <1>8 DEF ListFields
<1>10. ListBase(s, l)
  BY <1>5, <1>6, <1>8 DEF ListBase
<1>11. ASSUME NEW k \in Staying(s, l0.stay) PROVE NameOf(s, k) \in got <=> k <= l0.index
  <2>1. k \in Sfns(s) /\ k \in Nat /\ NameOf(s, k) \in l0.stay
    BY <1>3, At DEF Staying, Sfns
  <2>2. NameOf(s, k) = l0.next => k = l0.index
    <3>1. SUFFICES ASSUME NameOf(s, k) = l0.next PROVE k = l0.index
      OBVIOUS
    <3>2. l0.index \in Sfns(s) /\ NameOf(s, l0.index) = l0.next
      BY <3>1, <2>1, <1>5
    <3>3. Named(s, k, l0.next) /\ Named(s, l0.index, l0.next) /\ l0.next \in AnyName
      BY <3>1, <3>2, <2>1, <1>3, NameOfIs
    <3> QED BY <3>2, <3>3, <2>1, <1>3 DEF DirSound, Apart
  <2>3. NameOf(s, k) \in got => k < l0.index \/ k = l0.index
    BY <2>2, <1>5, <1>6
  <2>4. k < l0.index \/ k = l0.index => NameOf(s, k) \in got
    BY <2>1, <1>5, <1>6
  <2>5. k <= l0.index <=> k < l0.index \/ k = l0.index
    BY <2>1, <1>4
  <2> QED BY <2>3, <2>4, <2>5
<1>12. ListReady(s, l)
  BY <1>8, <1>10, <1>11 DEF ListReady
<1>13. Given(l0) = ReadAhead(l) /\ s = entries[l.dir]
  BY <1>1, <1>8 DEF s
<1> QED BY <1>3, <1>9, <1>12, <1>13, ReadAheadIs

\* The label is skipped.
LEMMA UnlabelledIs ==
  ASSUME DirsSound(entries), NEW l, ListOpen(entries, l), l.next # None
  PROVE  ListOpen(entries, Unlabelled(l))
<1> DEFINE s == entries[l.dir]
<1>1. ListFields(entries, l) /\ ListGoes(s, l)
  BY DEF ListOpen
<1>2. DirSound(s)
  BY <1>1 DEF DirsSound, ListFields
<1>3. ListFields(entries, l) => l.index \in Nat /\ l.stay \subseteq AnyName
  BY DEF ListFields
<1> HIDE DEF s
<1>4. CASE l.next \in Labels
  <2>1. l.next \notin l.stay
    BY <1>1, <1>3, <1>4, MountAssumption DEF AnyName
  <2>2. ASSUME NEW k \in Staying(s, l.stay) PROVE NameOf(s, k) \in l.seen <=> k <= l.index
    <3>1. k \in Nat /\ NameOf(s, k) \in l.stay
      BY <1>2, At DEF Staying, Sfns
    <3>2. k # l.index
      BY <3>1, <2>1, <1>1 DEF ListGoes
    <3>3. k <= l.index <=> k < l.index
      BY <3>1, <3>2, <1>1, <1>3
    <3> QED BY <3>3, <1>1 DEF ListGoes
  <2>3. ListReady(s, l)
    BY <2>2, <1>1 DEF ListReady, ListGoes
  <2>4. ListOpen(entries, ReadAhead(l))
    BY <2>3, <1>1, <1>2, ReadAheadIs DEF s
  <2> QED BY <2>4, <1>4 DEF Unlabelled
<1>5. CASE l.next \notin Labels
  BY <1>5 DEF Unlabelled
<1> QED BY <1>4, <1>5

\* fs_dread.
LEMMA ReadListStep ==
  ASSUME Sound(entries, handle, list), ReadList
  PROVE  Sound(entries', handle', list')
<1>1. entries' = entries /\ handle' = handle /\ list # None /\ list.next # None /\ list' = Given(Unlabelled(list))
  BY DEF ReadList
<1>2. DirsSound(entries) /\ ListOpen(entries, list)
  BY <1>1 DEF Sound, ListSound
<1>3. ListOpen(entries, Unlabelled(list))
  BY <1>1, <1>2, UnlabelledIs
<1>4. ListSound(entries, list')
  BY <1>1, <1>2, <1>3, GivenIs DEF ListSound
<1> QED BY <1>1, <1>4 DEF Sound

-----------------------------------------------------------------------------
(* The names are found, and listed once *)

\* A sequence filled up.
LEMMA PaddedIs ==
  ASSUME NEW X, NEW u \in Seq(X), NEW N \in Nat, Len(u) <= N, NEW x,
         NEW s, s = u \o [i \in 1 .. N - Len(u) |-> x]
  PROVE  /\ s \in Seq(X \cup {x}) /\ Len(s) = N /\ DOMAIN s = 1 .. N
         /\ \A i \in 1 .. Len(u) : s[i] = u[i]
         /\ \A i \in Len(u) + 1 .. N : s[i] = x
<1> DEFINE L == Len(u)
           pad == [i \in 1 .. N - L |-> x]
<1>1. L \in Nat /\ N - L \in Nat /\ L + (N - L) = N /\ L <= N
  OBVIOUS
<1>2. u \in Seq(X \cup {x})
  OBVIOUS
<1> HIDE DEF L
<1>3. pad \in Seq(X \cup {x}) /\ Len(pad) = N - L /\ \A i \in 1 .. N - L : pad[i] = x
  <2>1. pad \in [1 .. N - L -> X \cup {x}]
    OBVIOUS
  <2> QED BY <1>1, <2>1
<1>4. s = u \o pad
  BY DEF L
<1> HIDE DEF pad
<1>5. s \in Seq(X \cup {x}) /\ Len(s) = L + Len(pad)
      /\ \A i \in 1 .. L + Len(pad) : s[i] = IF i <= L THEN u[i] ELSE pad[i - L]
  <2> DEFINE Y == X \cup {x}
  <2>1. u \in Seq(Y) /\ pad \in Seq(Y)
    BY <1>2, <1>3
  <2> HIDE DEF Y
  <2>2. /\ u \o pad \in Seq(Y) /\ Len(u \o pad) = Len(u) + Len(pad)
        /\ \A i \in 1 .. Len(u) + Len(pad) : (u \o pad)[i] = IF i <= Len(u) THEN u[i] ELSE pad[i - Len(u)]
    BY <2>1, ConcatProperties
  <2> QED BY <2>2, <1>4 DEF L, Y
<1>6. Len(s) = N /\ \A i \in 1 .. N : s[i] = IF i <= L THEN u[i] ELSE pad[i - L]
  BY <1>1, <1>3, <1>5
<1>7. \A i \in 1 .. L : i \in 1 .. N /\ i <= L
  BY <1>1
<1>8. \A i \in L + 1 .. N : i \in 1 .. N /\ ~(i <= L) /\ i - L \in 1 .. N - L
  BY <1>1
<1>9. \A i \in 1 .. L : s[i] = u[i]
  BY <1>6, <1>7
<1>10. \A i \in L + 1 .. N : s[i] = x
  BY <1>3, <1>6, <1>8
<1>11. DOMAIN s = 1 .. N
  BY <1>5, <1>6
<1> QED BY <1>5, <1>6, <1>9, <1>10, <1>11 DEF L

\* What is mounted.
LEMMA MountedIs ==
  ASSUME NEW m \in AtMount, NEW s, s = m.entries \o [i \in 1 .. EntryCount - Len(m.entries) |-> End]
  PROVE  DirSound(s) /\ \A j \in Sfns(s) : ~s[j].dir /\ s[j].short \in Called
<1> DEFINE u == m.entries
           L == Len(u)
           File == {Sfn(x, FALSE, None) : x \in Name \cup Sequenced}
<1>1. /\ L <= EntryCount /\ u \in Seq({Deleted} \cup Labels \cup File)
      /\ \A i, j \in DOMAIN u : u[i] = u[j] => i = j \/ u[i] = Deleted
      /\ \A i, j \in DOMAIN u : u[i] \in Labels /\ u[j] \in Labels => i = j
  BY MountAssumption
<1>2. EntryCount \in Nat /\ EntryCount >= 1
  BY Consts
<1>3. ASSUME NEW x \in File
      PROVE  x \in Entry /\ x.kind = "sfn" /\ ~x.dir /\ x = Sfn(x.short, FALSE, None) /\ x.short \in Called
  <2>1. PICK y \in Name \cup Sequenced : x = Sfn(y, FALSE, None)
    OBVIOUS
  <2>2. PICK b \in BOOLEAN : b = FALSE
    OBVIOUS
  <2>3. x = Sfn(y, b, None)
    BY <2>1, <2>2, Zenon
  <2>4. Sfn(y, b, None) \in Entry
    BY SfnIs DEF AnyName
  <2>5. x.kind = "sfn" /\ x.short = y /\ x.dir = b
    BY <2>3, Kinds
  <2>6. x.short \in Called
    BY <2>5 DEF Called
  <2> QED BY <2>1, <2>2, <2>3, <2>4, <2>5, <2>6, Zenon
<1> HIDE DEF File
<1> DEFINE X == {Deleted} \cup Labels \cup File
<1>4. X \cup {End} \subseteq Entry
  BY <1>3, EntriesAre
<1>5. u \in Seq(X)
  BY <1>1
<1> HIDE DEF X
<1>6. L \in Nat /\ DOMAIN u = 1 .. L /\ \A i \in 1 .. L : u[i] \in X
  BY <1>5
<1>7. /\ s \in Seq(X \cup {End}) /\ Len(s) = EntryCount /\ DOMAIN s = 1 .. EntryCount
      /\ (\A i \in 1 .. L : s[i] = u[i]) /\ \A i \in L + 1 .. EntryCount : s[i] = End
  BY <1>1, <1>2, <1>5, PaddedIs
<1> HIDE DEF L, u
<1>8. \A i \in DOMAIN s : \/ i \in 1 .. L /\ s[i] = u[i] /\ s[i] \in {Deleted} \cup Labels \cup File
                          \/ i \in L + 1 .. EntryCount /\ s[i] = End
  <2>1. \A i \in 1 .. EntryCount : i \in 1 .. L \/ i \in L + 1 .. EntryCount
    BY <1>2, <1>6
  <2> QED BY <2>1, <1>6, <1>7 DEF X
<1>9. s \in Seq(Entry)
  BY <1>4, <1>7
<1>10. \A i \in DOMAIN s : /\ s[i].kind \in {"end", "deleted", "label", "sfn"}
                           /\ s[i].kind = "end" => i \in L + 1 .. EntryCount /\ s[i] = End
                           /\ s[i].kind \in {"label", "sfn"} => i \in 1 .. L /\ s[i] = u[i] /\ s[i] # Deleted
                           /\ s[i].kind = "sfn" => s[i] \in File
                           /\ s[i].kind = "label" => s[i] \in Labels
  BY <1>3, <1>8, Kinds
<1>11. Packed(s)
  <2>1. SUFFICES ASSUME NEW i \in DOMAIN s, NEW j \in DOMAIN s, i < j, s[i] = End PROVE s[j] = End
    BY DEF Packed
  <2>2. i \in L + 1 .. EntryCount
    BY <2>1, <1>10, Kinds
  <2>3. j \in L + 1 .. EntryCount
    <3>1. j \in 1 .. EntryCount /\ i < j
      BY <2>1, <1>7
    <3> QED BY <3>1, <2>2, <1>2, <1>6
  <2> QED BY <2>3, <1>7
<1>12. Whole(s)
  BY <1>10 DEF Whole
<1>13. OneLabel(s)
  <2>1. SUFFICES ASSUME NEW i \in DOMAIN s, NEW j \in DOMAIN s, s[i].kind = "label", s[j].kind = "label" PROVE i = j
    BY DEF OneLabel
  <2>2. u[i] \in Labels /\ u[j] \in Labels /\ i \in DOMAIN u /\ j \in DOMAIN u
    BY <2>1, <1>6, <1>10
  <2> QED BY <2>2, <1>1
<1>14. Apart(s)
  <2>1. SUFFICES ASSUME NEW i \in Sfns(s), NEW j \in Sfns(s), NEW x, Named(s, i, x), Named(s, j, x) PROVE i = j
    BY DEF Apart
  <2>2. ASSUME NEW k \in Sfns(s), Named(s, k, x)
        PROVE  s[k] = Sfn(x, FALSE, None) /\ k \in DOMAIN u /\ s[k] = u[k] /\ u[k] # Deleted
    <3>1. k \in DOMAIN s /\ s[k].kind = "sfn"
      BY DEF Sfns
    <3>2. ~HasLong(s, k, x)
      <4>1. SUFFICES ASSUME k > 1, s[k - 1] = Lfn(x, 1) PROVE FALSE
        BY DEF HasLong
      <4>2. k - 1 \in DOMAIN s
        <5>1. k \in 1 .. EntryCount /\ k > 1
          BY <3>1, <4>1, <1>7
        <5>2. k - 1 \in 1 .. EntryCount
          BY <5>1, <1>2
        <5> QED BY <5>2, <1>7
      <4>3. s[k - 1].kind = "lfn"
        <5>1. Lfn(x, 1).kind = "lfn"
          BY Kinds
        <5> QED BY <4>1, <5>1
      <4> QED BY <4>2, <4>3, <1>10
    <3>3. s[k].short = x
      BY <2>2, <3>2 DEF Named
    <3> QED BY <3>1, <3>3, <1>3, <1>6, <1>10
  <2>3. u[i] = u[j] /\ i \in DOMAIN u /\ j \in DOMAIN u /\ u[i] # Deleted
    BY <2>1, <2>2
  <2> QED BY <2>3, <1>1
<1>15. \A j \in Sfns(s) : ~s[j].dir /\ s[j].short \in Called
  BY <1>3, <1>10 DEF Sfns
<1> QED BY <1>2, <1>7, <1>9, <1>11, <1>12, <1>13, <1>14, <1>15 DEF DirSound

\* A volume that is mounted is as it should be.
LEMMA InitIs == DirInit => DirIInv
<1> SUFFICES ASSUME DirInit PROVE DirIInv
  OBVIOUS
<1>1. list = None /\ slip = FALSE /\ handle = [h \in Handle |-> None]
  BY DEF DirInit
<1>2. PICK m \in AtMount :
        entries = [d \in {Root} |-> m.entries \o [i \in 1 .. EntryCount - Len(m.entries) |-> End]]
  BY DEF DirInit
<1> DEFINE s == m.entries \o [i \in 1 .. EntryCount - Len(m.entries) |-> End]
<1>3. DirSound(s) /\ \A j \in Sfns(s) : ~s[j].dir
  BY MountedIs
<1>4. entries = [d \in {Root} |-> s]
  BY <1>2
<1> HIDE DEF s
<1>5. DOMAIN entries = {Root} /\ entries[Root] = s /\ entries = [d \in DOMAIN entries |-> entries[d]]
  BY <1>4
<1>6. DirsSound(entries)
  <2>1. Domains(entries)
    BY <1>5 DEF Domains
  <2>2. HeadsSound(entries)
    <3>1. \A j \in Sfns(entries[Root]) : ~entries[Root][j].dir
      BY <1>3, <1>5
    <3>2. DOMAIN entries \ {Root} = {}
      BY <1>5
    <3> QED BY <3>1, <3>2 DEF HeadsSound
  <2> QED BY <2>1, <2>2, <1>3, <1>5 DEF DirsSound
<1>7. HandlesSound(entries, handle)
  BY <1>1 DEF HandlesSound, HandleSound
<1> QED BY <1>1, <1>6, <1>7 DEF DirIInv, ListSound, ListOpen

\* Every call keeps it so, or goes wrong.
LEMMA NextIs == DirIInv /\ [DirNext]_dirVars => DirIInv'
<1> SUFFICES ASSUME DirIInv, [DirNext]_dirVars PROVE DirIInv'
  OBVIOUS
<1>1. slip \in BOOLEAN /\ (~slip => Sound(entries, handle, list))
  BY DEF DirIInv, Sound
<1>2. slip' \in BOOLEAN /\ (~slip' => Sound(entries', handle', list')) => DirIInv'
  BY DEF DirIInv, Sound
<1>3. CASE UNCHANGED dirVars
  BY <1>1, <1>2, <1>3 DEF dirVars
<1>4. CASE Done
  BY <1>1, <1>2, <1>4 DEF Done, dirVars
<1>5. CASE ~slip /\ DirNext
  <2>1. Sound(entries, handle, list)
    BY <1>1, <1>5
  <2>2. ASSUME NEW h \in Handle, NEW p \in FilePath, OpenNew(h, p) PROVE DirIInv'
    <3>1. slip' \in BOOLEAN
      BY <2>2 DEF OpenNew
    <3> QED BY <2>1, <2>2, <3>1, <1>2, OpenNewStep
  <2>3. ASSUME NEW h \in Handle, Close(h) PROVE DirIInv'
    BY <2>1, <2>3, <1>1, <1>2, CloseStep DEF Close
  <2>4. ASSUME NEW p \in FilePath, RemoveFile(p) PROVE DirIInv'
    <3>1. slip' \in BOOLEAN
      BY <2>4 DEF RemoveFile, WrongPlaces
    <3> QED BY <2>1, <2>4, <3>1, <1>2, RemoveFileStep
  <2>5. ASSUME NEW d \in DOMAIN entries, OpenList(d) PROVE DirIInv'
    BY <2>1, <2>5, <1>1, <1>2, OpenListStep DEF OpenList
  <2>6. ASSUME ReadList PROVE DirIInv'
    BY <2>1, <2>6, <1>1, <1>2, ReadListStep DEF ReadList
  <2>7. ASSUME CloseList PROVE DirIInv'
    BY <2>1, <2>7, <1>1, <1>2 DEF CloseList, Sound, ListSound, ListOpen
  <2>8. ASSUME NEW h \in Handle, NEW p \in FilePath, OpenThere(h, p) PROVE DirIInv'
    BY <2>1, <2>8, <1>1, <1>2, OpenThereStep DEF OpenThere
  <2>14. ASSUME NEW h \in Handle, NEW p \in FilePath, OpenAstray(h, p) PROVE DirIInv'
    <3>1. slip' = TRUE
      BY <2>14 DEF OpenAstray
    <3> QED BY <3>1 DEF DirIInv
  <2>9. ASSUME NEW h \in Handle, Write(h) PROVE DirIInv'
    BY <2>1, <2>9, <1>1, <1>2, WriteStep DEF Write
  <2>10. ASSUME NEW p \in DirPath, list = None, MakeDir(p) PROVE DirIInv'
    <3>1. slip' \in BOOLEAN
      BY <2>10 DEF MakeDir
    <3> QED BY <2>1, <2>10, <3>1, <1>2, MakeDirStep
  <2>11. ASSUME NEW p \in DirPath, list = None, RemoveDir(p) PROVE DirIInv'
    <3>1. slip' \in BOOLEAN
      BY <2>11, <1>1 DEF RemoveDir, WrongPlaces
    <3> QED BY <2>1, <2>11, <3>1, <1>2, <1>5, RemoveDirStep
  <2>12. ASSUME NEW p, NEW dir, Refused(p, dir) PROVE DirIInv'
    BY <2>1, <2>12, <1>1, <1>2 DEF Refused
  <2>13. \/ \E h \in Handle, p \in FilePath : OpenNew(h, p)
         \/ \E h \in Handle : Close(h)
         \/ \E p \in FilePath : RemoveFile(p)
         \/ \E d \in DOMAIN entries : OpenList(d)
         \/ ReadList
         \/ CloseList
         \/ /\ list = None
            /\ \/ \E h \in Handle, p \in FilePath : OpenThere(h, p) \/ OpenAstray(h, p)
               \/ \E h \in Handle : Write(h)
               \/ \E p \in DirPath : MakeDir(p) \/ RemoveDir(p)
               \/ \E p \in FilePath \cup DirPath : Refused(p, p \in DirPath)
    BY <1>5, Zenon DEF DirNext, Done
  <2> QED BY <2>2, <2>3, <2>4, <2>5, <2>6, <2>7, <2>8, <2>9, <2>10, <2>11, <2>12, <2>13, <2>14, Zenon
<1> QED BY <1>1, <1>3, <1>4, <1>5, Zenon DEF DirNext

\* Unless a call went wrong, the directories, the open files and the listing are as they should be.
LEMMA StaysSound == DirSpec => []DirIInv
<1> QED BY InitIs, NextIs, PTL DEF DirSpec

\* For every volume, and however long its names are: unless a call went wrong, the entries of
\* each long name are whole and each file is found by its names, which no other file has
\* (getDirentryStoreOffset, saveDirentry, setShortNameSequence, fat_clearDirSpace).
THEOREM NamesFound == DirSpec => []NamesLeadBack
<1> QED BY StaysSound, IInvNames, PTL

\* And a listing gives each file that is there from its start to its end once, whatever is
\* created and removed meanwhile (fs_dread, fat_getNextDirentry).
THEOREM FilesListedOnce == DirSpec => []ListedOnce
<1> QED BY StaysSound, IInvListed, PTL

-----------------------------------------------------------------------------
(* The tree of names *)

\* Entry k of the root directory is that of directory d.
IsDirTo(e, k, d) == k \in Sfns(e[Root]) /\ e[Root][k].dir /\ e[Root][k].head = d

\* Path p leads to entry j of directory d.
Leads(e, p, d, j) ==
  IF d = Root THEN p = <<NameOf(e[Root], j)>>
  ELSE \E k : IsDirTo(e, k, d) /\ p = <<NameOf(e[Root], k), NameOf(e[d], j)>>

\* The first two entries of a directory are those called . and ..
Dots(e) ==
  \A d \in DOMAIN e : \A j \in Sfns(e[d]) : e[d][j].short \in {Dot, DotDot} <=> d # Root /\ e[d][j].dir

\* x is what the tree shows of entry j of directory d.
Shows(e, x, d, j) ==
  /\ d \in DOMAIN e /\ j \in Sfns(e[d]) /\ (d = Root \/ ~e[d][j].dir)
  /\ Leads(e, x.path, d, j)
  /\ x = [path |-> x.path, dir |-> e[d][j].dir, size |-> e[d][j].size]

\* Two files of a directory have two names.
LEMMA NamesApart ==
  ASSUME NEW s, DirSound(s), NEW i \in Sfns(s), NEW j \in Sfns(s), NameOf(s, i) = NameOf(s, j)
  PROVE  i = j
<1>1. Named(s, i, NameOf(s, i)) /\ Named(s, j, NameOf(s, j)) /\ NameOf(s, i) \in AnyName
  BY NameOfIs
<1> QED BY <1>1 DEF DirSound, Apart

\* An entry that is not one of the first two has a name that a path may have.
LEMMA CalledIs ==
  ASSUME NEW s, DirSound(s), NEW j \in Sfns(s), s[j].short \notin {Dot, DotDot}
  PROVE  NameOf(s, j) \in Called
<1>1. NameOf(s, j) = LongName(s, j)
  BY NameOfIs
<1>2. CASE j > 1 /\ s[j - 1].kind = "lfn"
  BY <1>1, <1>2, LongThere DEF Called
<1>3. CASE ~(j > 1 /\ s[j - 1].kind = "lfn")
  <2>1. LongName(s, j) = s[j].short
    BY <1>3, LongThere
  <2>2. s[j] \in Entry /\ s[j].kind = "sfn"
    BY At DEF Sfns
  <2>3. s[j].short \in AnyName
    BY <2>2, EntryIs
  <2> QED BY <1>1, <2>1, <2>3 DEF AnyName, Called
<1> QED BY <1>2, <1>3

\* Paths of one and two names.
LEMMA PathsAre ==
  ASSUME NEW a, NEW b
  PROVE  /\ Append(<<>>, a) = <<a>> /\ Append(<<a>>, b) = <<a, b>>
         /\ Len(<<a>>) = 1 /\ Len(<<a, b>>) = 2
         /\ a \in Called => <<a>> \in Path
         /\ a \in Called /\ b \in Called => <<a, b>> \in Path
<1>1. Append(<<>>, a) = <<a>>
  <2>1. <<>> \in Seq({a}) /\ Len(<<>>) = 0 /\ <<a>> \in Seq({a}) /\ Len(<<a>>) = 1 /\ <<a>>[1] = a
    OBVIOUS
  <2>2. Append(<<>>, a) \in Seq({a}) /\ Len(Append(<<>>, a)) = 1 /\ Append(<<>>, a)[1] = a
    BY <2>1, AppendProperties
  <2> QED BY <2>1, <2>2, SeqEqual
<1>2. Append(<<a>>, b) = <<a, b>>
  <2> DEFINE S == {a, b}
  <2>1. <<a>> \in Seq(S) /\ Len(<<a>>) = 1 /\ <<a>>[1] = a /\ b \in S
    OBVIOUS
  <2>2. <<a, b>> \in Seq(S) /\ Len(<<a, b>>) = 2 /\ <<a, b>>[1] = a /\ <<a, b>>[2] = b
    OBVIOUS
  <2> HIDE DEF S
  <2>3. Append(<<a>>, b) \in Seq(S) /\ Len(Append(<<a>>, b)) = 2 /\ Append(<<a>>, b)[1] = a /\ Append(<<a>>, b)[2] = b
    BY <2>1, AppendProperties
  <2>4. \A i \in 1 .. 2 : Append(<<a>>, b)[i] = <<a, b>>[i]
    <3>1. \A i \in 1 .. 2 : i = 1 \/ i = 2
      OBVIOUS
    <3> QED BY <3>1, <2>2, <2>3
  <2> QED BY <2>2, <2>3, <2>4, SeqEqual
<1>3. a \in Called => <<a>> \in Path
  BY DEF Path
<1>4. a \in Called /\ b \in Called => <<a, b>> \in Path
  BY DEF Path
<1> QED BY <1>1, <1>3, <1>4, <1>2

NodeAt(s, p, j) == [path |-> Append(p, NameOf(s, j)), dir |-> s[j].dir, size |-> s[j].size]

\* What the entries of one directory show.
LEMMA NodesIs ==
  ASSUME NEW s, DirSound(s), NEW p, NEW x
  PROVE  x \in Nodes(s, p) <=> \E j \in Sfns(s) : s[j].short \notin {Dot, DotDot} /\ x = NodeAt(s, p, j)
<1>1. Files(s) = Sfns(s)
  BY DirScans
<1> QED BY <1>1 DEF Nodes, NodeAt

\* The tree is what the entries of the directories that the root directory leads to show.
LEMMA TreeIs ==
  ASSUME NEW e, DirsSound(e), Dots(e), NEW x
  PROVE  x \in Tree(e) <=> \E d, j : Shows(e, x, d, j)
<1> DEFINE r == e[Root]
           D == {i \in Files(r) : r[i].dir}
<1>1. /\ \A d \in DOMAIN e : DirSound(e[d])
      /\ Root \in DOMAIN e /\ DirSound(r) /\ HeadsSound(e)
  BY DEF DirsSound, Domains
<1>2. \A k : k \in D <=> IsDirTo(e, k, r[k].head)
  BY <1>1, DirScans DEF IsDirTo
<1>3. \A k \in D : r[k].head \in DOMAIN e /\ r[k].head # Root
  BY <1>1, <1>2 DEF IsDirTo, HeadsSound
<1>4. x \in Nodes(r, <<>>) <=> \E j : Shows(e, x, Root, j)
  <2>1. \A j \in Sfns(r) : r[j].short \notin {Dot, DotDot}
    BY <1>1 DEF Dots
  <2>2. \A j : NodeAt(r, <<>>, j) = [path |-> <<NameOf(r, j)>>, dir |-> r[j].dir, size |-> r[j].size]
    BY PathsAre DEF NodeAt
  <2>3. x \in Nodes(r, <<>>) <=> \E j \in Sfns(r) : x = NodeAt(r, <<>>, j)
    BY <1>1, <2>1, NodesIs
  <2>4. x \in Nodes(r, <<>>) <=> \E j \in Sfns(r) : x = [path |-> <<NameOf(r, j)>>, dir |-> r[j].dir, size |-> r[j].size]
    BY <2>2, <2>3
  <2>5. ASSUME NEW j \in Sfns(r), x = [path |-> <<NameOf(r, j)>>, dir |-> r[j].dir, size |-> r[j].size]
        PROVE  Shows(e, x, Root, j)
    <3>1. x.path = <<NameOf(r, j)>>
      BY <2>5
    <3> QED BY <2>5, <3>1, <1>1 DEF Shows, Leads
  <2>6. ASSUME NEW j, Shows(e, x, Root, j)
        PROVE  j \in Sfns(r) /\ x = [path |-> <<NameOf(r, j)>>, dir |-> r[j].dir, size |-> r[j].size]
    BY <2>6 DEF Shows, Leads
  <2> QED BY <2>4, <2>5, <2>6
<1>5. ASSUME NEW k \in D
      PROVE  x \in Nodes(e[r[k].head], <<NameOf(r, k)>>) <=> \E j : /\ Shows(e, x, r[k].head, j)
                                                                    /\ x.path = <<NameOf(r, k), NameOf(e[r[k].head], j)>>
  <2> DEFINE c == r[k].head
  <2>1. c \in DOMAIN e /\ c # Root /\ DirSound(e[c]) /\ IsDirTo(e, k, c)
    BY <1>1, <1>2, <1>3
  <2> HIDE DEF c, r
  <2>2. \A j \in Sfns(e[c]) : e[c][j].short \notin {Dot, DotDot} <=> ~e[c][j].dir
    BY <2>1 DEF Dots
  <2>3. \A j : NodeAt(e[c], <<NameOf(r, k)>>, j) =
                 [path |-> <<NameOf(r, k), NameOf(e[c], j)>>, dir |-> e[c][j].dir, size |-> e[c][j].size]
    BY PathsAre DEF NodeAt
  <2>4. x \in Nodes(e[c], <<NameOf(r, k)>>) <=>
          \E j \in Sfns(e[c]) : ~e[c][j].dir /\ x = NodeAt(e[c], <<NameOf(r, k)>>, j)
    BY <2>1, <2>2, NodesIs
  <2>5. x \in Nodes(e[c], <<NameOf(r, k)>>) <=>
          \E j \in Sfns(e[c]) : /\ ~e[c][j].dir
                                /\ x = [path |-> <<NameOf(r, k), NameOf(e[c], j)>>, dir |-> e[c][j].dir, size |-> e[c][j].size]
    BY <2>3, <2>4
  <2>6. ASSUME NEW j \in Sfns(e[c]), ~e[c][j].dir,
               x = [path |-> <<NameOf(r, k), NameOf(e[c], j)>>, dir |-> e[c][j].dir, size |-> e[c][j].size]
        PROVE  Shows(e, x, c, j) /\ x.path = <<NameOf(r, k), NameOf(e[c], j)>>
    <3>1. x.path = <<NameOf(r, k), NameOf(e[c], j)>>
      BY <2>6
    <3>2. Leads(e, x.path, c, j)
      BY <3>1, <2>1 DEF Leads, r
    <3>3. x = [path |-> x.path, dir |-> e[c][j].dir, size |-> e[c][j].size]
      BY <2>6, <3>1
    <3> QED BY <2>1, <2>6, <3>1, <3>2, <3>3 DEF Shows
  <2>7. ASSUME NEW j, Shows(e, x, c, j), x.path = <<NameOf(r, k), NameOf(e[c], j)>>
        PROVE  /\ j \in Sfns(e[c]) /\ ~e[c][j].dir
               /\ x = [path |-> <<NameOf(r, k), NameOf(e[c], j)>>, dir |-> e[c][j].dir, size |-> e[c][j].size]
    BY <2>1, <2>7 DEF Shows
  <2> QED BY <2>5, <2>6, <2>7 DEF c
<1>6. x \in Tree(e) <=> x \in Nodes(r, <<>>) \/ \E k \in D : x \in Nodes(e[r[k].head], <<NameOf(r, k)>>)
  BY DEF Tree
<1>7. ASSUME NEW d, NEW j, Shows(e, x, d, j), d # Root
      PROVE  \E k \in D : /\ Shows(e, x, r[k].head, j)
                          /\ x.path = <<NameOf(r, k), NameOf(e[r[k].head], j)>>
  <2>1. PICK k : IsDirTo(e, k, d) /\ x.path = <<NameOf(r, k), NameOf(e[d], j)>>
    BY <1>7 DEF Shows, Leads
  <2>2. r[k].head = d /\ k \in D
    BY <2>1, <1>2 DEF IsDirTo
  <2> QED BY <2>1, <2>2, <1>7
<1> HIDE DEF r, D
<1>8. ASSUME x \in Tree(e) PROVE \E d, j : Shows(e, x, d, j)
  BY <1>4, <1>5, <1>6, <1>8
<1>9. ASSUME NEW d, NEW j, Shows(e, x, d, j) PROVE x \in Tree(e)
  <2>1. CASE d = Root
    BY <2>1, <1>4, <1>6, <1>9
  <2>2. CASE d # Root
    BY <2>2, <1>5, <1>6, <1>7, <1>9
  <2> QED BY <2>1, <2>2
<1> QED BY <1>8, <1>9

\* Two places have two paths.
LEMMA LeadsOnce ==
  ASSUME NEW e, DirsSound(e), NEW p, NEW c \in DOMAIN e, NEW i \in Sfns(e[c]), NEW d \in DOMAIN e, NEW j \in Sfns(e[d]),
         Leads(e, p, c, i), Leads(e, p, d, j)
  PROVE  c = d /\ i = j
<1>1. (\A x \in DOMAIN e : DirSound(e[x])) /\ Root \in DOMAIN e /\ HeadsSound(e)
  BY DEF DirsSound, Domains
<1>2. Len(p) = IF c = Root THEN 1 ELSE 2
  BY PathsAre DEF Leads
<1>3. Len(p) = IF d = Root THEN 1 ELSE 2
  BY PathsAre DEF Leads
<1>4. CASE c = Root
  <2>1. d = Root /\ p = <<NameOf(e[Root], i)>> /\ p = <<NameOf(e[Root], j)>>
    BY <1>2, <1>3, <1>4 DEF Leads
  <2>2. NameOf(e[Root], i) = NameOf(e[Root], j)
    BY <2>1
  <2> QED BY <2>1, <2>2, <1>1, <1>4, NamesApart
<1>5. CASE c # Root
  <2>1. d # Root
    BY <1>2, <1>3, <1>5
  <2>2. PICK k : IsDirTo(e, k, c) /\ p = <<NameOf(e[Root], k), NameOf(e[c], i)>>
    BY <1>5 DEF Leads
  <2>3. PICK l : IsDirTo(e, l, d) /\ p = <<NameOf(e[Root], l), NameOf(e[d], j)>>
    BY <2>1 DEF Leads
  <2>4. NameOf(e[Root], k) = NameOf(e[Root], l) /\ NameOf(e[c], i) = NameOf(e[d], j)
    BY <2>2, <2>3
  <2>5. k = l
    BY <2>2, <2>3, <2>4, <1>1, NamesApart DEF IsDirTo
  <2>6. c = d
    BY <2>2, <2>3, <2>5 DEF IsDirTo
  <2> QED BY <2>4, <2>6, <1>1, NamesApart
<1> QED BY <1>4, <1>5

\* So each path shows one thing.
LEMMA ShowsOnce ==
  ASSUME NEW e, DirsSound(e), NEW x, NEW c, NEW i, Shows(e, x, c, i), NEW y, NEW d, NEW j, Shows(e, y, d, j), x.path = y.path
  PROVE  c = d /\ i = j /\ x = y
<1>1. c = d /\ i = j
  BY LeadsOnce DEF Shows
<1> QED BY <1>1 DEF Shows

\* The directories that path leads to are in Path, with a size a file may have.
LEMMA ShowsTyped ==
  ASSUME NEW e, DirsSound(e), Dots(e), NEW x, NEW d, NEW j, Shows(e, x, d, j)
  PROVE  x.path \in Path /\ x.dir \in BOOLEAN /\ x.size \in 0 .. MaxSize /\ Len(x.path) \in {1, 2}
<1>1. (\A c \in DOMAIN e : DirSound(e[c])) /\ Root \in DOMAIN e
  BY DEF DirsSound, Domains
<1>2. d \in DOMAIN e /\ j \in Sfns(e[d]) /\ (d = Root \/ ~e[d][j].dir) /\ Leads(e, x.path, d, j)
      /\ x.dir = e[d][j].dir /\ x.size = e[d][j].size
  BY DEF Shows
<1>3. e[d][j] \in Entry /\ e[d][j].kind = "sfn"
  BY <1>1, <1>2, At DEF Sfns
<1>4. x.dir \in BOOLEAN /\ x.size \in 0 .. MaxSize
  BY <1>2, <1>3, EntryIs
<1>5. e[d][j].short \notin {Dot, DotDot}
  BY <1>2 DEF Dots
<1>6. NameOf(e[d], j) \in Called
  BY <1>1, <1>2, <1>5, CalledIs
<1>7. \A k \in Sfns(e[Root]) : NameOf(e[Root], k) \in Called
  <2>1. \A k \in Sfns(e[Root]) : e[Root][k].short \notin {Dot, DotDot}
    BY <1>1 DEF Dots
  <2> QED BY <2>1, <1>1, CalledIs
<1>8. CASE d = Root
  BY <1>2, <1>6, <1>8, <1>4, PathsAre DEF Leads
<1>9. CASE d # Root
  <2>1. PICK k : IsDirTo(e, k, d) /\ x.path = <<NameOf(e[Root], k), NameOf(e[d], j)>>
    BY <1>2, <1>9 DEF Leads
  <2> QED BY <2>1, <1>4, <1>6, <1>7, PathsAre DEF IsDirTo
<1> QED BY <1>8, <1>9

\* The same entries of the root directory lead to directory d.
SameTo(e, e2, d) ==
  \A k : /\ IsDirTo(e2, k, d) <=> IsDirTo(e, k, d)
         /\ IsDirTo(e, k, d) => NameOf(e2[Root], k) = NameOf(e[Root], k)

\* Then its entries have the paths they had.
LEMMA LeadsSame ==
  ASSUME NEW e, NEW e2, NEW d, NEW j, d # Root => SameTo(e, e2, d), NameOf(e2[d], j) = NameOf(e[d], j), NEW p
  PROVE  Leads(e2, p, d, j) <=> Leads(e, p, d, j)
<1>1. CASE d = Root
  BY <1>1 DEF Leads
<1>2. CASE d # Root
  BY <1>2 DEF Leads, SameTo
<1> QED BY <1>1, <1>2

\* And show what they did, if they have the same size.
LEMMA ShowsSame ==
  ASSUME NEW e, NEW e2, NEW d \in DOMAIN e, d \in DOMAIN e2, NEW j \in Sfns(e[d]), j \in Sfns(e2[d]),
         SameFor(e[d], e2[d], j), e2[d][j].size = e[d][j].size, d # Root => SameTo(e, e2, d), NEW x
  PROVE  Shows(e2, x, d, j) <=> Shows(e, x, d, j)
<1>1. Leads(e2, x.path, d, j) <=> Leads(e, x.path, d, j)
  BY LeadsSame DEF SameFor
<1>2. e2[d][j].dir = e[d][j].dir
  BY DEF SameFor
<1> QED BY <1>1, <1>2 DEF Shows

\* In e2, directory d has become t.
Becomes(e, e2, d, t) == e2 = [e EXCEPT ![d] = t]

\* When one directory has other files, and no other directories, all directories are where they were.
LEMMA DirsStay ==
  ASSUME NEW e, DirsSound(e), NEW d \in DOMAIN e, NEW t, Evolves(e[d], t), NEW e2, Becomes(e, e2, d, t), NEW c
  PROVE  SameTo(e, e2, c)
<1>1. Domains(e) /\ Root \in DOMAIN e
  BY DEF DirsSound, Domains, Becomes
<1>2. CASE d # Root
  <2>1. e2[Root] = e[Root]
    BY <1>1, <1>2 DEF Domains, Becomes
  <2> QED BY <2>1 DEF SameTo, IsDirTo
<1>3. CASE d = Root
  <2>1. e2[Root] = t
    BY <1>1, <1>3 DEF Domains, Becomes
  <2>2. \A k \in Sfns(e[Root]) : e[Root][k].dir => k \in Sfns(t)
    BY <1>3 DEF Evolves
  <2>3. \A k \in Sfns(t) : IF k \in Sfns(e[Root]) THEN SameFor(e[Root], t, k) ELSE ~t[k].dir
    BY <1>3 DEF Evolves
  <2>4. ASSUME NEW k PROVE IsDirTo(e2, k, c) <=> IsDirTo(e, k, c)
    BY <2>1, <2>2, <2>3 DEF IsDirTo, SameFor
  <2>5. ASSUME NEW k, IsDirTo(e, k, c) PROVE NameOf(e2[Root], k) = NameOf(e[Root], k)
    BY <2>1, <2>2, <2>3, <2>5 DEF IsDirTo, SameFor
  <2> QED BY <2>4, <2>5 DEF SameTo
<1> QED BY <1>2, <1>3

\* Then the first two entries of a directory are still those called . and ..
LEMMA DotsStay ==
  ASSUME NEW e, DirsSound(e), Dots(e), NEW d \in DOMAIN e, NEW t, Evolves(e[d], t), NEW e2, Becomes(e, e2, d, t),
         \A j \in Sfns(t) : j \notin Sfns(e[d]) => t[j].short \in Called
  PROVE  Dots(e2)
<1>1. DOMAIN e2 = DOMAIN e /\ e2[d] = t /\ \A c \in DOMAIN e : c # d => e2[c] = e[c]
  BY DEF DirsSound, Domains, Becomes
<1>2. Called \cap {Dot, DotDot} = {}
  BY DirAssumption, MountAssumption DEF Called
<1>3. ASSUME NEW c \in DOMAIN e, NEW j \in Sfns(e2[c])
      PROVE  e2[c][j].short \in {Dot, DotDot} <=> c # Root /\ e2[c][j].dir
  <2>1. CASE c # d
    BY <2>1, <1>1, <1>3 DEF Dots
  <2>2. CASE c = d /\ j \in Sfns(e[d])
    <3>1. SameFor(e[d], t, j)
      BY <2>2, <1>1, <1>3 DEF Evolves
    <3> QED BY <3>1, <2>2, <1>1 DEF Dots, SameFor
  <2>3. CASE c = d /\ j \notin Sfns(e[d])
    <3>1. ~t[j].dir /\ t[j].short \in Called
      BY <2>3, <1>1, <1>3 DEF Evolves
    <3> QED BY <3>1, <2>3, <1>1, <1>2
  <2> QED BY <2>1, <2>2, <2>3
<1> QED BY <1>1, <1>3 DEF Dots

\* All entries show what they did, but those of directory d that are gone, whose entries are t now.
ShowsStay(e, e2, d, t) ==
  \A x, c, j : c # d \/ j \in Sfns(e[d]) =>
    (Shows(e2, x, c, j) <=> Shows(e, x, c, j) /\ (c = d => j \in Sfns(t)))

\* The tree is what it was, without the files that are gone and with the new ones.
LEMMA TreeEvolves ==
  ASSUME NEW e, DirsSound(e), NEW d \in DOMAIN e, NEW t, Evolves(e[d], t), SameSizes(e[d], t),
         NEW e2, Becomes(e, e2, d, t)
  PROVE  ShowsStay(e, e2, d, t)
<1> SUFFICES ASSUME NEW x, NEW c, NEW j, c # d \/ j \in Sfns(e[d])
             PROVE  Shows(e2, x, c, j) <=> Shows(e, x, c, j) /\ (c = d => j \in Sfns(t))
  BY DEF ShowsStay
<1>1. DOMAIN e2 = DOMAIN e /\ e2[d] = t /\ \A b \in DOMAIN e : b # d => e2[b] = e[b]
  BY DEF DirsSound, Domains, Becomes
<1>2. SameTo(e, e2, c)
  BY DirsStay
<1>3. CASE c \in DOMAIN e /\ j \in Sfns(e[c]) /\ j \in Sfns(e2[c])
  <2>1. SameFor(e[c], e2[c], j)
    <3>1. CASE c = d
      BY <3>1, <1>1, <1>3 DEF Evolves
    <3>2. CASE c # d
      BY <3>2, <1>1, <1>3 DEF SameFor
    <3> QED BY <3>1, <3>2
  <2>2. e2[c][j].size = e[c][j].size
    <3>1. CASE c = d
      BY <3>1, <1>1, <1>3 DEF SameSizes
    <3>2. CASE c # d
      BY <3>2, <1>1, <1>3
    <3> QED BY <3>1, <3>2
  <2> QED BY <2>1, <2>2, <1>1, <1>2, <1>3, ShowsSame
<1>4. CASE ~(c \in DOMAIN e /\ j \in Sfns(e[c]) /\ j \in Sfns(e2[c]))
  BY <1>1, <1>4 DEF Shows
<1> QED BY <1>3, <1>4

\* A place has one path.
LEMMA LeadsFun ==
  ASSUME NEW e, DirsSound(e), NEW d, NEW j, NEW p, NEW q, Leads(e, p, d, j), Leads(e, q, d, j)
  PROVE  p = q
<1>1. HeadsSound(e)
  BY DEF DirsSound
<1>2. CASE d = Root
  BY <1>2 DEF Leads
<1>3. CASE d # Root
  <2>1. PICK k : IsDirTo(e, k, d) /\ p = <<NameOf(e[Root], k), NameOf(e[d], j)>>
    BY <1>3 DEF Leads
  <2>2. PICK l : IsDirTo(e, l, d) /\ q = <<NameOf(e[Root], l), NameOf(e[d], j)>>
    BY <1>3 DEF Leads
  <2>3. k = l
    BY <2>1, <2>2, <1>1 DEF HeadsSound, IsDirTo
  <2> QED BY <2>1, <2>2, <2>3
<1> QED BY <1>2, <1>3

\* Entry j of directory d shows y alone.
ShowsOnly(e, d, j, y) == \A x : Shows(e, x, d, j) <=> x = y

\* What a place shows.
LEMMA ShowsIs ==
  ASSUME NEW e, DirsSound(e), NEW d \in DOMAIN e, NEW j \in Sfns(e[d]), d = Root \/ ~e[d][j].dir,
         NEW p, Leads(e, p, d, j)
  PROVE  ShowsOnly(e, d, j, [path |-> p, dir |-> e[d][j].dir, size |-> e[d][j].size])
<1> SUFFICES ASSUME NEW x
             PROVE  Shows(e, x, d, j) <=> x = [path |-> p, dir |-> e[d][j].dir, size |-> e[d][j].size]
  BY DEF ShowsOnly
<1>1. ASSUME Shows(e, x, d, j) PROVE x = [path |-> p, dir |-> e[d][j].dir, size |-> e[d][j].size]
  <2>1. x.path = p
    BY <1>1, LeadsFun DEF Shows
  <2> QED BY <1>1, <2>1 DEF Shows
<1>2. ASSUME x = [path |-> p, dir |-> e[d][j].dir, size |-> e[d][j].size] PROVE Shows(e, x, d, j)
  <2>1. x.path = p
    BY <1>2
  <2> QED BY <1>2, <2>1 DEF Shows
<1> QED BY <1>1, <1>2

\* Beside what was shown, entry J of directory d shows y.
ShowsMore(e, e2, d, J, y) ==
  \A x, c, j : Shows(e2, x, c, j) <=> Shows(e, x, c, j) \/ (c = d /\ j = J /\ x = y)

\* Then the tree has one more, with a path of its own.
LEMMA TreeWith ==
  ASSUME NEW e, DirsSound(e), Dots(e), NEW e2, DirsSound(e2), Dots(e2),
         NEW d, NEW J, J \notin Sfns(e[d]), NEW y, ShowsMore(e, e2, d, J, y)
  PROVE  (\A x \in Tree(e) : x.path # y.path) /\ Tree(e2) = Tree(e) \cup {y}
<1>1. ASSUME NEW x PROVE x \in Tree(e) <=> \E c, j : Shows(e, x, c, j)
  BY TreeIs
<1>2. ASSUME NEW x PROVE x \in Tree(e2) <=> \E c, j : Shows(e2, x, c, j)
  BY TreeIs
<1>3. Shows(e2, y, d, J)
  BY DEF ShowsMore
<1>4. ASSUME NEW x \in Tree(e), x.path = y.path PROVE FALSE
  <2>1. PICK c, j : Shows(e, x, c, j)
    BY <1>1
  <2>2. Shows(e2, x, c, j)
    BY <2>1 DEF ShowsMore
  <2>3. c = d /\ j = J
    BY <2>2, <1>3, <1>4, ShowsOnce
  <2> QED BY <2>1, <2>3 DEF Shows
<1>5. ASSUME NEW x PROVE x \in Tree(e2) <=> x \in Tree(e) \/ x = y
  BY <1>1, <1>2 DEF ShowsMore
<1> QED BY <1>4, <1>5

\* All show what they did but entry j of directory d, which shows nothing.
ShowsLess(e, e2, d, j) == \A y, c, i : Shows(e2, y, c, i) <=> Shows(e, y, c, i) /\ ~(c = d /\ i = j)

\* Then the tree has one less.
LEMMA TreeWithout ==
  ASSUME NEW e, DirsSound(e), Dots(e), NEW e2, DirsSound(e2), Dots(e2),
         NEW d, NEW j, ShowsLess(e, e2, d, j), NEW x, Shows(e, x, d, j)
  PROVE  Tree(e2) = Tree(e) \ {x}
<1>1. \A y, c, i : Shows(e, y, c, i) => (y = x <=> c = d /\ i = j)
  <2>1. ASSUME NEW y, NEW c, NEW i, Shows(e, y, c, i), y = x PROVE c = d /\ i = j
    BY <2>1, ShowsOnce
  <2>2. ASSUME NEW y, Shows(e, y, d, j) PROVE y = x
    <3>1. Leads(e, y.path, d, j) /\ Leads(e, x.path, d, j)
      BY <2>2 DEF Shows
    <3>2. y.path = x.path
      BY <3>1, LeadsFun
    <3> QED BY <2>2, <3>2, ShowsOnce
  <2> QED BY <2>1, <2>2
<1>2. \A y : y \in Tree(e2) <=> y \in Tree(e) /\ y # x
  <2>1. SUFFICES ASSUME NEW y PROVE y \in Tree(e2) <=> y \in Tree(e) /\ y # x
    OBVIOUS
  <2>2. (y \in Tree(e2) <=> \E c, i : Shows(e2, y, c, i)) /\ (y \in Tree(e) <=> \E c, i : Shows(e, y, c, i))
    BY TreeIs
  <2>3. ASSUME y \in Tree(e2) PROVE y \in Tree(e) /\ y # x
    <3>1. PICK c, i : Shows(e2, y, c, i)
      BY <2>2, <2>3
    <3> QED BY <3>1, <2>2, <1>1 DEF ShowsLess
  <2>4. ASSUME y \in Tree(e), y # x PROVE y \in Tree(e2)
    <3>1. PICK c, i : Shows(e, y, c, i)
      BY <2>2, <2>4
    <3>2. Shows(e2, y, c, i)
      BY <3>1, <2>4, <1>1 DEF ShowsLess
    <3> QED BY <3>2, <2>2
  <2> QED BY <2>3, <2>4
<1> QED BY <1>2

\* A file is added to a directory, and to the tree.
AddedFile(s, t, J, n) == Added(s, t, J, n, FALSE, None)
TreeGains(e, e2, q) ==
  /\ Dots(e2) /\ \A x \in Tree(e) : x.path # q
  /\ Tree(e2) = Tree(e) \cup {[path |-> q, dir |-> FALSE, size |-> 0]}

\* With a new file, the tree has one more.
LEMMA TreeAdds ==
  ASSUME NEW e, DirsSound(e), Dots(e), NEW d \in DOMAIN e, NEW t, NEW J, NEW n, AddedFile(e[d], t, J, n),
         NEW e2, Becomes(e, e2, d, t), DirsSound(e2), NEW q, Leads(e2, q, d, J)
  PROVE  Evolves(e[d], t) /\ TreeGains(e, e2, q)
<1>1. /\ DirSound(t) /\ Sfns(t) = Sfns(e[d]) \cup {J} /\ J \notin Sfns(e[d])
      /\ \A j \in Sfns(e[d]) : SameFor(e[d], t, j)
      /\ t[J].dir = FALSE /\ t[J].short \in Called /\ t[J].size = 0 /\ SameSizes(e[d], t)
  BY DEF AddedFile, Added
<1>2. DOMAIN e2 = DOMAIN e /\ e2[d] = t
  BY DEF DirsSound, Domains, Becomes
<1>3. Evolves(e[d], t)
  BY <1>1 DEF Evolves
<1>4. Dots(e2)
  <2>1. \A j \in Sfns(t) : j \notin Sfns(e[d]) => t[j].short \in Called
    BY <1>1
  <2> QED BY <2>1, <1>3, DotsStay
<1>5. ShowsStay(e, e2, d, t)
  <2>1. SameSizes(e[d], t)
    BY <1>1
  <2> QED BY <2>1, <1>3, TreeEvolves
<1> DEFINE y == [path |-> q, dir |-> t[J].dir, size |-> t[J].size]
<1>6. y = [path |-> q, dir |-> FALSE, size |-> 0]
  <2>1. PICK b \in BOOLEAN : b = FALSE
    OBVIOUS
  <2>2. t[J].dir = b
    BY <2>1, <1>1, Zenon
  <2>3. y = [path |-> q, dir |-> b, size |-> 0]
    BY <2>2, <1>1
  <2> QED BY <2>1, <2>3, Zenon
<1>7. ShowsOnly(e2, d, J, y)
  <2>1. d \in DOMAIN e2 /\ J \in Sfns(e2[d])
    BY <1>1, <1>2
  <2>2. d = Root \/ ~e2[d][J].dir
    BY <1>1, <1>2
  <2> QED BY <2>1, <2>2, <1>2, ShowsIs
<1> HIDE DEF y
<1>8. ShowsMore(e, e2, d, J, y)
  <2>1. SUFFICES ASSUME NEW x, NEW c, NEW j
        PROVE  Shows(e2, x, c, j) <=> Shows(e, x, c, j) \/ (c = d /\ j = J /\ x = y)
    BY DEF ShowsMore
  <2>2. CASE c # d \/ j \in Sfns(e[d])
    BY <2>2, <1>1, <1>5 DEF ShowsStay
  <2>3. CASE c = d /\ j \notin Sfns(e[d]) /\ j # J
    BY <2>3, <1>1, <1>2 DEF Shows
  <2>4. CASE c = d /\ j = J
    <3>1. ~Shows(e, x, c, j)
      BY <2>4, <1>1 DEF Shows
    <3> QED BY <3>1, <2>4, <1>7 DEF ShowsOnly
  <2> QED BY <2>2, <2>3, <2>4
<1>9. (\A x \in Tree(e) : x.path # y.path) /\ Tree(e2) = Tree(e) \cup {y}
  <2>1. J \notin Sfns(e[d])
    BY <1>1
  <2> QED BY <2>1, <1>4, <1>8, TreeWith
<1>10. y.path = q
  BY <1>6
<1> QED BY <1>3, <1>4, <1>6, <1>9, <1>10, Zenon DEF TreeGains

\* Without a file, it has one less.
LEMMA TreeLoses ==
  ASSUME NEW e, DirsSound(e), Dots(e), NEW d \in DOMAIN e, NEW j \in Sfns(e[d]), ~e[d][j].dir,
         NEW e2, Becomes(e, e2, d, Without(e[d], j)), DirsSound(e2), NEW x, Shows(e, x, d, j)
  PROVE  Dots(e2) /\ Evolves(e[d], Without(e[d], j)) /\ Tree(e2) = Tree(e) \ {x}
<1> DEFINE t == Without(e[d], j)
<1>1. DirSound(e[d])
  BY DEF DirsSound
<1>2. DirSound(t) /\ Sfns(t) = Sfns(e[d]) \ {j} /\ (\A i \in Sfns(t) : SameFor(e[d], t, i)) /\ SameSizes(e[d], t)
  BY <1>1, EraseIs
<1>3. Becomes(e, e2, d, t)
  OBVIOUS
<1>4. t = Without(e[d], j)
  OBVIOUS
<1> HIDE DEF t
<1>5. DOMAIN e2 = DOMAIN e /\ e2[d] = t
  BY <1>3 DEF DirsSound, Domains, Becomes
<1>6. Evolves(e[d], t)
  BY <1>2 DEF Evolves
<1>7. Dots(e2)
  BY <1>2, <1>3, <1>6, DotsStay
<1>8. ShowsStay(e, e2, d, t)
  <2>1. SameSizes(e[d], t)
    BY <1>2
  <2> QED BY <2>1, <1>3, <1>6, TreeEvolves
<1>9. ShowsLess(e, e2, d, j)
  <2>1. SUFFICES ASSUME NEW y, NEW c, NEW i PROVE Shows(e2, y, c, i) <=> Shows(e, y, c, i) /\ ~(c = d /\ i = j)
    BY DEF ShowsLess
  <2>2. CASE c # d \/ i \in Sfns(e[d])
    <3>1. Shows(e2, y, c, i) <=> Shows(e, y, c, i) /\ (c = d => i \in Sfns(t))
      BY <2>2, <1>8 DEF ShowsStay
    <3> QED BY <3>1, <2>2, <1>2
  <2>3. CASE c = d /\ i \notin Sfns(e[d])
    BY <2>3, <1>2, <1>5 DEF Shows
  <2> QED BY <2>2, <2>3
<1>10. Tree(e2) = Tree(e) \ {x}
  BY <1>7, <1>9, TreeWithout
<1> QED BY <1>4, <1>6, <1>7, <1>10

\* Room at the end of a directory leaves it as it was.
LEMMA TreeLarger ==
  ASSUME NEW e, DirsSound(e), Dots(e), NEW d \in DOMAIN e, NEW t, Larger(e[d], t),
         NEW e2, Becomes(e, e2, d, t), DirsSound(e2)
  PROVE  Dots(e2) /\ Evolves(e[d], t) /\ Sfns(t) = Sfns(e[d]) /\ Tree(e2) = Tree(e)
<1>1. DirSound(e[d]) /\ Alike(e[d], t) /\ SameSizes(e[d], t)
  BY DEF DirsSound, Larger
<1>2. DirSound(t) /\ SameFiles(e[d], t)
  BY <1>1, AlikeSound
<1>3. Sfns(t) = Sfns(e[d]) /\ Evolves(e[d], t)
  BY <1>2 DEF SameFiles, Evolves
<1>4. Dots(e2)
  BY <1>3, DotsStay
<1>5. e2[d] = t
  BY DEF DirsSound, Domains, Becomes
<1>6. ShowsStay(e, e2, d, t)
  BY <1>1, <1>3, TreeEvolves
<1>7. \A x, c, i : Shows(e2, x, c, i) <=> Shows(e, x, c, i)
  <2>1. SUFFICES ASSUME NEW x, NEW c, NEW i PROVE Shows(e2, x, c, i) <=> Shows(e, x, c, i)
    OBVIOUS
  <2>2. CASE c # d \/ i \in Sfns(e[d])
    BY <2>2, <1>3, <1>6 DEF ShowsStay
  <2>3. CASE c = d /\ i \notin Sfns(e[d])
    BY <2>3, <1>3, <1>5 DEF Shows
  <2> QED BY <2>2, <2>3
<1>8. \A x : x \in Tree(e2) <=> x \in Tree(e)
  <2>1. SUFFICES ASSUME NEW x PROVE x \in Tree(e2) <=> x \in Tree(e)
    OBVIOUS
  <2>2. (x \in Tree(e2) <=> \E c, i : Shows(e2, x, c, i)) /\ (x \in Tree(e) <=> \E c, i : Shows(e, x, c, i))
    BY <1>4, TreeIs
  <2> QED BY <2>2, <1>7
<1>9. Tree(e2) = Tree(e)
  BY <1>8
<1> QED BY <1>3, <1>4, <1>9

\* All show what they did, but entry j of directory d shows y.
ShowsElse(e, e2, d, j, y) ==
  \A z, c, i : Shows(e2, z, c, i) <=> IF c = d /\ i = j THEN z = y ELSE Shows(e, z, c, i)

\* x with another size.
Resized(x, v) == [path |-> x.path, dir |-> x.dir, size |-> v]

\* The nodes, with another size at path p.
ResizedAt(T, p, v) == {IF y.path = p THEN Resized(y, v) ELSE y : y \in T}

\* Then the tree has y in the place of what was there.
LEMMA TreeElse ==
  ASSUME NEW e, DirsSound(e), Dots(e), NEW e2, DirsSound(e2), Dots(e2), NEW d, NEW j, NEW x, Shows(e, x, d, j),
         NEW v, ShowsElse(e, e2, d, j, Resized(x, v))
  PROVE  /\ Tree(e2) = (Tree(e) \ {x}) \cup {Resized(x, v)}
         /\ Tree(e2) = ResizedAt(Tree(e), x.path, v)
<1>1. ASSUME NEW y PROVE (y \in Tree(e) <=> \E c, i : Shows(e, y, c, i)) /\ (y \in Tree(e2) <=> \E c, i : Shows(e2, y, c, i))
  BY TreeIs
<1>2. \A y, c, i : Shows(e, y, c, i) /\ y.path = x.path => c = d /\ i = j /\ y = x
  BY ShowsOnce
<1>3. \A y : Shows(e, y, d, j) => y = x
  <2>1. ASSUME NEW y, Shows(e, y, d, j) PROVE y = x
    <3>1. Leads(e, y.path, d, j) /\ Leads(e, x.path, d, j)
      BY <2>1 DEF Shows
    <3>2. y.path = x.path
      BY <3>1, LeadsFun
    <3> QED BY <2>1, <3>2, <1>2
  <2> QED BY <2>1
<1>4. ASSUME NEW y PROVE y \in Tree(e2) <=> (y \in Tree(e) /\ y # x) \/ y = Resized(x, v)
  <2>1. ASSUME y \in Tree(e2) PROVE (y \in Tree(e) /\ y # x) \/ y = Resized(x, v)
    <3>1. PICK c, i : Shows(e2, y, c, i)
      BY <1>1, <2>1
    <3>2. CASE c = d /\ i = j
      BY <3>1, <3>2 DEF ShowsElse
    <3>3. CASE ~(c = d /\ i = j)
      <4>1. Shows(e, y, c, i)
        BY <3>1, <3>3 DEF ShowsElse
      <4> QED BY <4>1, <3>3, <1>1, <1>2
    <3> QED BY <3>2, <3>3
  <2>2. ASSUME y \in Tree(e), y # x PROVE y \in Tree(e2)
    <3>1. PICK c, i : Shows(e, y, c, i)
      BY <1>1, <2>2
    <3>2. ~(c = d /\ i = j)
      BY <3>1, <2>2, <1>3
    <3>3. Shows(e2, y, c, i)
      BY <3>1, <3>2 DEF ShowsElse
    <3> QED BY <3>3, <1>1
  <2>3. ASSUME y = Resized(x, v) PROVE y \in Tree(e2)
    <3>1. Shows(e2, y, d, j)
      BY <2>3 DEF ShowsElse
    <3> QED BY <3>1, <1>1
  <2> QED BY <2>1, <2>2, <2>3
<1>5. \A y \in Tree(e) : y.path = x.path <=> y = x
  BY <1>1, <1>2
<1>6. x \in Tree(e)
  BY <1>1
<1>7. Tree(e2) = (Tree(e) \ {x}) \cup {Resized(x, v)}
  BY <1>4
<1>8. (Tree(e) \ {x}) \cup {Resized(x, v)} = ResizedAt(Tree(e), x.path, v)
  BY <1>5, <1>6 DEF ResizedAt
<1> QED BY <1>7, <1>8

\* What SetSize makes of a directory.
Sized(s, j, v) == [s EXCEPT ![j].size = v]

\* It has the same files.
LEMMA ResizedIs ==
  ASSUME NEW s, DirSound(s), NEW j \in Sfns(s), NEW v \in 0 .. MaxSize, NEW t, t = Sized(s, j, v)
  PROVE  /\ DirSound(t) /\ Sfns(t) = Sfns(s) /\ Evolves(s, t) /\ t[j].size = v
         /\ \A i \in Sfns(s) : SameFor(s, t, i) /\ (i # j => t[i].size = s[i].size)
<1>1. s \in Seq(Entry) /\ DOMAIN s = 1 .. Len(s) /\ Len(s) \in Nat
  BY DEF DirSound
<1>2. j \in DOMAIN s /\ s[j] \in Entry /\ s[j].kind = "sfn"
  BY At DEF Sfns
<1>3. /\ s[j].short \in AnyName /\ s[j].dir \in BOOLEAN /\ s[j].head \in Cluster \cup {Root, None}
      /\ s[j] = [kind |-> "sfn", short |-> s[j].short, dir |-> s[j].dir, head |-> s[j].head, size |-> s[j].size]
  BY <1>2, EntryIs
<1> DEFINE x == [s[j] EXCEPT !.size = v]
<1>4. x = [kind |-> "sfn", short |-> s[j].short, dir |-> s[j].dir, head |-> s[j].head, size |-> v]
  BY <1>3
<1>5. x \in Entry
  BY <1>3, <1>4, EntriesAre
<1>6. x.kind = "sfn" /\ x.short = s[j].short /\ x.dir = s[j].dir /\ x.head = s[j].head /\ x.size = v
  BY <1>4
<1>7. t = [s EXCEPT ![j] = x]
  BY DEF Sized
<1> HIDE DEF x
<1>8. t \in Seq(Entry) /\ DOMAIN t = DOMAIN s /\ t[j] = x /\ \A i \in DOMAIN s : i # j => t[i] = s[i]
  <2>1. t = [i \in 1 .. Len(s) |-> IF i = j THEN x ELSE s[i]]
    BY <1>1, <1>7
  <2>2. \A i \in 1 .. Len(s) : s[i] \in Entry
    BY <1>1
  <2>3. t \in [1 .. Len(s) -> Entry]
    BY <2>1, <2>2, <1>5
  <2> QED BY <2>1, <2>3, <1>1, <1>2
<1>9. Alike(s, t)
  BY <1>2, <1>6, <1>8 DEF Alike
<1>10. DirSound(t) /\ SameFiles(s, t)
  BY <1>9, AlikeSound
<1>11. Sfns(s) \subseteq DOMAIN s
  BY DEF Sfns
<1> QED BY <1>6, <1>8, <1>10, <1>11 DEF SameFiles, Evolves

\* fat_updateSfn changes the size of what the tree shows at one place.
LEMMA TreeResized ==
  ASSUME NEW e, DirsSound(e), Dots(e), NEW d \in DOMAIN e, NEW j \in Sfns(e[d]), NEW v \in 0 .. MaxSize,
         NEW t, t = Sized(e[d], j, v), NEW e2, Becomes(e, e2, d, t), NEW x, Shows(e, x, d, j)
  PROVE  /\ DirsSound(e2) /\ Dots(e2) /\ Evolves(e[d], t) /\ Sfns(t) = Sfns(e[d])
         /\ Tree(e2) = (Tree(e) \ {x}) \cup {Resized(x, v)}
         /\ Tree(e2) = ResizedAt(Tree(e), x.path, v)
<1>1. DirSound(e[d])
  BY DEF DirsSound
<1>2. /\ DirSound(t) /\ Sfns(t) = Sfns(e[d]) /\ Evolves(e[d], t) /\ t[j].size = v
      /\ \A i \in Sfns(e[d]) : SameFor(e[d], t, i) /\ (i # j => t[i].size = e[d][i].size)
  BY <1>1, ResizedIs
<1>3. DOMAIN e2 = DOMAIN e /\ e2[d] = t /\ \A c \in DOMAIN e : c # d => e2[c] = e[c]
  BY DEF DirsSound, Domains, Becomes
<1>4. DirsSound(e2) /\ Dots(e2)
  BY <1>2, ReplaceIs, DotsStay DEF Becomes
<1>5. \A c : SameTo(e, e2, c)
  BY <1>2, DirsStay
<1>6. ShowsElse(e, e2, d, j, Resized(x, v))
  <2>1. SUFFICES ASSUME NEW z, NEW c, NEW i
        PROVE  Shows(e2, z, c, i) <=> IF c = d /\ i = j THEN z = Resized(x, v) ELSE Shows(e, z, c, i)
    BY DEF ShowsElse
  <2>2. CASE c = d /\ i = j
    <3>1. Leads(e, x.path, d, j) /\ x.dir = e[d][j].dir /\ (d = Root \/ ~e[d][j].dir)
      BY DEF Shows
    <3>2. t[j].dir = e[d][j].dir /\ NameOf(t, j) = NameOf(e[d], j)
      BY <1>2 DEF SameFor
    <3>3. Leads(e2, x.path, d, j)
      BY <3>1, <3>2, <1>3, <1>5, LeadsSame
    <3>4. ShowsOnly(e2, d, j, [path |-> x.path, dir |-> e2[d][j].dir, size |-> e2[d][j].size])
      <4>1. d \in DOMAIN e2 /\ j \in Sfns(e2[d])
        BY <1>2, <1>3
      <4>2. d = Root \/ ~e2[d][j].dir
        BY <3>1, <3>2, <1>3
      <4> QED BY <4>1, <4>2, <3>3, <1>4, ShowsIs
    <3>5. e2[d][j].dir = x.dir /\ e2[d][j].size = v
      BY <3>1, <3>2, <1>2, <1>3
    <3>6. ShowsOnly(e2, d, j, Resized(x, v))
      BY <3>4, <3>5 DEF Resized
    <3> QED BY <3>6, <2>2 DEF ShowsOnly
  <2>3. CASE ~(c = d /\ i = j) /\ c \in DOMAIN e /\ i \in Sfns(e[c])
    <3>1. c \in DOMAIN e2 /\ i \in Sfns(e2[c]) /\ SameFor(e[c], e2[c], i) /\ e2[c][i].size = e[c][i].size
      <4>1. CASE c = d
        BY <4>1, <2>3, <1>2, <1>3
      <4>2. CASE c # d
        BY <4>2, <2>3, <1>3 DEF SameFor
      <4> QED BY <4>1, <4>2
    <3>2. Shows(e2, z, c, i) <=> Shows(e, z, c, i)
      BY <3>1, <2>3, <1>5, ShowsSame
    <3> QED BY <3>2, <2>3
  <2>4. CASE ~(c = d /\ i = j) /\ ~(c \in DOMAIN e /\ i \in Sfns(e[c]))
    <3>1. ~Shows(e, z, c, i) /\ ~Shows(e2, z, c, i)
      BY <2>4, <1>2, <1>3 DEF Shows
    <3> QED BY <3>1, <2>4
  <2> QED BY <2>2, <2>3, <2>4
<1>7. /\ Tree(e2) = (Tree(e) \ {x}) \cup {Resized(x, v)}
      /\ Tree(e2) = ResizedAt(Tree(e), x.path, v)
  BY <1>4, <1>6, TreeElse
<1> QED BY <1>2, <1>4, <1>7

-----------------------------------------------------------------------------
(* The paths of open files, and of those asked for *)

\* An open file has the path that leads to its entry.
PathRight(e, f) == f = None \/ (f \in FileRecord /\ Leads(e, f.path, f.at[1], f.at[2]))
PathsRight(e, f) == \A h \in Handle : PathRight(e, f[h])

\* It keeps it while its entry stays.
LEMMA PathsFollow ==
  ASSUME NEW e, DirsSound(e), NEW d \in DOMAIN e, NEW t, Evolves(e[d], t), NEW e2, Becomes(e, e2, d, t),
         NEW f, HandlesSound(e, f), PathsRight(e, f),
         \A h \in Handle : f[h] # None /\ f[h].at[1] = d => f[h].at[2] \in Sfns(t)
  PROVE  PathsRight(e2, f)
<1>1. DOMAIN e2 = DOMAIN e /\ e2[d] = t /\ \A c \in DOMAIN e : c # d => e2[c] = e[c]
  BY DEF DirsSound, Domains, Becomes
<1>2. \A c : SameTo(e, e2, c)
  BY DirsStay
<1>3. SUFFICES ASSUME NEW h \in Handle, f[h] # None, f[h] \in FileRecord, Leads(e, f[h].path, f[h].at[1], f[h].at[2])
      PROVE  Leads(e2, f[h].path, f[h].at[1], f[h].at[2])
  BY DEF PathsRight, PathRight
<1> DEFINE c == f[h].at[1]
           j == f[h].at[2]
<1>4. c \in DOMAIN e /\ j \in Sfns(e[c])
  BY <1>3 DEF HandlesSound, HandleSound
<1>5. c = d => j \in Sfns(t)
  BY <1>3
<1> HIDE DEF c, j
<1>6. NameOf(e2[c], j) = NameOf(e[c], j)
  BY <1>1, <1>4, <1>5 DEF Evolves, SameFor
<1> QED BY <1>2, <1>3, <1>6, LeadsSame DEF c, j

\* Canon gives the path that leads to a file of the directory the path asked for is in.
LEMMA CanonIs ==
  ASSUME DirsSound(entries), NEW p \in DirPath \cup FilePath, DirOf(p) # None
  PROVE  /\ DirOf(p) = Root => \A n : Canon(p, n) = <<n>>
         /\ DirOf(p) # Root => \E k : IsDirTo(entries, k, DirOf(p)) /\ \A n : Canon(p, n) = <<NameOf(entries[Root], k), n>>
         /\ p \in DirPath => DirOf(p) = Root
<1>1. Root \in DOMAIN entries /\ (\A d \in DOMAIN entries : DirSound(entries[d])) /\ HeadsSound(entries)
  BY DEF DirsSound, Domains
<1>2. p \in {<<n>> : n \in Name} \/ p \in {<<n, m>> : n \in Name, m \in Name}
  BY DirAssumption
<1>3. p \in DirPath => p \in {<<n>> : n \in Name}
  BY DirAssumption
<1>4. CASE p \in {<<n>> : n \in Name}
  <2>1. Len(p) = 1
    BY <1>4
  <2>2. DirOf(p) = Root
    BY <2>1 DEF DirOf
  <2> QED BY <2>1, <2>2 DEF Canon
<1>5. CASE p \in {<<n, m>> : n \in Name, m \in Name}
  <2>1. Len(p) = 2 /\ p[1] \in Name /\ p \notin DirPath
    BY <1>3, <1>5
  <2> DEFINE s == entries[Root]
             j == Match(s, p[1])
  <2>2. j # 0 /\ s[j].dir /\ DirOf(p) = s[j].head
    BY <2>1 DEF DirOf
  <2>3. j \in Sfns(s)
    BY <2>1, <2>2, <1>1, MatchIs DEF AnyName
  <2>4. \A n : Canon(p, n) = <<NameOf(s, j), n>>
    BY <2>1 DEF Canon
  <2> HIDE DEF j
  <2>5. IsDirTo(entries, j, DirOf(p)) /\ DirOf(p) # Root
    BY <2>2, <2>3, <1>1 DEF IsDirTo, HeadsSound
  <2> QED BY <2>1, <2>4, <2>5
<1> QED BY <1>2, <1>4, <1>5

\* So it leads there.
LEMMA CanonLeads ==
  ASSUME DirsSound(entries), NEW p \in DirPath \cup FilePath, DirOf(p) # None, NEW e2, SameTo(entries, e2, DirOf(p)),
         NEW j
  PROVE  Leads(e2, Canon(p, NameOf(e2[DirOf(p)], j)), DirOf(p), j)
<1>1. CASE DirOf(p) = Root
  BY <1>1, CanonIs DEF Leads
<1>2. CASE DirOf(p) # Root
  <2>1. PICK k : IsDirTo(entries, k, DirOf(p)) /\ \A n : Canon(p, n) = <<NameOf(entries[Root], k), n>>
    BY <1>2, CanonIs
  <2>2. IsDirTo(e2, k, DirOf(p)) /\ NameOf(e2[Root], k) = NameOf(entries[Root], k)
    BY <2>1 DEF SameTo
  <2> QED BY <2>1, <2>2, <1>2 DEF Leads
<1> QED BY <1>1, <1>2

\* The tree shows a directory that the root directory leads to.
LEMMA DirShown ==
  ASSUME NEW e, DirsSound(e), Dots(e), NEW k, NEW d, IsDirTo(e, k, d)
  PROVE  \E x \in Tree(e) : x.path = <<NameOf(e[Root], k)>> /\ x.dir
<1>1. Root \in DOMAIN e /\ k \in Sfns(e[Root]) /\ e[Root][k].dir
  BY DEF DirsSound, Domains, IsDirTo
<1> DEFINE p == <<NameOf(e[Root], k)>>
           x == [path |-> p, dir |-> e[Root][k].dir, size |-> e[Root][k].size]
<1>2. Leads(e, p, Root, k)
  BY DEF Leads
<1>3. ShowsOnly(e, Root, k, x)
  BY <1>1, <1>2, ShowsIs
<1>4. x.path = p /\ x.dir = e[Root][k].dir
  OBVIOUS
<1> HIDE DEF x
<1>5. x \in Tree(e)
  <2>1. Shows(e, x, Root, k)
    BY <1>3 DEF ShowsOnly
  <2> QED BY <2>1, TreeIs
<1> QED BY <1>1, <1>4, <1>5

\* Beginnings of paths.
LEMMA Beginnings ==
  ASSUME NEW a, NEW b
  PROVE  SubSeq(<<a, b>>, 1, Len(<<a, b>>) - 1) = <<a>> /\ SubSeq(<<a, b>>, 1, 1) = <<a>> /\ Len(<<a, b>>) > Len(<<a>>)
<1>1. Len(<<a, b>>) = 2 /\ Len(<<a>>) = 1
  OBVIOUS
<1>2. SubSeq(<<a, b>>, 1, 1) = <<a>>
  <2> DEFINE S == {a, b}
  <2>1. <<a, b>> \in Seq(S) /\ <<a, b>>[1] = a /\ <<a>> \in Seq(S) /\ <<a>>[1] = a
    OBVIOUS
  <2> HIDE DEF S
  <2>2. /\ SubSeq(<<a, b>>, 1, 1) \in Seq(S) /\ Len(SubSeq(<<a, b>>, 1, 1)) = 1
        /\ SubSeq(<<a, b>>, 1, 1)[1] = <<a, b>>[1]
    BY <2>1, <1>1, SubSeqProperties
  <2>3. \A i \in 1 .. 1 : i = 1
    OBVIOUS
  <2> QED BY <2>1, <2>2, <2>3, <1>1, SeqEqual
<1> QED BY <1>1, <1>2

\* Nothing is inside a file, or a directory that has only its first two entries.
LEMMA NothingInside ==
  ASSUME NEW e, DirsSound(e), Dots(e), NEW x, NEW d, NEW j, Shows(e, x, d, j),
         e[d][j].dir => Sfns(e[e[d][j].head]) = {1, 2},
         NEW y \in Tree(e), Len(y.path) > Len(x.path)
  PROVE  SubSeq(y.path, 1, Len(x.path)) # x.path
<1>1. Root \in DOMAIN e /\ (\A c \in DOMAIN e : DirSound(e[c])) /\ HeadsSound(e)
  BY DEF DirsSound, Domains
<1>2. PICK c, i : Shows(e, y, c, i)
  BY TreeIs
<1>3. Len(x.path) = IF d = Root THEN 1 ELSE 2
  BY PathsAre DEF Shows, Leads
<1>4. Len(y.path) = IF c = Root THEN 1 ELSE 2
  BY <1>2, PathsAre DEF Shows, Leads
<1>5. d = Root /\ c # Root
  BY <1>3, <1>4
<1>6. SUFFICES ASSUME SubSeq(y.path, 1, 1) = x.path PROVE FALSE
  BY <1>3, <1>5
<1>7. x.path = <<NameOf(e[Root], j)>> /\ j \in Sfns(e[Root])
  BY <1>5 DEF Shows, Leads
<1>8. PICK k : IsDirTo(e, k, c) /\ y.path = <<NameOf(e[Root], k), NameOf(e[c], i)>>
  BY <1>2, <1>5 DEF Shows, Leads
<1>9. NameOf(e[Root], k) = NameOf(e[Root], j)
  BY <1>6, <1>7, <1>8, Beginnings
<1>10. k = j
  BY <1>1, <1>7, <1>8, <1>9, NamesApart DEF IsDirTo
<1>11. Sfns(e[c]) = {1, 2}
  BY <1>5, <1>8, <1>10 DEF IsDirTo
<1>12. c \in DOMAIN e \ {Root} /\ i \in Sfns(e[c]) /\ ~e[c][i].dir
  BY <1>2, <1>5 DEF Shows
<1> QED BY <1>1, <1>11, <1>12 DEF HeadsSound

\* Beside the directories that there were, where they were, there is a new one.
Made(e2, t, c) ==
  /\ DOMAIN e2 = DOMAIN entries \cup {c} /\ e2[Root] = t /\ e2[c] = EmptyDirectory(c, Root)
  /\ \A x \in DOMAIN entries : (x # Root => e2[x] = entries[x]) /\ SameTo(entries, e2, x)

\* A new directory, with nothing of its own in it, leaves the others where they are.
LEMMA DirsStayMade ==
  ASSUME DirsSound(entries), NEW c \in Cluster, c \notin DOMAIN entries, c = Least(Free), NEW t, NEW J, NEW n,
         Added(entries[Root], t, J, n, TRUE, c), NEW e2, e2 = Kept(Root, t, {c})
  PROVE  Made(e2, t, c)
<1>1. Root \in DOMAIN entries /\ c # Root
  BY DEF DirsSound, Domains
<1>2. DOMAIN e2 = DOMAIN entries \cup {c} /\ e2[Root] = t /\ e2[c] = EmptyDirectory(c, Root)
      /\ \A x \in DOMAIN entries : x # Root => e2[x] = entries[x]
  BY <1>1 DEF Kept
<1>3. /\ Sfns(t) = Sfns(entries[Root]) \cup {J} /\ J \notin Sfns(entries[Root]) /\ t[J].head = c
      /\ \A j \in Sfns(entries[Root]) : SameFor(entries[Root], t, j)
  BY DEF Added
<1>4. ASSUME NEW x \in DOMAIN entries, NEW k
      PROVE  /\ IsDirTo(e2, k, x) <=> IsDirTo(entries, k, x)
             /\ IsDirTo(entries, k, x) => NameOf(e2[Root], k) = NameOf(entries[Root], k)
  <2>1. CASE k = J
    <3>1. ~IsDirTo(e2, k, x) /\ ~IsDirTo(entries, k, x)
      BY <2>1, <1>2, <1>3 DEF IsDirTo
    <3> QED BY <3>1
  <2>2. CASE k # J
    BY <2>2, <1>2, <1>3 DEF IsDirTo, SameFor
  <2> QED BY <2>1, <2>2
<1> QED BY <1>2, <1>4 DEF SameTo, Made

\* The tree has one more directory.
LEMMA TreeMakesDir ==
  ASSUME DirsSound(entries), Dots(entries), NEW c \in Cluster, c \notin DOMAIN entries, c = Least(Free),
         NEW t, NEW J, NEW n \in Name, Added(entries[Root], t, J, n, TRUE, c),
         NEW e2, e2 = Kept(Root, t, {c}), DirsSound(e2)
  PROVE  /\ Dots(e2) /\ (\A x \in Tree(entries) : x.path # <<n>>)
         /\ Tree(e2) = Tree(entries) \cup {[path |-> <<n>>, dir |-> TRUE, size |-> 0]}
<1> DEFINE u == EmptyDirectory(c, Root)
           r == entries[Root]
<1>1. Root \in DOMAIN entries /\ c # Root /\ EntryCount >= 2
  <2>1. EntryCount >= 2
    BY Consts
  <2> QED BY <2>1 DEF DirsSound, Domains
<1>2. DOMAIN e2 = DOMAIN entries \cup {c} /\ e2[Root] = t /\ e2[c] = u
      /\ \A x \in DOMAIN entries : (x # Root => e2[x] = entries[x]) /\ SameTo(entries, e2, x)
  <2>1. Made(e2, t, c)
    BY DirsStayMade
  <2> QED BY <2>1 DEF Made
<1>3. Sfns(u) = {1, 2} /\ u[1].dir /\ u[2].dir /\ u[1].short = Dot /\ u[2].short = DotDot
  BY <1>1, EmptyIs
<1> HIDE DEF u
<1>4. /\ Sfns(t) = Sfns(r) \cup {J} /\ J \notin Sfns(r) /\ (\A j \in Sfns(r) : SameFor(r, t, j))
      /\ NameOf(t, J) = n /\ t[J].dir = TRUE /\ t[J].size = 0 /\ t[J].short \in Called /\ SameSizes(r, t)
  BY DEF Added
<1>5. Called \cap {Dot, DotDot} = {}
  BY DirAssumption, MountAssumption DEF Called
<1>6. Dots(e2)
  <2>1. SUFFICES ASSUME NEW x \in DOMAIN e2, NEW j \in Sfns(e2[x])
        PROVE  e2[x][j].short \in {Dot, DotDot} <=> x # Root /\ e2[x][j].dir
    BY DEF Dots
  <2>2. CASE x = c
    BY <2>1, <2>2, <1>1, <1>2, <1>3
  <2>3. CASE x = Root /\ j = J
    BY <2>3, <1>2, <1>4, <1>5
  <2>4. CASE x = Root /\ j # J
    <3>1. SameFor(r, t, j) /\ j \in Sfns(r)
      BY <2>1, <2>4, <1>2, <1>4
    <3>2. r[j].short \notin {Dot, DotDot}
      BY <3>1, <1>1 DEF Dots
    <3> QED BY <3>1, <3>2, <2>4, <1>2 DEF SameFor
  <2>5. CASE x # Root /\ x # c
    BY <2>1, <2>5, <1>2 DEF Dots
  <2> QED BY <2>2, <2>3, <2>4, <2>5
<1> DEFINE y == [path |-> <<n>>, dir |-> t[J].dir, size |-> t[J].size]
<1>7. y = [path |-> <<n>>, dir |-> TRUE, size |-> 0]
  <2>1. PICK b \in BOOLEAN : b = TRUE
    OBVIOUS
  <2>2. t[J].dir = b
    BY <2>1, <1>4, Zenon
  <2>3. y = [path |-> <<n>>, dir |-> b, size |-> 0]
    BY <2>2, <1>4
  <2> QED BY <2>1, <2>3, Zenon
<1>8. ShowsOnly(e2, Root, J, y)
  <2>1. Root \in DOMAIN e2 /\ J \in Sfns(e2[Root]) /\ Leads(e2, <<n>>, Root, J)
    BY <1>1, <1>2, <1>4 DEF Leads
  <2> QED BY <2>1, <1>2, ShowsIs
<1>9. y.path = <<n>>
  OBVIOUS
<1> HIDE DEF y
<1>10. ShowsMore(entries, e2, Root, J, y)
  <2>1. SUFFICES ASSUME NEW x, NEW d, NEW j
        PROVE  Shows(e2, x, d, j) <=> Shows(entries, x, d, j) \/ (d = Root /\ j = J /\ x = y)
    BY DEF ShowsMore
  <2>2. CASE d = Root /\ j = J
    <3>1. ~Shows(entries, x, d, j)
      BY <2>2, <1>4 DEF Shows
    <3> QED BY <3>1, <2>2, <1>8 DEF ShowsOnly
  <2>3. CASE d = c
    <3>1. ~Shows(entries, x, d, j)
      BY <2>3 DEF Shows
    <3>2. ~Shows(e2, x, d, j)
      BY <2>3, <1>1, <1>2, <1>3 DEF Shows
    <3> QED BY <3>1, <3>2, <2>3, <1>1
  <2>4. CASE ~(d = Root /\ j = J) /\ d # c /\ d \in DOMAIN entries /\ j \in Sfns(entries[d])
    <3>1. d \in DOMAIN e2 /\ j \in Sfns(e2[d]) /\ SameFor(entries[d], e2[d], j) /\ e2[d][j].size = entries[d][j].size
      <4>1. CASE d = Root
        BY <4>1, <2>4, <1>2, <1>4 DEF SameSizes
      <4>2. CASE d # Root
        BY <4>2, <2>4, <1>2 DEF SameFor
      <4> QED BY <4>1, <4>2
    <3>2. SameTo(entries, e2, d)
      BY <2>4, <1>2
    <3>3. Shows(e2, x, d, j) <=> Shows(entries, x, d, j)
      BY <3>1, <3>2, <2>4, ShowsSame
    <3> QED BY <3>3, <2>4
  <2>5. CASE ~(d = Root /\ j = J) /\ d # c /\ ~(d \in DOMAIN entries /\ j \in Sfns(entries[d]))
    <3>1. ~Shows(e2, x, d, j) /\ ~Shows(entries, x, d, j)
      BY <2>5, <1>2, <1>4 DEF Shows
    <3> QED BY <3>1, <2>5
  <2> QED BY <2>2, <2>3, <2>4, <2>5
<1>11. (\A x \in Tree(entries) : x.path # y.path) /\ Tree(e2) = Tree(entries) \cup {y}
  BY <1>4, <1>6, <1>10, TreeWith
<1> QED BY <1>6, <1>7, <1>9, <1>11, Zenon

\* The open files have the paths they had.
LEMMA PathsMade ==
  ASSUME DirsSound(entries), NEW c, NEW t, NEW e2, Made(e2, t, c), \A j \in Sfns(entries[Root]) : SameFor(entries[Root], t, j),
         NEW f, HandlesSound(entries, f), PathsRight(entries, f)
  PROVE  PathsRight(e2, f)
<1>1. SUFFICES ASSUME NEW h \in Handle, f[h] # None, f[h] \in FileRecord, Leads(entries, f[h].path, f[h].at[1], f[h].at[2])
      PROVE  Leads(e2, f[h].path, f[h].at[1], f[h].at[2])
  BY DEF PathsRight, PathRight
<1> DEFINE d == f[h].at[1]
           j == f[h].at[2]
<1>2. d \in DOMAIN entries /\ j \in Sfns(entries[d])
  BY <1>1 DEF HandlesSound, HandleSound
<1> HIDE DEF d, j
<1>3. SameTo(entries, e2, d) /\ NameOf(e2[d], j) = NameOf(entries[d], j)
  BY <1>2 DEF Made, SameFor
<1> QED BY <1>1, <1>3, LeadsSame DEF d, j

\* The root directory is without directory `sub`, whose entry was at j.
Dropped(e, e2, sub, j) ==
  e2 = [c \in DOMAIN e \ {sub} |-> IF c = Root THEN Without(e[Root], j) ELSE e[c]]

\* Then the others are where they were.
LEMMA DirsStayDropped ==
  ASSUME NEW e, DirsSound(e), NEW j \in Sfns(e[Root]), e[Root][j].dir, NEW sub, sub = e[Root][j].head,
         NEW e2, Dropped(e, e2, sub, j)
  PROVE  /\ \A c \in DOMAIN e2 : c \in DOMAIN e /\ c # sub /\ SameTo(e, e2, c)
         /\ Root \in DOMAIN e2 /\ Root # sub /\ e2[Root] = Without(e[Root], j)
<1>1. Root \in DOMAIN e /\ DirSound(e[Root]) /\ HeadsSound(e)
  BY DEF DirsSound, Domains
<1>2. sub # Root
  BY <1>1 DEF HeadsSound
<1>3. DOMAIN e2 = DOMAIN e \ {sub} /\ e2[Root] = Without(e[Root], j)
  BY <1>1, <1>2 DEF Dropped
<1> DEFINE t == Without(e[Root], j)
<1>4. Sfns(t) = Sfns(e[Root]) \ {j} /\ \A i \in Sfns(t) : SameFor(e[Root], t, i)
  BY <1>1, EraseIs
<1> HIDE DEF t
<1>5. ASSUME NEW c, c # sub, NEW k
      PROVE  /\ IsDirTo(e2, k, c) <=> IsDirTo(e, k, c)
             /\ IsDirTo(e, k, c) => NameOf(e2[Root], k) = NameOf(e[Root], k)
  <2>1. e2[Root] = t
    BY <1>3 DEF t
  <2>2. CASE k = j
    <3>1. ~IsDirTo(e2, k, c) /\ ~IsDirTo(e, k, c)
      BY <2>1, <2>2, <1>4, <1>5 DEF IsDirTo
    <3> QED BY <3>1
  <2>3. CASE k # j
    BY <2>1, <2>3, <1>4 DEF IsDirTo, SameFor
  <2> QED BY <2>2, <2>3
<1> QED BY <1>1, <1>2, <1>3, <1>5 DEF SameTo

\* The tree has one directory less.
LEMMA TreeDropsDir ==
  ASSUME NEW e, DirsSound(e), Dots(e), NEW j \in Sfns(e[Root]), e[Root][j].dir, NEW sub, sub = e[Root][j].head,
         Sfns(e[sub]) = {1, 2}, NEW e2, Dropped(e, e2, sub, j), DirsSound(e2), NEW x, Shows(e, x, Root, j)
  PROVE  Dots(e2) /\ Tree(e2) = Tree(e) \ {x}
<1>1. Root \in DOMAIN e /\ sub \in DOMAIN e \ {Root} /\ HeadsSound(e) /\ DirSound(e[Root])
  BY DEF DirsSound, Domains, HeadsSound
<1>2. /\ \A c \in DOMAIN e2 : SameTo(e, e2, c)
      /\ DOMAIN e2 = DOMAIN e \ {sub} /\ e2[Root] = Without(e[Root], j)
      /\ \A c \in DOMAIN e2 : c # Root => e2[c] = e[c]
  <2>1. \A c \in DOMAIN e2 : SameTo(e, e2, c)
    BY DirsStayDropped
  <2> QED BY <2>1, <1>1 DEF Dropped
<1> DEFINE t == Without(e[Root], j)
<1>3. Sfns(t) = Sfns(e[Root]) \ {j} /\ (\A i \in Sfns(t) : SameFor(e[Root], t, i)) /\ SameSizes(e[Root], t)
  BY <1>1, EraseIs
<1>4. e2[Root] = t
  BY <1>2
<1> HIDE DEF t
<1>5. Dots(e2)
  <2>1. SUFFICES ASSUME NEW c \in DOMAIN e2, NEW i \in Sfns(e2[c])
        PROVE  e2[c][i].short \in {Dot, DotDot} <=> c # Root /\ e2[c][i].dir
    BY DEF Dots
  <2>2. CASE c = Root
    <3>1. SameFor(e[Root], t, i) /\ i \in Sfns(e[Root])
      BY <2>1, <2>2, <1>3, <1>4
    <3> QED BY <3>1, <2>2, <1>1, <1>4 DEF Dots, SameFor
  <2>3. CASE c # Root
    BY <2>1, <2>3, <1>2 DEF Dots
  <2> QED BY <2>2, <2>3
<1>6. ShowsLess(e, e2, Root, j)
  <2>1. SUFFICES ASSUME NEW y, NEW c, NEW i PROVE Shows(e2, y, c, i) <=> Shows(e, y, c, i) /\ ~(c = Root /\ i = j)
    BY DEF ShowsLess
  <2>2. CASE c = sub
    <3>1. ~Shows(e2, y, c, i)
      BY <2>2, <1>2 DEF Shows
    <3>2. ~Shows(e, y, c, i)
      BY <2>2, <1>1 DEF Shows, HeadsSound
    <3> QED BY <3>1, <3>2
  <2>3. CASE c \in DOMAIN e /\ c # sub /\ i \in Sfns(e[c]) /\ ~(c = Root /\ i = j)
    <3>1. c \in DOMAIN e2 /\ i \in Sfns(e2[c]) /\ SameFor(e[c], e2[c], i) /\ e2[c][i].size = e[c][i].size
      <4>1. CASE c = Root
        BY <4>1, <2>3, <1>2, <1>3, <1>4 DEF SameSizes
      <4>2. CASE c # Root
        BY <4>2, <2>3, <1>2 DEF SameFor
      <4> QED BY <4>1, <4>2
    <3>2. SameTo(e, e2, c)
      BY <3>1, <1>2
    <3>3. Shows(e2, y, c, i) <=> Shows(e, y, c, i)
      BY <3>1, <3>2, <2>3, ShowsSame
    <3> QED BY <3>3, <2>3
  <2>4. CASE c # sub /\ (~(c \in DOMAIN e /\ i \in Sfns(e[c])) \/ (c = Root /\ i = j))
    <3>1. ~Shows(e2, y, c, i)
      BY <2>4, <1>2, <1>3, <1>4 DEF Shows
    <3>2. Shows(e, y, c, i) => c = Root /\ i = j
      BY <2>4 DEF Shows
    <3> QED BY <3>1, <3>2
  <2> QED BY <2>2, <2>3, <2>4
<1> QED BY <1>5, <1>6, TreeWithout

\* The open files have the paths they had.
LEMMA PathsDropped ==
  ASSUME NEW e, DirsSound(e), NEW j \in Sfns(e[Root]), e[Root][j].dir, NEW sub, sub = e[Root][j].head,
         Sfns(e[sub]) = {1, 2}, NEW e2, Dropped(e, e2, sub, j), NEW f, HandlesSound(e, f), PathsRight(e, f)
  PROVE  PathsRight(e2, f)
<1>1. SUFFICES ASSUME NEW h \in Handle, f[h] # None, f[h] \in FileRecord, Leads(e, f[h].path, f[h].at[1], f[h].at[2])
      PROVE  Leads(e2, f[h].path, f[h].at[1], f[h].at[2])
  BY DEF PathsRight, PathRight
<1> DEFINE d == f[h].at[1]
           i == f[h].at[2]
<1>2. d \in DOMAIN e /\ i \in Sfns(e[d]) /\ ~e[d][i].dir
  BY <1>1 DEF HandlesSound, HandleSound
<1> HIDE DEF d, i
<1>3. sub \in DOMAIN e \ {Root} /\ HeadsSound(e) /\ DirSound(e[Root])
  BY DEF DirsSound, Domains, HeadsSound
<1>4. d # sub
  BY <1>2, <1>3 DEF HeadsSound
<1>5. d \in DOMAIN e2 /\ SameTo(e, e2, d)
  <2>1. d \in DOMAIN e2
    BY <1>2, <1>4 DEF Dropped
  <2> QED BY <2>1, DirsStayDropped
<1>6. NameOf(e2[d], i) = NameOf(e[d], i)
  <2>1. CASE d = Root
    <3> DEFINE t == Without(e[Root], j)
    <3>1. Sfns(t) = Sfns(e[Root]) \ {j} /\ \A k \in Sfns(t) : SameFor(e[Root], t, k)
      BY <1>3, EraseIs
    <3>2. e2[d] = t
      BY <2>1, <1>5 DEF Dropped
    <3> HIDE DEF t
    <3>3. i \in Sfns(t)
      BY <3>1, <2>1, <1>2
    <3> QED BY <3>1, <3>2, <3>3, <2>1 DEF SameFor
  <2>2. CASE d # Root
    BY <2>2, <1>5 DEF Dropped
  <2> QED BY <2>1, <2>2
<1> QED BY <1>1, <1>5, <1>6, LeadsSame DEF d, i

-----------------------------------------------------------------------------
(* The steps, as the names see them *)

\* What NameTree knows of an open file.
Fields(r) == [path |-> r.path, size |-> r.size, write |-> r.write, grew |-> r.grew]

\* The open files, as NameTree knows them.
Opens(f) ==
  [h \in Handle |-> IF f[h] = None THEN None
                    ELSE [path |-> f[h].path, size |-> f[h].size, write |-> f[h].write, grew |-> f[h].grew]]

\* A file that is open is not taken for none.
LEMMA OpensAt ==
  ASSUME NEW f, NEW h \in Handle
  PROVE  /\ f[h] = None => Opens(f)[h] = None
         /\ f[h] # None => Opens(f)[h] = Fields(f[h])
         /\ f[h] \in FileRecord => f[h] # None /\ Opens(f)[h] # None
<1>1. f[h] = None => Opens(f)[h] = None
  BY DEF Opens
<1>2. f[h] # None => Opens(f)[h] = Fields(f[h])
  BY DEF Opens, Fields
<1>3. ASSUME f[h] \in FileRecord PROVE f[h] # None /\ Opens(f)[h] # None
  <2>1. f[h] # None
    BY <1>3, MountAssumption
  <2>2. f[h].path \in Path /\ f[h].size \in 0 .. MaxSize /\ f[h].write \in BOOLEAN /\ f[h].grew \in BOOLEAN
    BY <1>3 DEF FileRecord
  <2>3. Fields(f[h]) \in [path : Path, size : 0 .. MaxSize, write : BOOLEAN, grew : BOOLEAN]
    BY <2>2 DEF Fields
  <2> QED BY <2>1, <2>3, <1>2, MountAssumption
<1> QED BY <1>1, <1>2, <1>3

Held(r) == IF r = None THEN None ELSE Fields(r)

\* A handle gets another record.
LEMMA OpensSet ==
  ASSUME NEW f, f = [g \in Handle |-> f[g]], NEW h \in Handle, NEW r, NEW f2, Becomes(f, f2, h, r)
  PROVE  Opens(f2) = [Opens(f) EXCEPT ![h] = Held(r)]
<1>1. f2 = [g \in Handle |-> IF g = h THEN r ELSE f[g]]
  BY DEF Becomes
<1>2. \A g \in Handle : f2[g] = IF g = h THEN r ELSE f[g]
  BY <1>1
<1>3. Opens(f2) = [g \in Handle |-> IF g = h THEN Held(r) ELSE Opens(f)[g]]
  BY <1>2 DEF Opens, Fields, Held
<1>4. Opens(f) = [g \in Handle |-> Opens(f)[g]]
  BY DEF Opens
<1> QED BY <1>3, <1>4

\* The calls of NameTree, when the open files are those of `handle`.
NoneHas(T, p) == \A x \in T : x.path # p
ParentIn(T, p) == Len(p) > 1 => \E x \in T : x.path = SubSeq(p, 1, Len(p) - 1) /\ x.dir

\* A file is created.
LEMMA Creates ==
  ASSUME NEW h \in Handle, NEW p \in Path, Opens(handle)[h] = None, NoneHas(tree, p), ParentIn(tree, p),
         tree' = tree \cup {[path |-> p, dir |-> FALSE, size |-> 0]}, slip' = slip,
         Opens(handle)' = [Opens(handle) EXCEPT ![h] = [path |-> p, size |-> 0, write |-> TRUE, grew |-> FALSE]]
  PROVE  Names!Next
<1>1. PICK b \in BOOLEAN : b = FALSE
  OBVIOUS
<1> DEFINE x == [path |-> p, dir |-> b, size |-> 0]
<1>2. x \in Names!Node /\ x.path = p /\ x.size = 0 /\ x.dir = b
  BY Consts DEF Names!Node
<1>3. tree' = tree \cup {x}
  BY <1>1, Zenon
<1> HIDE DEF x
<1>4. Names!Adds(x) /\ ~x.dir
  BY <1>1, <1>2, <1>3 DEF Names!Adds, Names!At, Names!Parent, NoneHas, ParentIn
<1>5. Names!CreateFile(h, x)
  BY <1>2, <1>4 DEF Names!CreateFile, Opens
<1>6. x \in tree' \cap Names!Node
  BY <1>2, <1>3
<1> QED BY <1>5, <1>6 DEF Names!Next

\* A file is opened.
LEMMA OpensFile ==
  ASSUME NEW h \in Handle, NEW x \in tree, NEW write \in BOOLEAN, NEW trunc \in BOOLEAN,
         NEW size, size = IF trunc THEN 0 ELSE x.size,
         Opens(handle)[h] = None, ~x.dir, trunc => write,
         tree' = (tree \ {x}) \cup {Resized(x, size)}, x = Resized(x, x.size), slip' = slip,
         Opens(handle)' = [Opens(handle) EXCEPT ![h] = [path |-> x.path, size |-> size, write |-> write, grew |-> FALSE]]
  PROVE  Names!Next
<1>1. [x EXCEPT !.size = size] = Resized(x, size)
  BY DEF Resized
<1>2. Names!OpenFile(h, x, write, trunc)
  BY <1>1 DEF Names!OpenFile, Opens
<1> QED BY <1>2 DEF Names!Next

\* A file is written to.
LEMMA Writes ==
  ASSUME NEW h \in Handle, Opens(handle)[h] # None, Opens(handle)[h].write, NEW n \in 0 .. MaxSize,
         n > Opens(handle)[h].size, tree' = tree, slip' = slip,
         Opens(handle)' = [Opens(handle) EXCEPT ![h].size = n, ![h].grew = TRUE]
  PROVE  Names!Next
<1>1. Names!WriteFile(h)
  BY DEF Names!WriteFile, Opens
<1> QED BY <1>1 DEF Names!Next

\* A file is closed.
LEMMA Closes ==
  ASSUME NEW h \in Handle, Opens(handle)[h] # None, slip' = slip,
         tree' = IF Opens(handle)[h].grew THEN ResizedAt(tree, Opens(handle)[h].path, Opens(handle)[h].size) ELSE tree,
         \A x \in tree : x = Resized(x, x.size),
         Opens(handle)' = [Opens(handle) EXCEPT ![h] = None]
  PROVE  Names!Next
<1> DEFINE o == Opens(handle)[h]
<1>1. ResizedAt(tree, o.path, o.size) = {IF x.path = o.path THEN [x EXCEPT !.size = o.size] ELSE x : x \in tree}
  <2>1. \A x \in tree : [x EXCEPT !.size = o.size] = Resized(x, o.size)
    BY DEF Resized
  <2> HIDE DEF o
  <2> QED BY <2>1 DEF ResizedAt
<1>2. Names!CloseFile(h)
  BY <1>1 DEF Names!CloseFile, Opens
<1> QED BY <1>2 DEF Names!Next

\* A directory is made.
LEMMA MakesDir ==
  ASSUME NEW p \in Path, NoneHas(tree, p), ParentIn(tree, p),
         tree' = tree \cup {[path |-> p, dir |-> TRUE, size |-> 0]}, slip' = slip, Opens(handle)' = Opens(handle)
  PROVE  Names!Next
<1>1. PICK b \in BOOLEAN : b = TRUE
  OBVIOUS
<1> DEFINE x == [path |-> p, dir |-> b, size |-> 0]
<1>2. x \in Names!Node /\ x.path = p /\ x.size = 0 /\ x.dir = b
  BY Consts DEF Names!Node
<1>3. tree' = tree \cup {x}
  BY <1>1, Zenon
<1> HIDE DEF x
<1>4. Names!Adds(x) /\ x.dir
  BY <1>1, <1>2, <1>3 DEF Names!Adds, Names!At, Names!Parent, NoneHas, ParentIn
<1>5. Names!MakeDirectory(x)
  BY <1>4 DEF Names!MakeDirectory, Opens
<1>6. x \in tree' \cap Names!Node
  BY <1>2, <1>3
<1> QED BY <1>5, <1>6 DEF Names!Next

\* A file or a directory is removed.
LEMMA Removes ==
  ASSUME NEW x \in tree, \A y \in tree : Len(y.path) > Len(x.path) => SubSeq(y.path, 1, Len(x.path)) # x.path,
         tree' = tree \ {x}, slip' = slip, Opens(handle)' = Opens(handle)
  PROVE  Names!Next
<1>1. Names!Inside(x.path) = {}
  BY DEF Names!Inside
<1>2. Names!RemoveNode(x)
  BY <1>1 DEF Names!RemoveNode, Opens
<1> QED BY <1>2 DEF Names!Next

\* What NameTree sees of the directories and the open files.
Seen == <<tree, Opens(handle), slip>>

\* What is tied to the tree of names.
Tied(T, e, f) == T = Tree(e) /\ Dots(e) /\ PathsRight(e, f)

\* A node has the fields it has.
LEMMA NodeIs ==
  ASSUME NEW e, DirsSound(e), Dots(e), NEW x \in Tree(e)
  PROVE  x = Resized(x, x.size)
<1>1. PICK d, j : Shows(e, x, d, j)
  BY TreeIs
<1> QED BY <1>1 DEF Shows, Resized

\* A path leads to each place of a directory that is asked for.
LEMMA PlaceShown ==
  ASSUME DirsSound(entries), Dots(entries), NEW p \in DirPath \cup FilePath, DirOf(p) # None,
         DirOf(p) \in DOMAIN entries, NEW j \in Sfns(entries[DirOf(p)]), DirOf(p) = Root \/ ~entries[DirOf(p)][j].dir,
         NEW q, q = Canon(p, NameOf(entries[DirOf(p)], j))
  PROVE  \E x \in Tree(entries) : /\ Shows(entries, x, DirOf(p), j) /\ x.path = q /\ q \in Path
                                  /\ x.size = entries[DirOf(p)][j].size /\ (x.dir <=> entries[DirOf(p)][j].dir)
<1> DEFINE d == DirOf(p)
           y == [path |-> q, dir |-> entries[d][j].dir, size |-> entries[d][j].size]
<1>1. Leads(entries, q, d, j)
  <2>1. SameTo(entries, entries, d)
    BY DEF SameTo
  <2> QED BY <2>1, CanonLeads
<1> HIDE DEF d
<1>2. ShowsOnly(entries, d, j, y)
  <2>1. d \in DOMAIN entries /\ j \in Sfns(entries[d]) /\ (d = Root \/ ~entries[d][j].dir)
    BY DEF d
  <2> QED BY <1>1, <2>1, ShowsIs
<1>3. y.path = q /\ y.size = entries[d][j].size /\ y.dir = entries[d][j].dir
  OBVIOUS
<1> HIDE DEF y
<1>4. Shows(entries, y, d, j)
  BY <1>2 DEF ShowsOnly
<1>5. y \in Tree(entries) /\ q \in Path
  BY <1>3, <1>4, TreeIs, ShowsTyped
<1> QED BY <1>3, <1>4, <1>5 DEF d

\* What fsRec holds of a file.
LEMMA RecordIn ==
  ASSUME NEW d \in Cluster \cup {Root}, NEW j \in Nat, NEW name \in Called, NEW path \in Path, NEW size \in 0 .. MaxSize,
         NEW write \in BOOLEAN, NEW grew \in BOOLEAN
  PROVE  [at |-> <<d, j>>, name |-> name, path |-> path, size |-> size, write |-> write, grew |-> grew] \in FileRecord
BY DEF FileRecord

\* A handle is given to the file that its path leads to.
LEMMA AttachTied ==
  ASSUME NEW e2, NEW f, PathsRight(e2, f), f = [g \in Handle |-> f[g]], NEW h \in Handle,
         NEW d \in Cluster \cup {Root}, NEW j \in Nat, NEW q \in Path, Leads(e2, q, d, j),
         NEW name \in Called, NEW size \in 0 .. MaxSize, NEW write \in BOOLEAN, NEW grew \in BOOLEAN,
         NEW f2, f2 = [f EXCEPT ![h] = [at |-> <<d, j>>, name |-> name, path |-> q, size |-> size,
                                        write |-> write, grew |-> grew]]
  PROVE  /\ PathsRight(e2, f2)
         /\ Opens(f2) = [Opens(f) EXCEPT ![h] = [path |-> q, size |-> size, write |-> write, grew |-> grew]]
<1> DEFINE r == [at |-> <<d, j>>, name |-> name, path |-> q, size |-> size, write |-> write, grew |-> grew]
<1>1. r \in FileRecord
  BY RecordIn
<1>2. r.path = q /\ r.at[1] = d /\ r.at[2] = j
      /\ Fields(r) = [path |-> q, size |-> size, write |-> write, grew |-> grew]
  BY DEF Fields
<1>3. f2 = [f EXCEPT ![h] = r]
  OBVIOUS
<1> HIDE DEF r
<1>4. r # None
  BY <1>1, MountAssumption
<1>5. \A g \in Handle : f2[g] = IF g = h THEN r ELSE f[g]
  BY <1>3
<1>6. PathsRight(e2, f2)
  BY <1>1, <1>2, <1>5 DEF PathsRight, PathRight
<1>7. Opens(f2) = [Opens(f) EXCEPT ![h] = Held(r)]
  <2>1. Becomes(f, f2, h, r)
    BY <1>3 DEF Becomes
  <2> QED BY <2>1, OpensSet
<1> QED BY <1>2, <1>4, <1>6, <1>7 DEF Held

\* SetSize changes one directory.
LEMMA SetSizeIs ==
  ASSUME NEW d, NEW j, NEW v
  PROVE  SetSize(<<d, j>>, v) = [entries EXCEPT ![d] = Sized(entries[d], j, v)]
BY DEF SetSize, Sized

\* fs_open of a file that is there.
LEMMA OpenThereTold ==
  ASSUME Sound(entries, handle, list), Tied(tree, entries, handle), NEW h \in Handle, NEW p \in FilePath,
         OpenThere(h, p), tree' = Tree(entries')
  PROVE  Tied(tree', entries', handle') /\ Names!Next
<1> DEFINE d == DirOf(p)
           n == p[Len(p)]
           j == Match(entries[d], n)
           q == Canon(p, NameOf(entries[d], j))
<1>1. d # None /\ j # 0 /\ ~entries[d][j].dir /\ handle[h] = None /\ slip' = slip
  BY DEF OpenThere
<1>2. PICK write \in BOOLEAN, trunc \in BOOLEAN :
        /\ trunc => write
        /\ entries' = IF trunc THEN SetSize(<<d, j>>, 0) ELSE entries
        /\ Attach(h, p, <<d, j>>, NameOf(entries[d], j), q, IF trunc THEN 0 ELSE entries[d][j].size, write)
  BY DEF OpenThere
<1>3. DirsSound(entries) /\ Domains(entries) /\ HandlesSound(entries, handle)
  BY DEF Sound, DirsSound
<1>4. Dots(entries) /\ PathsRight(entries, handle) /\ tree = Tree(entries)
  BY DEF Tied
<1>5. /\ d \in DOMAIN entries /\ DirSound(entries[d]) /\ j \in Sfns(entries[d]) /\ j \in Nat
      /\ ~entries[d][j].dir /\ entries[d][j].size \in 0 .. MaxSize
  BY <1>1, <1>3, Matched
<1>6. PICK x \in Tree(entries) : /\ Shows(entries, x, d, j) /\ x.path = q /\ q \in Path
                                 /\ x.size = entries[d][j].size /\ ~x.dir
  <2> HIDE DEF n, j
  <2> QED BY <1>1, <1>3, <1>4, <1>5, PlaceShown
<1>7. NameOf(entries[d], j) \in Called
  <2>1. entries[d][j].short \notin {Dot, DotDot}
    BY <1>4, <1>5 DEF Dots
  <2> HIDE DEF d, n, j
  <2> QED BY <2>1, <1>5, CalledIs
<1>8. 0 \in 0 .. MaxSize /\ d \in Cluster \cup {Root}
  BY <1>3, <1>5, Consts DEF Domains
<1> DEFINE size == IF trunc THEN 0 ELSE x.size
<1>9. size \in 0 .. MaxSize
  BY <1>5, <1>6, <1>8
<1>10. d # None /\ \A e2 : SameTo(entries, e2, d) => Leads(e2, Canon(p, NameOf(e2[d], j)), d, j)
  BY <1>1, <1>3, CanonLeads
<1> HIDE DEF n, j
<1>11. Leads(entries', q, d, j) /\ Dots(entries') /\ PathsRight(entries', handle)
       /\ tree' = (tree \ {x}) \cup {Resized(x, size)}
  <2>1. CASE ~trunc
    <3>1. entries' = entries /\ size = x.size
      BY <2>1, <1>2
    <3>2. Resized(x, size) = x
      BY <3>1, <1>3, <1>4, NodeIs
    <3>3. tree' = tree
      BY <3>1, <1>4
    <3>4. SameTo(entries, entries, d)
      BY DEF SameTo
    <3>5. Leads(entries, q, d, j)
      BY <3>4, <1>10
    <3> HIDE DEF size, q, d
    <3> QED BY <3>1, <3>2, <3>3, <3>5, <1>4, <1>6
  <2>2. CASE trunc
    <3> DEFINE t == Sized(entries[d], j, 0)
    <3>1. Becomes(entries, entries', d, t) /\ size = 0
      BY <2>2, <1>2, SetSizeIs DEF Becomes
    <3>2. t = Sized(entries[d], j, 0)
      OBVIOUS
    <3>3. d \in DOMAIN entries /\ j \in Sfns(entries[d]) /\ Shows(entries, x, d, j) /\ DirSound(entries[d])
      BY <1>5, <1>6
    <3> HIDE DEF t, size, q, d
    <3>4. /\ Dots(entries') /\ Evolves(entries[d], t) /\ Sfns(t) = Sfns(entries[d])
          /\ Tree(entries') = (Tree(entries) \ {x}) \cup {Resized(x, 0)}
      BY <3>1, <3>2, <3>3, <1>3, <1>4, <1>8, TreeResized
    <3>5. SameTo(entries, entries', d)
      BY <3>1, <3>3, <3>4, <1>3, DirsStay
    <3>6. NameOf(entries'[d], j) = NameOf(entries[d], j)
      <4>1. entries'[d] = t
        BY <3>1, <3>3, <1>3 DEF Domains, Becomes
      <4> QED BY <4>1, <3>3, <3>4 DEF Evolves, SameFor
    <3>7. Leads(entries', q, d, j)
      BY <3>5, <3>6, <1>10 DEF q
    <3>8. PathsRight(entries', handle)
      <4>1. \A g \in Handle : handle[g] # None /\ handle[g].at[1] = d => handle[g].at[2] \in Sfns(t)
        BY <3>4, <1>3 DEF HandlesSound, HandleSound
      <4> QED BY <4>1, <3>1, <3>3, <3>4, <1>3, <1>4, PathsFollow
    <3> QED BY <3>1, <3>4, <3>7, <3>8, <1>4
  <2> QED BY <2>1, <2>2
<1>12. PICK g \in BOOLEAN : g = FALSE
  OBVIOUS
<1>13. handle' = [handle EXCEPT ![h] = [at |-> <<d, j>>, name |-> NameOf(entries[d], j), path |-> q,
                                        size |-> size, write |-> write, grew |-> g]]
  <2>1. size = IF trunc THEN 0 ELSE entries[d][j].size
    BY <1>6
  <2> HIDE DEF size, q, d
  <2> QED BY <2>1, <1>2, <1>12, Zenon DEF Attach
<1>14. handle = [i \in Handle |-> handle[i]]
  BY <1>3 DEF HandlesSound
<1> HIDE DEF q, d
<1>15. size = IF trunc THEN 0 ELSE x.size
  OBVIOUS
<1> HIDE DEF size
<1>16. /\ PathsRight(entries', handle')
       /\ Opens(handle') = [Opens(handle) EXCEPT ![h] = [path |-> q, size |-> size, write |-> write, grew |-> g]]
  BY <1>5, <1>6, <1>7, <1>8, <1>9, <1>11, <1>13, <1>14, AttachTied
<1>17. Tied(tree', entries', handle')
  BY <1>11, <1>16 DEF Tied
<1>18. Names!Next
  <2>1. Opens(handle)' = [Opens(handle) EXCEPT ![h] = [path |-> x.path, size |-> size, write |-> write, grew |-> FALSE]]
    <3>1. Opens(handle)' = Opens(handle')
      BY DEF Opens
    <3> QED BY <3>1, <1>6, <1>12, <1>16, Zenon
  <2>2. Opens(handle)[h] = None
    BY <1>1, OpensAt
  <2>3. x \in tree /\ x = Resized(x, x.size) /\ ~x.dir
    BY <1>3, <1>4, <1>6, NodeIs
  <2> QED BY <2>1, <2>2, <2>3, <1>1, <1>2, <1>11, <1>15, OpensFile
<1> QED BY <1>17, <1>18

\* What is known of an open file.
LEMMA OpenedIs ==
  ASSUME HandlesSound(entries, handle), PathsRight(entries, handle), Dots(entries), DirsSound(entries),
         NEW h \in Handle, handle[h] # None
  PROVE  \E d \in DOMAIN entries, j \in Nat : \E x \in Tree(entries) :
           /\ handle[h].at = <<d, j>> /\ j \in Sfns(entries[d]) /\ ~entries[d][j].dir
           /\ Shows(entries, x, d, j) /\ x.path = handle[h].path /\ handle[h] \in FileRecord
<1>1. /\ handle[h].at \in (DOMAIN entries) \X Nat
      /\ handle[h].at[2] \in Sfns(entries[handle[h].at[1]]) /\ ~entries[handle[h].at[1]][handle[h].at[2]].dir
  BY DEF HandlesSound, HandleSound
<1>2. PICK d \in DOMAIN entries, j \in Nat : handle[h].at = <<d, j>>
  BY <1>1
<1>3. j \in Sfns(entries[d]) /\ ~entries[d][j].dir
  BY <1>1, <1>2
<1>4. handle[h] \in FileRecord /\ Leads(entries, handle[h].path, d, j)
  BY <1>2 DEF PathsRight, PathRight
<1> DEFINE x == [path |-> handle[h].path, dir |-> entries[d][j].dir, size |-> entries[d][j].size]
<1>5. ShowsOnly(entries, d, j, x)
  BY <1>3, <1>4, ShowsIs
<1>6. x.path = handle[h].path
  OBVIOUS
<1> HIDE DEF x
<1>7. Shows(entries, x, d, j)
  BY <1>5 DEF ShowsOnly
<1>8. x \in Tree(entries)
  BY <1>7, TreeIs
<1> QED BY <1>2, <1>3, <1>4, <1>6, <1>7, <1>8

\* fs_close.
LEMMA CloseTold ==
  ASSUME Sound(entries, handle, list), Tied(tree, entries, handle), NEW h \in Handle, Close(h), tree' = Tree(entries')
  PROVE  Tied(tree', entries', handle') /\ Names!Next
<1>1. handle[h] # None /\ handle' = [handle EXCEPT ![h] = None] /\ slip' = slip
      /\ entries' = IF handle[h].grew THEN SetSize(handle[h].at, handle[h].size) ELSE entries
  BY DEF Close, Opened
<1>2. DirsSound(entries) /\ HandlesSound(entries, handle)
  BY DEF Sound
<1>3. Dots(entries) /\ PathsRight(entries, handle) /\ tree = Tree(entries)
  BY DEF Tied
<1>4. PICK d \in DOMAIN entries, j \in Nat, x \in Tree(entries) :
        /\ handle[h].at = <<d, j>> /\ j \in Sfns(entries[d]) /\ ~entries[d][j].dir
        /\ Shows(entries, x, d, j) /\ x.path = handle[h].path /\ handle[h] \in FileRecord
  BY <1>1, <1>2, <1>3, OpenedIs
<1> DEFINE v == handle[h].size
           t == Sized(entries[d], j, v)
<1>5. v \in 0 .. MaxSize
  BY <1>4 DEF FileRecord
<1>6. t = Sized(entries[d], j, v)
  OBVIOUS
<1>7. handle[h].grew => Becomes(entries, entries', d, t)
  BY <1>1, <1>4, SetSizeIs DEF Becomes
<1> HIDE DEF v, t
<1>8. ASSUME handle[h].grew
      PROVE  Dots(entries') /\ PathsRight(entries', handle) /\ Tree(entries') = ResizedAt(Tree(entries), x.path, v)
  <2>1. Becomes(entries, entries', d, t)
    BY <1>7, <1>8
  <2>2. /\ Dots(entries') /\ Evolves(entries[d], t) /\ Sfns(t) = Sfns(entries[d])
        /\ Tree(entries') = ResizedAt(Tree(entries), x.path, v)
    BY <2>1, <1>2, <1>3, <1>4, <1>5, <1>6, TreeResized
  <2>3. \A g \in Handle : handle[g] # None /\ handle[g].at[1] = d => handle[g].at[2] \in Sfns(t)
    BY <2>2, <1>2 DEF HandlesSound, HandleSound
  <2>4. PathsRight(entries', handle)
    BY <2>1, <2>2, <2>3, <1>2, <1>3, <1>4, PathsFollow
  <2> QED BY <2>2, <2>4
<1>9. ASSUME ~handle[h].grew PROVE entries' = entries
  BY <1>1, <1>9
<1>10. Dots(entries') /\ PathsRight(entries', handle)
       /\ tree' = IF handle[h].grew THEN ResizedAt(tree, x.path, v) ELSE tree
  BY <1>3, <1>8, <1>9
<1>11. handle = [g \in Handle |-> handle[g]]
  BY <1>2 DEF HandlesSound
<1>12. PathsRight(entries', handle')
  <2>1. \A g \in Handle : handle'[g] = IF g = h THEN None ELSE handle[g]
    BY <1>1, <1>11
  <2> QED BY <2>1, <1>10 DEF PathsRight, PathRight
<1>13. Tied(tree', entries', handle')
  BY <1>10, <1>12 DEF Tied
<1>14. Opens(handle') = [Opens(handle) EXCEPT ![h] = None]
  <2>1. Becomes(handle, handle', h, None)
    BY <1>1 DEF Becomes
  <2>2. Opens(handle') = [Opens(handle) EXCEPT ![h] = Held(None)]
    BY <2>1, <1>11, OpensSet
  <2> QED BY <2>2 DEF Held
<1>15. Names!Next
  <2>1. Opens(handle)' = [Opens(handle) EXCEPT ![h] = None]
    <3>1. Opens(handle)' = Opens(handle')
      BY DEF Opens
    <3> QED BY <3>1, <1>14
  <2>2. Opens(handle)[h] # None /\ Opens(handle)[h] = Fields(handle[h])
    BY <1>1, <1>4, OpensAt
  <2>3. Opens(handle)[h].grew = handle[h].grew /\ Opens(handle)[h].path = x.path /\ Opens(handle)[h].size = v
    BY <2>2, <1>4 DEF Fields, v
  <2>4. \A y \in tree : y = Resized(y, y.size)
    BY <1>2, <1>3, NodeIs
  <2>5. tree' = IF Opens(handle)[h].grew THEN ResizedAt(tree, Opens(handle)[h].path, Opens(handle)[h].size) ELSE tree
    BY <2>3, <1>10
  <2> QED BY <2>1, <2>2, <2>4, <2>5, <1>1, Closes
<1> QED BY <1>13, <1>15

\* A function that is defined on S.
OnlyOn(f, S) == f = [g \in S |-> f[g]]

\* The size of what an open file holds is changed, and that it was.
Longer(f, h, n) == [f EXCEPT ![h].size = n, ![h].grew = TRUE]

\* Two fields of a record in a function are changed.
LEMMA TwoFields ==
  ASSUME NEW S, NEW f, OnlyOn(f, S), NEW h \in S, NEW a, NEW k, NEW w, NEW b,
         f[h] = [path |-> a, size |-> k, write |-> w, grew |-> b], NEW n
  PROVE  Becomes(f, Longer(f, h, n), h, [path |-> a, size |-> n, write |-> w, grew |-> TRUE])
<1>1. PICK y : y = TRUE
  OBVIOUS
<1> DEFINE q == [path |-> a, size |-> k, write |-> w, grew |-> b]
           u == [path |-> a, size |-> n, write |-> w, grew |-> y]
<1>2. [[q EXCEPT !.size = n] EXCEPT !.grew = y] = u
  <2>1. [q EXCEPT !.size = n] = [path |-> a, size |-> n, write |-> w, grew |-> b]
    OBVIOUS
  <2>2. [[path |-> a, size |-> n, write |-> w, grew |-> b] EXCEPT !.grew = y] = u
    OBVIOUS
  <2> QED BY <2>1, <2>2, Zenon
<1>3. [f EXCEPT ![h].size = n, ![h].grew = y] = [f EXCEPT ![h] = [[f[h] EXCEPT !.size = n] EXCEPT !.grew = y]]
  BY DEF OnlyOn
<1>4. [f EXCEPT ![h].size = n, ![h].grew = y] = [f EXCEPT ![h] = u]
  <2> HIDE DEF q, u
  <2>1. f[h] = q
    BY DEF q
  <2> QED BY <2>1, <1>2, <1>3
<1> QED BY <1>1, <1>4, Zenon DEF Longer, Becomes

\* fs_write.
LEMMA WriteTold ==
  ASSUME Sound(entries, handle, list), Tied(tree, entries, handle), NEW h \in Handle, Write(h), tree' = Tree(entries')
  PROVE  Tied(tree', entries', handle') /\ Names!Next
<1>1. handle[h] # None /\ entries' = entries /\ slip' = slip
  <2>1. h \in Opened /\ UNCHANGED <<entries, fat32, de, list, slip>>
    BY Zenon DEF Write
  <2>2. h \in Opened /\ entries' = entries /\ slip' = slip
    BY <2>1
  <2> QED BY <2>2 DEF Opened
<1>2. PICK n \in handle[h].size + 1 .. MaxSize : handle' = [handle EXCEPT ![h].size = n, ![h].grew = TRUE]
  BY DEF Write
<1>3. DirsSound(entries) /\ HandlesSound(entries, handle) /\ handle = [g \in Handle |-> handle[g]]
  BY DEF Sound, HandlesSound
<1>4. Dots(entries) /\ PathsRight(entries, handle) /\ tree = Tree(entries)
  BY DEF Tied
<1>5. handle[h] \in FileRecord /\ Leads(entries, handle[h].path, handle[h].at[1], handle[h].at[2])
  BY <1>1, <1>4 DEF PathsRight, PathRight
<1>6. PICK a, name, path, size, write, grew :
        handle[h] = [at |-> a, name |-> name, path |-> path, size |-> size, write |-> write, grew |-> grew]
  BY <1>5 DEF FileRecord
<1>7. /\ a \in (Cluster \cup {Root}) \X Nat /\ name \in Called /\ path \in Path /\ size \in 0 .. MaxSize
      /\ write \in BOOLEAN /\ n \in 0 .. MaxSize /\ n > size /\ size = handle[h].size
  <2>1. /\ handle[h].at = a /\ handle[h].name = name /\ handle[h].path = path /\ handle[h].size = size
        /\ handle[h].write = write
    BY <1>6
  <2>2. /\ handle[h].at \in (Cluster \cup {Root}) \X Nat /\ handle[h].name \in Called /\ handle[h].path \in Path
        /\ handle[h].size \in 0 .. MaxSize /\ handle[h].write \in BOOLEAN
    BY <1>5 DEF FileRecord
  <2>3. size \in 0 .. MaxSize /\ n \in size + 1 .. MaxSize /\ MaxSize \in Nat
    BY <2>1, <2>2, Consts
  <2>4. n \in 0 .. MaxSize /\ n > size
    BY <2>3
  <2> QED BY <2>1, <2>2, <2>4
<1>8. PICK y \in BOOLEAN : y = TRUE
  OBVIOUS
<1> DEFINE r == [at |-> a, name |-> name, path |-> path, size |-> n, write |-> write, grew |-> y]
<1>9. Becomes(handle, handle', h, r)
  <2> DEFINE q == [at |-> a, name |-> name, path |-> path, size |-> size, write |-> write, grew |-> grew]
  <2>1. [q EXCEPT !.size = n] = [at |-> a, name |-> name, path |-> path, size |-> n, write |-> write, grew |-> grew]
    OBVIOUS
  <2>2. [[at |-> a, name |-> name, path |-> path, size |-> n, write |-> write, grew |-> grew] EXCEPT !.grew = y] = r
    OBVIOUS
  <2>3. [[q EXCEPT !.size = n] EXCEPT !.grew = y] = r
    BY <2>1, <2>2, Zenon
  <2>4. handle' = [handle EXCEPT ![h].size = n, ![h].grew = y]
    BY <1>2, <1>8, Zenon
  <2>5. handle[h] = q
    BY <1>6
  <2>6. [handle EXCEPT ![h].size = n, ![h].grew = y] = [handle EXCEPT ![h] = [[handle[h] EXCEPT !.size = n] EXCEPT !.grew = y]]
    BY <1>3
  <2> HIDE DEF q, r
  <2>7. handle' = [handle EXCEPT ![h] = r]
    BY <2>3, <2>4, <2>5, <2>6
  <2> QED BY <2>7 DEF Becomes
<1>10. r \in FileRecord
  BY <1>7 DEF FileRecord
<1>11. r.at = handle[h].at /\ r.path = handle[h].path
       /\ Fields(r) = [path |-> path, size |-> n, write |-> write, grew |-> y]
  BY <1>6 DEF Fields
<1>12. Fields(handle[h]) = [path |-> path, size |-> size, write |-> write, grew |-> grew]
  BY <1>6 DEF Fields
<1> HIDE DEF r
<1>13. r # None
  BY <1>10, MountAssumption
<1>14. PathsRight(entries', handle')
  <2>1. \A g \in Handle : handle'[g] = IF g = h THEN r ELSE handle[g]
    BY <1>3, <1>9 DEF Becomes
  <2>2. PathRight(entries, r)
    BY <1>5, <1>10, <1>11 DEF PathRight
  <2> QED BY <2>1, <2>2, <1>1, <1>4 DEF PathsRight
<1>15. Tied(tree', entries', handle')
  BY <1>1, <1>4, <1>14 DEF Tied
<1>16. Opens(handle') = [Opens(handle) EXCEPT ![h] = [path |-> path, size |-> n, write |-> write, grew |-> y]]
  <2>1. Opens(handle') = [Opens(handle) EXCEPT ![h] = Held(r)]
    BY <1>3, <1>9, OpensSet
  <2> QED BY <2>1, <1>11, <1>13 DEF Held
<1>17. Opens(handle)[h] # None /\ Opens(handle)[h] = [path |-> path, size |-> size, write |-> write, grew |-> grew]
  BY <1>1, <1>5, <1>12, OpensAt
<1>18. OnlyOn(Opens(handle), Handle)
  BY DEF Opens, OnlyOn
<1>19. Names!Next
  <2>1. Becomes(Opens(handle), Longer(Opens(handle), h, n), h, [path |-> path, size |-> n, write |-> write, grew |-> TRUE])
    BY <1>17, <1>18, TwoFields
  <2>2. Opens(handle)' = [Opens(handle) EXCEPT ![h].size = n, ![h].grew = TRUE]
    <3>1. Opens(handle)' = Opens(handle')
      BY DEF Opens
    <3> QED BY <3>1, <2>1, <1>8, <1>16, Zenon DEF Longer, Becomes
  <2>3. Opens(handle)[h].write = write /\ Opens(handle)[h].size = size
    BY <1>17
  <2>4. write
    <3>1. handle[h].write = write
      BY <1>6
    <3> QED BY <3>1, Zenon DEF Write
  <2>5. n \in 0 .. MaxSize /\ n > Opens(handle)[h].size /\ Opens(handle)[h].write
    BY <2>3, <2>4, <1>7
  <2>6. tree' = tree
    BY <1>1, <1>4
  <2> QED BY <2>2, <2>5, <2>6, <1>1, <1>17, Writes
<1> QED BY <1>15, <1>19

\* The open files have the paths that lead to them when a file is gone that is not open.
LEMMA PathsLeft ==
  ASSUME DirsSound(entries), HandlesSound(entries, handle), PathsRight(entries, handle),
         NEW d \in DOMAIN entries, NEW j \in Sfns(entries[d]), NEW t, t = Without(entries[d], j),
         (\A h \in Opened : handle[h].at # <<d, j>>), Evolves(entries[d], t), NEW e2, Becomes(entries, e2, d, t)
  PROVE  PathsRight(e2, handle)
<1>1. DirSound(entries[d])
  BY DEF DirsSound
<1>2. Sfns(t) = Sfns(entries[d]) \ {j}
  <2>1. j \in Sfns(entries[d])
    OBVIOUS
  <2> QED BY <1>1, <2>1, EraseIs
<1>3. \A h \in Handle : handle[h] # None /\ handle[h].at[1] = d => handle[h].at[2] \in Sfns(t)
  <2> SUFFICES ASSUME NEW h \in Handle, handle[h] # None, handle[h].at[1] = d
               PROVE  handle[h].at[2] \in Sfns(entries[d]) /\ handle[h].at[2] # j
    BY <1>2
  <2>1. handle[h].at \in (DOMAIN entries) \X Nat /\ handle[h].at[2] \in Sfns(entries[d])
    BY DEF HandlesSound, HandleSound
  <2>2. handle[h].at # <<d, j>>
    BY DEF Opened
  <2> QED BY <2>1, <2>2
<1> QED BY <1>3, PathsFollow

\* fs_remove.
LEMMA RemoveFileTold ==
  ASSUME Sound(entries, handle, list), Tied(tree, entries, handle), NEW p \in FilePath, RemoveFile(p),
         slip = FALSE, slip' = FALSE, tree' = Tree(entries')
  PROVE  Tied(tree', entries', handle') /\ Names!Next
<1>1. PICK d \in DOMAIN entries :
        /\ d = DirOf(p) /\ d # None
        /\ \E j \in Sfns(entries[d]) :
             /\ entries[d][j].dir = FALSE /\ entries' = [entries EXCEPT ![d] = Without(entries[d], j)]
             /\ (\A h \in Opened : handle[h].at # <<d, j>>) /\ handle' = handle
  <2>1. DirsSound(entries)
    BY DEF Sound
  <2> QED BY <2>1, RemoveFileIs
<1>2. PICK j \in Sfns(entries[d]) :
        /\ d = DirOf(p) /\ d # None
        /\ entries[d][j].dir = FALSE /\ entries' = [entries EXCEPT ![d] = Without(entries[d], j)]
        /\ (\A h \in Opened : handle[h].at # <<d, j>>) /\ handle' = handle
  BY <1>1
<1>3. DirsSound(entries) /\ HandlesSound(entries, handle) /\ DirsSound(entries')
  <2>1. Sound(entries', handle', list')
    BY RemoveFileStep
  <2> QED BY <2>1 DEF Sound
<1>4. Dots(entries) /\ PathsRight(entries, handle) /\ tree = Tree(entries)
  BY DEF Tied
<1>5. PICK x \in Tree(entries) : Shows(entries, x, d, j)
  <2>1. PICK q : q = Canon(p, NameOf(entries[DirOf(p)], j))
    OBVIOUS
  <2>2. DirOf(p) # None /\ DirOf(p) \in DOMAIN entries /\ j \in Sfns(entries[DirOf(p)]) /\ ~entries[DirOf(p)][j].dir
    BY <1>2
  <2> QED BY <2>1, <2>2, <1>2, <1>3, <1>4, PlaceShown
<1> DEFINE t == Without(entries[d], j)
<1>6. Becomes(entries, entries', d, t) /\ t = Without(entries[d], j)
  BY <1>2 DEF Becomes
<1>7. Dots(entries') /\ Evolves(entries[d], t) /\ Tree(entries') = Tree(entries) \ {x}
  <2>1. ~entries[d][j].dir
    BY <1>2
  <2> QED BY <2>1, <1>3, <1>4, <1>5, <1>6, TreeLoses
<1> HIDE DEF t
<1>8. PathsRight(entries', handle)
  BY <1>2, <1>3, <1>4, <1>6, <1>7, PathsLeft
<1>9. Tied(tree', entries', handle')
  BY <1>2, <1>7, <1>8 DEF Tied
<1>10. Names!Next
  <2>1. \A y \in tree : Len(y.path) > Len(x.path) => SubSeq(y.path, 1, Len(x.path)) # x.path
    <3>1. entries[d][j].dir => Sfns(entries[entries[d][j].head]) = {1, 2}
      BY <1>2
    <3> QED BY <3>1, <1>3, <1>4, <1>5, NothingInside
  <2>2. Opens(handle)' = Opens(handle)
    BY <1>2 DEF Opens
  <2>3. x \in tree /\ tree' = tree \ {x}
    BY <1>4, <1>5, <1>7
  <2>4. slip' = slip
    BY Zenon
  <2> QED BY <2>1, <2>2, <2>3, <2>4, Removes
<1> QED BY <1>9, <1>10

\* fs_rmdir.
LEMMA RemoveDirTold ==
  ASSUME Sound(entries, handle, list), list = None, Tied(tree, entries, handle), NEW p \in DirPath, RemoveDir(p),
         slip = FALSE, slip' = FALSE, tree' = Tree(entries')
  PROVE  Tied(tree', entries', handle') /\ (Names!Next \/ UNCHANGED Seen)
<1>1. /\ handle' = handle
      /\ \/ entries' = entries
         \/ \E j \in Sfns(entries[Root]) :
              /\ entries[Root][j].dir = TRUE /\ Sfns(entries[entries[Root][j].head]) = {1, 2}
              /\ entries' = [c \in DOMAIN entries \ {entries[Root][j].head} |->
                               IF c = Root THEN Without(entries[Root], j) ELSE entries[c]]
  <2>1. DirsSound(entries)
    BY DEF Sound
  <2> QED BY <2>1, RemoveDirIs
<1>2. DirsSound(entries) /\ HandlesSound(entries, handle) /\ DirsSound(entries')
  <2>1. Sound(entries', handle', list')
    BY RemoveDirStep
  <2> QED BY <2>1 DEF Sound
<1>3. Dots(entries) /\ PathsRight(entries, handle) /\ tree = Tree(entries)
  BY DEF Tied
<1>4. slip' = slip /\ Opens(handle)' = Opens(handle)
  BY <1>1, Zenon DEF Opens
<1>5. CASE entries' = entries
  BY <1>1, <1>3, <1>4, <1>5 DEF Tied, Seen
<1>6. ASSUME NEW j \in Sfns(entries[Root]), entries[Root][j].dir = TRUE, Sfns(entries[entries[Root][j].head]) = {1, 2},
             entries' = [c \in DOMAIN entries \ {entries[Root][j].head} |->
                           IF c = Root THEN Without(entries[Root], j) ELSE entries[c]]
      PROVE  Tied(tree', entries', handle') /\ Names!Next
  <2>1. PICK sub : sub = entries[Root][j].head
    OBVIOUS
  <2>2. Dropped(entries, entries', sub, j) /\ entries[Root][j].dir /\ Sfns(entries[sub]) = {1, 2}
    BY <1>6, <2>1 DEF Dropped
  <2>3. PICK x : Shows(entries, x, Root, j)
    <3>1. Root \in DOMAIN entries
      BY <1>2 DEF DirsSound, Domains
    <3> DEFINE a == <<NameOf(entries[Root], j)>>
    <3>2. Leads(entries, a, Root, j)
      BY DEF Leads
    <3> HIDE DEF a
    <3> QED BY <3>1, <3>2, <1>2, ShowsIs DEF ShowsOnly
  <2>4. Dots(entries') /\ Tree(entries') = Tree(entries) \ {x}
    BY <2>1, <2>2, <2>3, <1>2, <1>3, TreeDropsDir
  <2>5. PathsRight(entries', handle)
    BY <2>1, <2>2, <1>2, <1>3, PathsDropped
  <2>6. Tied(tree', entries', handle')
    BY <2>4, <2>5, <1>1 DEF Tied
  <2>7. \A y \in tree : Len(y.path) > Len(x.path) => SubSeq(y.path, 1, Len(x.path)) # x.path
    <3>1. entries[Root][j].dir => Sfns(entries[entries[Root][j].head]) = {1, 2}
      BY <1>6
    <3> QED BY <3>1, <2>3, <1>2, <1>3, NothingInside
  <2>8. x \in tree /\ tree' = tree \ {x}
    BY <2>3, <2>4, <1>2, <1>3, TreeIs
  <2>9. Names!Next
    BY <2>7, <2>8, <1>4, Removes
  <2> QED BY <2>6, <2>9
<1> QED BY <1>1, <1>5, <1>6

\* The directory of a file that is made is there.
LEMMA ParentThere ==
  ASSUME DirsSound(entries), Dots(entries), NEW p \in DirPath \cup FilePath, DirOf(p) # None, NEW n, NEW q, q = Canon(p, n)
  PROVE  ParentIn(Tree(entries), q)
<1>1. CASE DirOf(p) = Root
  <2>1. q = <<n>>
    BY <1>1, CanonIs
  <2> QED BY <2>1 DEF ParentIn
<1>2. CASE DirOf(p) # Root
  <2>1. PICK k : IsDirTo(entries, k, DirOf(p)) /\ q = <<NameOf(entries[Root], k), n>>
    BY <1>2, CanonIs
  <2> DEFINE a == NameOf(entries[Root], k)
  <2>2. \E x \in Tree(entries) : x.path = <<a>> /\ x.dir
    BY <2>1, DirShown
  <2>3. q = <<a, n>>
    BY <2>1
  <2> HIDE DEF a
  <2>4. SubSeq(q, 1, Len(q) - 1) = <<a>>
    BY <2>3, Beginnings
  <2> QED BY <2>2, <2>4 DEF ParentIn
<1> QED BY <1>1, <1>2

\* The open files stay in a directory that loses none.
LEMMA PathsKept ==
  ASSUME DirsSound(entries), HandlesSound(entries, handle), PathsRight(entries, handle),
         NEW d \in DOMAIN entries, NEW t, Sfns(entries[d]) \subseteq Sfns(t), Evolves(entries[d], t),
         NEW e2, Becomes(entries, e2, d, t)
  PROVE  PathsRight(e2, handle)
<1>1. \A h \in Handle : handle[h] # None /\ handle[h].at[1] = d => handle[h].at[2] \in Sfns(t)
  BY DEF HandlesSound, HandleSound
<1> QED BY <1>1, PathsFollow

\* fs_open of a file that is not there, when the directory alone is made longer.
LEMMA LargerTold ==
  ASSUME Sound(entries, handle, list), Tied(tree, entries, handle), DirsSound(entries'), NEW d \in DOMAIN entries, NEW t,
         Larger(entries[d], t), Becomes(entries, entries', d, t), handle' = handle, slip' = slip, tree' = Tree(entries')
  PROVE  Tied(tree', entries', handle') /\ UNCHANGED Seen
<1>1. DirsSound(entries) /\ HandlesSound(entries, handle)
  BY DEF Sound
<1>2. Dots(entries) /\ PathsRight(entries, handle) /\ tree = Tree(entries)
  BY DEF Tied
<1>3. Dots(entries') /\ Evolves(entries[d], t) /\ Sfns(t) = Sfns(entries[d]) /\ Tree(entries') = Tree(entries)
  BY <1>1, <1>2, TreeLarger
<1>4. PathsRight(entries', handle)
  <2>1. Sfns(entries[d]) \subseteq Sfns(t)
    BY <1>3
  <2> QED BY <2>1, <1>1, <1>2, <1>3, PathsKept
<1>5. Opens(handle)' = Opens(handle)
  BY DEF Opens
<1> QED BY <1>2, <1>3, <1>4, <1>5 DEF Tied, Seen

\* fs_open with O_CREAT of a file that is not there.
LEMMA OpenNewTold ==
  ASSUME Sound(entries, handle, list), Tied(tree, entries, handle), NEW h \in Handle, NEW p \in FilePath, OpenNew(h, p),
         slip = FALSE, slip' = FALSE, tree' = Tree(entries')
  PROVE  Tied(tree', entries', handle') /\ (Names!Next \/ UNCHANGED Seen)
<1> DEFINE d == DirOf(p)
           n == p[Len(p)]
           q == Canon(p, n)
<1>1. DirsSound(entries) /\ HandlesSound(entries, handle) /\ DirsSound(entries')
  <2>1. Sound(entries', handle', list')
    BY OpenNewStep
  <2> QED BY <2>1 DEF Sound
<1>2. Dots(entries) /\ PathsRight(entries, handle) /\ tree = Tree(entries)
  BY DEF Tied
<1>3. /\ d \in DOMAIN entries /\ n \in Name /\ handle[h] = None
      /\ \E t, J : /\ entries' = [entries EXCEPT ![d] = t]
                   /\ \/ Larger(entries[d], t) /\ handle' = handle
                      \/ /\ Added(entries[d], t, J, n, FALSE, None)
                         /\ Attach(h, p, <<d, J>>, n, q, 0, TRUE)
  BY <1>1, OpenNewIs
<1>4. PICK t, J : /\ entries' = [entries EXCEPT ![d] = t]
                  /\ \/ Larger(entries[d], t) /\ handle' = handle
                     \/ Added(entries[d], t, J, n, FALSE, None) /\ Attach(h, p, <<d, J>>, n, q, 0, TRUE)
  BY <1>3
<1>5. Becomes(entries, entries', d, t)
  BY <1>4 DEF Becomes
<1>6. slip' = slip
  BY Zenon
<1>7. d # None
  BY DEF OpenNew
<1>8. \A e2, j : SameTo(entries, e2, d) => Leads(e2, Canon(p, NameOf(e2[d], j)), d, j)
  BY <1>1, <1>7, CanonLeads
<1>9. ParentIn(tree, q)
  BY <1>1, <1>2, <1>7, ParentThere
<1>10. CASE Larger(entries[d], t) /\ handle' = handle
  <2> HIDE DEF d, n, q
  <2> QED BY <1>1, <1>3, <1>5, <1>6, <1>10, LargerTold
<1>11. CASE Added(entries[d], t, J, n, FALSE, None) /\ Attach(h, p, <<d, J>>, n, q, 0, TRUE)
  <2>1. Canon(p, n) = q
    OBVIOUS
  <2> HIDE DEF d, n, q
  <2>2. Evolves(entries[d], t) /\ Sfns(entries[d]) \subseteq Sfns(t) /\ NameOf(t, J) = n /\ J \in Nat
    BY <1>11 DEF Added, Evolves
  <2>3. SameTo(entries, entries', d)
    BY <2>2, <1>1, <1>3, <1>5, DirsStay
  <2>4. entries'[d] = t
    BY <1>1, <1>3, <1>5 DEF Becomes, DirsSound, Domains
  <2>5. Leads(entries', q, d, J)
    BY <2>1, <2>2, <2>3, <2>4, <1>8
  <2>6. /\ Dots(entries') /\ (\A x \in Tree(entries) : x.path # q)
        /\ Tree(entries') = Tree(entries) \cup {[path |-> q, dir |-> FALSE, size |-> 0]}
    <3>1. AddedFile(entries[d], t, J, n)
      BY <1>11 DEF AddedFile
    <3>2. TreeGains(entries, entries', q)
      BY <3>1, <2>5, <1>1, <1>2, <1>3, <1>5, TreeAdds
    <3> QED BY <3>2 DEF TreeGains
  <2>7. PathsRight(entries', handle)
    BY <2>2, <1>1, <1>2, <1>3, <1>5, PathsKept
  <2>8. q \in Path
    <3> DEFINE y == [path |-> q, dir |-> FALSE, size |-> 0]
    <3>1. y \in Tree(entries') /\ y.path = q
      BY <2>6
    <3> HIDE DEF y
    <3> QED BY <3>1, <2>6, <1>1, TreeIs, ShowsTyped
  <2>9. d \in Cluster \cup {Root} /\ n \in Called /\ 0 \in 0 .. MaxSize
    BY <1>1, <1>3, Consts DEF DirsSound, Domains, Called
  <2>10. PICK w \in BOOLEAN : w = TRUE
    OBVIOUS
  <2>11. PICK g \in BOOLEAN : g = FALSE
    OBVIOUS
  <2>12. handle' = [handle EXCEPT ![h] = [at |-> <<d, J>>, name |-> n, path |-> q, size |-> 0, write |-> w, grew |-> g]]
    BY <2>10, <2>11, <1>11, Zenon DEF Attach
  <2>13. handle = [i \in Handle |-> handle[i]]
    BY <1>1 DEF HandlesSound
  <2>14. /\ PathsRight(entries', handle')
         /\ Opens(handle') = [Opens(handle) EXCEPT ![h] = [path |-> q, size |-> 0, write |-> w, grew |-> g]]
    BY <2>2, <2>5, <2>7, <2>8, <2>9, <2>12, <2>13, AttachTied
  <2>15. Tied(tree', entries', handle')
    BY <2>6, <2>14 DEF Tied
  <2>16. Opens(handle)' = [Opens(handle) EXCEPT ![h] = [path |-> q, size |-> 0, write |-> TRUE, grew |-> FALSE]]
    <3>1. Opens(handle)' = Opens(handle')
      BY DEF Opens
    <3> QED BY <3>1, <2>10, <2>11, <2>14, Zenon
  <2>17. NoneHas(tree, q) /\ Opens(handle)[h] = None /\ tree' = tree \cup {[path |-> q, dir |-> FALSE, size |-> 0]}
    BY <2>6, <1>2, <1>3, OpensAt DEF NoneHas
  <2>18. Names!Next
    BY <2>8, <2>16, <2>17, <1>6, <1>9, Creates
  <2> QED BY <2>15, <2>18
<1> QED BY <1>4, <1>10, <1>11

\* fs_mkdir.
LEMMA MakeDirTold ==
  ASSUME Sound(entries, handle, list), list = None, Tied(tree, entries, handle), NEW p \in DirPath, MakeDir(p),
         slip = FALSE, slip' = FALSE, tree' = Tree(entries')
  PROVE  Tied(tree', entries', handle') /\ (Names!Next \/ UNCHANGED Seen)
<1> DEFINE n == p[Len(p)]
<1>1. DirsSound(entries) /\ HandlesSound(entries, handle) /\ DirsSound(entries')
  <2>1. Sound(entries', handle', list')
    BY MakeDirStep
  <2> QED BY <2>1 DEF Sound
<1>2. Dots(entries) /\ PathsRight(entries, handle) /\ tree = Tree(entries)
  BY DEF Tied
<1>3. /\ n \in Name /\ handle' = handle
      /\ \/ \E t : Larger(entries[Root], t) /\ entries' = [entries EXCEPT ![Root] = t]
         \/ \E c \in Cluster \ DOMAIN entries : \E t, J :
              /\ Added(entries[Root], t, J, n, TRUE, c) /\ c = Least(Free)
              /\ entries' = Kept(Root, t, {c})
  BY <1>1, MakeDirIs
<1>4. slip' = slip /\ Root \in DOMAIN entries
  BY <1>1, Zenon DEF DirsSound, Domains
<1> HIDE DEF n
<1>5. ASSUME NEW t, Larger(entries[Root], t), entries' = [entries EXCEPT ![Root] = t]
      PROVE  Tied(tree', entries', handle') /\ UNCHANGED Seen
  <2>1. Becomes(entries, entries', Root, t)
    BY <1>5 DEF Becomes
  <2> QED BY <2>1, <1>1, <1>3, <1>4, <1>5, LargerTold
<1>6. ASSUME NEW c \in Cluster \ DOMAIN entries, NEW t, NEW J, Added(entries[Root], t, J, n, TRUE, c), c = Least(Free),
             entries' = Kept(Root, t, {c})
      PROVE  Tied(tree', entries', handle') /\ Names!Next
  <2>1. c \in Cluster /\ c \notin DOMAIN entries
    OBVIOUS
  <2>2. Made(entries', t, c)
    BY <2>1, <1>1, <1>6, DirsStayMade
  <2>3. /\ Dots(entries') /\ (\A x \in Tree(entries) : x.path # <<n>>)
        /\ Tree(entries') = Tree(entries) \cup {[path |-> <<n>>, dir |-> TRUE, size |-> 0]}
    BY <2>1, <1>1, <1>2, <1>3, <1>6, TreeMakesDir
  <2>4. PathsRight(entries', handle)
    <3>1. \A j \in Sfns(entries[Root]) : SameFor(entries[Root], t, j)
      BY <1>6 DEF Added
    <3> QED BY <3>1, <2>2, <1>1, <1>2, PathsMade
  <2>5. Tied(tree', entries', handle')
    BY <2>3, <2>4, <1>3 DEF Tied
  <2>6. PICK q : q = <<n>>
    OBVIOUS
  <2>7. q \in Path /\ ParentIn(tree, q) /\ NoneHas(tree, q)
    BY <2>3, <2>6, <1>2, <1>3 DEF Path, Called, ParentIn, NoneHas
  <2>8. tree' = tree \cup {[path |-> q, dir |-> TRUE, size |-> 0]}
    BY <2>3, <2>6, <1>2
  <2>9. Opens(handle)' = Opens(handle)
    BY <1>3 DEF Opens
  <2>10. Names!Next
    BY <2>7, <2>8, <2>9, <1>4, MakesDir
  <2> QED BY <2>5, <2>10
<1> QED BY <1>3, <1>5, <1>6

-----------------------------------------------------------------------------
(* The directories are the tree *)

\* Unless a call went wrong, the tree is that of the directories, of which the first two entries
\* are those EmptyDirectory makes, and every open file has the path that leads to its entry.
TreeIInv == DirIInv /\ (~slip => Tied(tree, entries, handle))

\* A volume that is mounted holds a tree of names.
LEMMA InitIsTree == DirInit => TreeIInv /\ Names!Init
<1> SUFFICES ASSUME DirInit PROVE TreeIInv /\ Names!Init
  OBVIOUS
<1>1. list = None /\ slip = FALSE /\ handle = [h \in Handle |-> None] /\ tree = Tree(entries)
  BY DEF DirInit
<1>2. PICK m \in AtMount :
        entries = [d \in {Root} |-> m.entries \o [i \in 1 .. EntryCount - Len(m.entries) |-> End]]
  BY DEF DirInit
<1> DEFINE s == m.entries \o [i \in 1 .. EntryCount - Len(m.entries) |-> End]
<1>3. \A j \in Sfns(s) : ~s[j].dir /\ s[j].short \in Called
  BY MountedIs
<1>4. entries = [d \in {Root} |-> s]
  BY <1>2
<1> HIDE DEF s
<1>5. DOMAIN entries = {Root} /\ entries[Root] = s
  BY <1>4
<1>6. Dots(entries)
  <2>1. \A n \in Called : n \notin {Dot, DotDot}
    BY DirAssumption, MountAssumption DEF Called
  <2> QED BY <2>1, <1>3, <1>5 DEF Dots
<1>7. DirIInv /\ DirsSound(entries)
  BY <1>1, InitIs DEF DirIInv
<1>8. Tied(tree, entries, handle)
  BY <1>1, <1>6 DEF Tied, PathsRight, PathRight
<1>9. \A x \in tree : x \in Names!Node
  <2> SUFFICES ASSUME NEW x \in tree PROVE x \in Names!Node
    OBVIOUS
  <2>1. PICK d, j : Shows(entries, x, d, j)
    BY <1>1, <1>6, <1>7, TreeIs
  <2>2. x.path \in Path /\ x.dir \in BOOLEAN /\ x.size \in 0 .. MaxSize
    BY <2>1, <1>6, <1>7, ShowsTyped
  <2>3. x = [path |-> x.path, dir |-> x.dir, size |-> x.size]
    BY <2>1 DEF Shows
  <2> QED BY <2>2, <2>3 DEF Names!Node
<1>10. Names!Init
  BY <1>1, <1>9 DEF Names!Init
<1> QED BY <1>7, <1>8, <1>10 DEF TreeIInv

\* A call that leaves the directories and the open files alone.
LEMMA UntouchedTold ==
  ASSUME Tied(tree, entries, handle), entries' = entries, handle' = handle, slip' = slip, tree' = Tree(entries')
  PROVE  Tied(tree', entries', handle') /\ UNCHANGED Seen
BY DEF Tied, Seen, Opens

\* Every call is one of NameTree, or none, or goes wrong.
LEMMA StepIsTree == TreeIInv /\ [DirNext]_dirVars => TreeIInv' /\ [Names!Next]_Seen
<1> DEFINE IsCall == Tied(tree', entries', handle') /\ (Names!Next \/ UNCHANGED Seen)
<1> SUFFICES ASSUME TreeIInv, [DirNext]_dirVars PROVE TreeIInv' /\ [Names!Next]_Seen
  OBVIOUS
<1>1. DirIInv /\ DirIInv' /\ slip \in BOOLEAN /\ slip' \in BOOLEAN
  BY NextIs DEF TreeIInv, DirIInv
<1>2. ASSUME UNCHANGED dirVars PROVE TreeIInv' /\ UNCHANGED Seen
  BY <1>1, <1>2 DEF TreeIInv, Tied, dirVars, Seen, Opens
<1>3. CASE slip /\ DirNext
  <2>1. UNCHANGED dirVars
    BY <1>3 DEF DirNext, Done
  <2> QED BY <2>1, <1>2
<1>4. CASE slip'
  <2>1. TreeIInv'
    BY <1>1, <1>4 DEF TreeIInv
  <2>2. Names!Next
    BY <1>4 DEF Names!Next
  <2> QED BY <2>1, <2>2
<1>5. CASE ~slip /\ ~slip' /\ DirNext
  <2>1. Sound(entries, handle, list) /\ Tied(tree, entries, handle) /\ slip = FALSE /\ slip' = FALSE
    BY <1>1, <1>5 DEF TreeIInv, DirIInv, Sound
  <2>2. tree' = Tree(entries')
    <3>1. IF entries' = entries THEN tree' = tree ELSE \E e \in {entries'} : tree' = Tree(e)
      BY <1>5, Zenon DEF DirNext, Done
    <3>2. tree = Tree(entries)
      BY <2>1 DEF Tied
    <3> QED BY <3>1, <3>2
  <2>3. ASSUME NEW h \in Handle, NEW p \in FilePath, OpenNew(h, p) PROVE IsCall
    BY <2>1, <2>2, <2>3, OpenNewTold
  <2>4. ASSUME NEW h \in Handle, Close(h) PROVE IsCall
    BY <2>1, <2>2, <2>4, CloseTold
  <2>5. ASSUME NEW p \in FilePath, RemoveFile(p) PROVE IsCall
    BY <2>1, <2>2, <2>5, RemoveFileTold
  <2>6. ASSUME NEW d \in DOMAIN entries, OpenList(d) PROVE IsCall
    BY <2>1, <2>2, <2>6, UntouchedTold DEF OpenList
  <2>7. ASSUME ReadList PROVE IsCall
    BY <2>1, <2>2, <2>7, UntouchedTold DEF ReadList
  <2>8. ASSUME CloseList PROVE IsCall
    BY <2>1, <2>2, <2>8, UntouchedTold DEF CloseList
  <2>9. ASSUME NEW h \in Handle, NEW p \in FilePath, OpenThere(h, p) PROVE IsCall
    BY <2>1, <2>2, <2>9, OpenThereTold
  <2>16. ASSUME NEW h \in Handle, NEW p \in FilePath, OpenAstray(h, p) PROVE IsCall
    <3>1. slip' = TRUE
      BY <2>16 DEF OpenAstray
    <3> QED BY <3>1, <1>5
  <2>10. ASSUME NEW h \in Handle, Write(h) PROVE IsCall
    BY <2>1, <2>2, <2>10, WriteTold
  <2>11. ASSUME NEW p \in DirPath, list = None, MakeDir(p) PROVE IsCall
    BY <2>1, <2>2, <2>11, MakeDirTold
  <2>12. ASSUME NEW p \in DirPath, list = None, RemoveDir(p) PROVE IsCall
    BY <2>1, <2>2, <2>12, RemoveDirTold
  <2>13. ASSUME NEW p, NEW dir, Refused(p, dir) PROVE IsCall
    BY <2>1, <2>2, <2>13, UntouchedTold DEF Refused
  <2>14. \/ \E h \in Handle, p \in FilePath : OpenNew(h, p)
         \/ \E h \in Handle : Close(h)
         \/ \E p \in FilePath : RemoveFile(p)
         \/ \E d \in DOMAIN entries : OpenList(d)
         \/ ReadList
         \/ CloseList
         \/ /\ list = None
            /\ \/ \E h \in Handle, p \in FilePath : OpenThere(h, p) \/ OpenAstray(h, p)
               \/ \E h \in Handle : Write(h)
               \/ \E p \in DirPath : MakeDir(p) \/ RemoveDir(p)
               \/ \E p \in FilePath \cup DirPath : Refused(p, p \in DirPath)
    BY <1>5, Zenon DEF DirNext, Done
  <2> HIDE DEF IsCall
  <2>15. IsCall
    BY <2>3, <2>4, <2>5, <2>6, <2>7, <2>8, <2>9, <2>10, <2>11, <2>12, <2>13, <2>14, <2>16, Zenon
  <2> QED BY <2>15, <1>1 DEF IsCall, TreeIInv
<1> QED BY <1>1, <1>2, <1>3, <1>4, <1>5

\* For every volume, and for any files, names, sizes and handles: the directories hold a tree of
\* names, to which each call of fs_driver.c does what it says, at the entry the path leads to,
\* until a call goes wrong.
THEOREM NamesAreTree == DirSpec => IsNameTree
<1> QED BY InitIsTree, StepIsTree, PTL DEF DirSpec, IsNameTree, Names!Spec, Seen, Opens

=============================================================================
