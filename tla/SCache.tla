------------------------------- MODULE SCache -------------------------------
(***************************************************************************)
(* The write-back sector cache of USBHDFSD (scache.c) and the ways the     *)
(* file system uses it (fat_driver.c, fat_write.c): it reads a sector,     *)
(* reads and changes one, clears the sectors of a new directory cluster,   *)
(* and flushes.  Calls are made one at a time, under the lock of           *)
(* fs_driver.c; the device may be removed between any two of them.         *)
(*                                                                         *)
(* A sector number s is the pair <<s \div indexLimit, s % indexLimit>> of  *)
(* a block and an offset, so that alignedSector is the block.  A transfer  *)
(* is retried until it succeeds (mass_stor_readSector), so it succeeds.    *)
(***************************************************************************)
EXTENDS Integers

CONSTANTS
  CacheSize,    \* CACHE_SIZE: slots
  NBlocks,      \* blocks of the device
  IndexLimit,   \* sectors in a block
  Clusters,     \* the sets of sectors that a directory may get
  MaxTax,       \* bound on the tax of a slot, for TLC
  MaxVersion    \* bound on the changes of a sector, for TLC

ASSUME SCacheAssumption ==
  /\ CacheSize \in Nat \ {0} /\ NBlocks \in Nat /\ IndexLimit \in Nat \ {0}
  /\ MaxTax \in Nat /\ MaxVersion \in Nat
  /\ \A c \in Clusters : c \subseteq (0..NBlocks - 1) \X (0..IndexLimit - 1)

Slots == 0..CacheSize - 1
Blocks == 0..NBlocks - 1
Offsets == 0..IndexLimit - 1
Sectors == Blocks \X Offsets
NoBlock == -1

\* The content of a sector: the sector it was written for, and how often the
\* file system has changed it.
Contents == [block : Blocks \cup {NoBlock}, offset : Offsets, version : Int]
Format == [b \in Blocks |-> [o \in Offsets |-> [block |-> b, offset |-> o, version |-> 0]]]
Zero == [block |-> NoBlock, offset |-> 0, version |-> 0]

\* What malloc gives: the content of no sector.
Garbage == [block |-> NoBlock, offset |-> 0, version |-> -1]
mallocBuf == [i \in Slots |-> [o \in Offsets |-> Garbage]]

\* The file system changes a sector that it has read.
Changed(x) == [block |-> x.block, offset |-> x.offset, version |-> x.version + 1]

VARIABLES
  disk,        \* disk[b]: the block on the device
  sector,      \* sector[i]: the block in slot i
  tax,         \* tax[i]: the larger, the later slot i is replaced
  dirty,       \* the slots with writeDirty set
  sectorBuf,   \* sectorBuf[i]: the contents of slot i
  writeFlag,   \* written since the last flush (the code counts)
  held,        \* the sector and slot the file system has a pointer into
  cluster,     \* the new directory cluster it is clearing
  todo         \* the sectors of that it has yet to clear

cacheVars == <<disk, sector, tax, dirty, sectorBuf, writeFlag, held, cluster, todo>>

NoHeld == [block |-> NoBlock, offset |-> 0, slot |-> 0]

\* A pointer to a sector: *buf, and the slot it is in.
Hold(b, o, i) == [block |-> b, offset |-> o, slot |-> i]

CacheInit ==
  /\ disk = Format
  /\ sector = [i \in Slots |-> NoBlock] /\ tax = [i \in Slots |-> 0] /\ dirty = {}
  /\ sectorBuf = mallocBuf
  /\ writeFlag = FALSE
  /\ held = NoHeld
  /\ cluster = {} /\ todo = {}

Cached(b) == \E i \in Slots : sector[i] = b

-----------------------------------------------------------------------------
(* The records.                                                            *)

\* getIndexRead: the block that is wanted gains, every block pays.
Taxed(b) ==
  [i \in Slots |-> IF sector[i] # b THEN tax[i] - 1
                   ELSE IF tax[i] < 0 THEN 1 ELSE tax[i] + 1]

\* getIndexWrite: the first slot with the least tax.
IsVictim(taxes, i) ==
  \A j \in Slots : taxes[i] < taxes[j] \/ (taxes[i] = taxes[j] /\ i <= j)

\* Fault: a dirty block is dropped.
EvictedUnsaved(i) == disk

\* The device after slot i has been written back, if it has to be.
Evicted(i) == IF i \in dirty THEN [disk EXCEPT ![sector[i]] = sectorBuf[i]] ELSE disk

\* The bound MaxTax, before a call may move every tax by 1 or one by 2.
TaxInBounds == \A i \in Slots : tax[i] > -MaxTax /\ tax[i] < MaxTax - 1

-----------------------------------------------------------------------------
(* The calls.                                                              *)

\* A block that is not cached replaces the victim: "data" is what the slot
\* holds then.
Replace(b, i, data) ==
  /\ IsVictim(Taxed(b), i)
  /\ disk' = Evicted(i)
  /\ sector' = [sector EXCEPT ![i] = b]
  /\ tax' = [Taxed(b) EXCEPT ![i] = @ + 2]
  /\ dirty' = dirty \ {i}
  /\ sectorBuf' = [sectorBuf EXCEPT ![i] = data]

Hit(b, i) ==
  /\ sector[i] = b
  /\ tax' = Taxed(b)
  /\ UNCHANGED <<disk, sector, dirty, sectorBuf>>

\* scache_readSector.
ReadSector(b, o) ==
  /\ todo = {} /\ TaxInBounds
  /\ \E i \in Slots :
       /\ \/ Hit(b, i)
          \/ ~Cached(b) /\ Replace(b, i, Evicted(i)[b])
       /\ held' = Hold(b, o, i)
  /\ UNCHANGED <<writeFlag, cluster, todo>>

\* enlargeDirClusterSpace has got a cluster and goes through its sectors.
NewCluster(c) ==
  /\ todo = {}
  /\ cluster' = c /\ todo' = c
  /\ held' = NoHeld
  /\ UNCHANGED <<disk, sector, tax, dirty, sectorBuf, writeFlag>>

FirstOf(S, b, o) ==
  /\ <<b, o>> \in S
  /\ \A s \in S : b < s[1] \/ (b = s[1] /\ o <= s[2])

\* scache_allocSector, for the next sector to clear: the slot keeps what it
\* holds.
AllocSector(b, o) ==
  /\ FirstOf(todo, b, o) /\ held = NoHeld /\ TaxInBounds
  /\ \E i \in Slots :
       /\ \/ Hit(b, i)
          \/ ~Cached(b) /\ Replace(b, i, sectorBuf[i])
       /\ held' = Hold(b, o, i)
  /\ UNCHANGED <<writeFlag, cluster, todo>>

\* Fault: writeFlag is not counted up.
WriteSectorUnflagged ==
  /\ held # NoHeld /\ TaxInBounds
  /\ LET b == held.block  o == held.offset  i == held.slot
         old == sectorBuf[i][o]
         new == IF todo = {} THEN Changed(old) ELSE Zero
     IN /\ todo = {} => old.version < MaxVersion
        /\ sectorBuf' = [sectorBuf EXCEPT ![i][o] = new]
        /\ todo' = todo \ {<<b, o>>}
        /\ cluster' = IF todo' = {} THEN {} ELSE cluster
        /\ \E j \in Slots :
             /\ sector[j] = b
             /\ tax' = [tax EXCEPT ![j] = @ + 2]
             /\ dirty' = dirty \cup {j}
  /\ held' = NoHeld
  /\ UNCHANGED <<disk, sector, writeFlag>>

\* The file system changes the sector it holds, or clears it when it is one of
\* a new cluster, and calls scache_writeSector.
WriteSector ==
  /\ held # NoHeld /\ TaxInBounds
  /\ LET b == held.block  o == held.offset  i == held.slot
         old == sectorBuf[i][o]
         new == IF todo = {} THEN Changed(old) ELSE Zero
     IN /\ todo = {} => old.version < MaxVersion
        /\ sectorBuf' = [sectorBuf EXCEPT ![i][o] = new]
        /\ todo' = todo \ {<<b, o>>}
        /\ cluster' = IF todo' = {} THEN {} ELSE cluster
        /\ \/ \E j \in Slots :
                /\ sector[j] = b
                /\ tax' = [tax EXCEPT ![j] = @ + 2]
                /\ dirty' = dirty \cup {j}
                /\ writeFlag' = TRUE
           \/ ~Cached(b) /\ UNCHANGED <<tax, dirty, writeFlag>>
  /\ held' = NoHeld
  /\ UNCHANGED <<disk, sector>>

\* Fault: a flush returns after the first dirty slot.
FlushSectorsFirst ==
  /\ todo = {} /\ writeFlag
  /\ held' = NoHeld /\ writeFlag' = FALSE
  /\ \E i \in Slots :
       /\ i \in dirty
       /\ disk' = Evicted(i)
       /\ dirty' = dirty \ {i}
  /\ UNCHANGED <<sector, tax, sectorBuf, cluster, todo>>

\* scache_flushSectors: at the close of a file, after a remove, mkdir, rmdir.
FlushSectors ==
  /\ todo = {}
  /\ held' = NoHeld
  /\ writeFlag' = FALSE
  /\ IF ~writeFlag
     THEN UNCHANGED <<disk, dirty>>
     ELSE /\ disk' = [b \in Blocks |->
                        IF \E i \in dirty : sector[i] = b
                        THEN sectorBuf[CHOOSE i \in dirty : sector[i] = b] ELSE disk[b]]
          /\ dirty' = {}
  /\ UNCHANGED <<sector, tax, sectorBuf, cluster, todo>>

\* mass_stor_disconnect calls scache_kill, and when the device is back
\* mass_stor_configureNextDevice calls scache_init.
Reconnect ==
  /\ sector' = [i \in Slots |-> NoBlock] /\ tax' = [i \in Slots |-> 0] /\ dirty' = {}
  /\ sectorBuf' = mallocBuf
  /\ writeFlag' = FALSE
  /\ held' = NoHeld
  /\ cluster' = {} /\ todo' = {}
  /\ UNCHANGED disk

CacheNext ==
  \/ \E b \in Blocks, o \in Offsets : ReadSector(b, o) \/ AllocSector(b, o)
  \/ \E c \in Clusters : NewCluster(c)
  \/ WriteSector
  \/ FlushSectors
  \/ Reconnect

CacheSpec == CacheInit /\ [][CacheNext]_cacheVars

-----------------------------------------------------------------------------
(* What the file system sees.                                              *)

SlotOf(b) == CHOOSE i \in Slots : sector[i] = b

\* A block is cleared as a whole when the first of its sectors is.
Clearing(b) ==
  todo # {} /\ (held.block = b \/ \E o \in Offsets : <<b, o>> \in cluster \ todo)

\* What a read of each sector gives.
View ==
  [b \in Blocks |-> [o \in Offsets |->
     IF <<b, o>> \in todo /\ Clearing(b) THEN Zero
     ELSE IF Cached(b) THEN sectorBuf[SlotOf(b)][o] ELSE disk[b][o]]]

Store == INSTANCE SectorStore WITH store <- View, medium <- disk

-----------------------------------------------------------------------------
(* Properties.                                                             *)

\* The clusters of the volume begin and end where blocks do.
Aligned ==
  \A c \in Clusters : \A b \in Blocks : \A o, p \in Offsets :
    <<b, o>> \in c => <<b, p>> \in c

Helds == [block : Blocks, offset : Offsets, slot : Slots]

\* Types of the variables; a tax moves by at most 1 in a call that misses.
CacheTypeOK ==
  /\ disk \in [Blocks -> [Offsets -> Contents]]
  /\ sector \in [Slots -> Blocks \cup {NoBlock}]
  /\ tax \in [Slots -> -MaxTax..MaxTax]
  /\ dirty \subseteq Slots
  /\ sectorBuf \in [Slots -> [Offsets -> Contents]]
  /\ writeFlag \in BOOLEAN
  /\ held \in Helds \cup {NoHeld}
  /\ todo \subseteq cluster /\ cluster \subseteq Sectors

\* A block has one slot: there is one content of each sector to find.
OneSlot ==
  \A i, j \in Slots : sector[i] = sector[j] /\ sector[i] # NoBlock => i = j

\* A block that is not dirty is the device's, but for one being cleared.
CleanOnDisk ==
  \A i \in Slots \ dirty : sector[i] # NoBlock =>
    \A o \in Offsets : ~(<<sector[i], o>> \in todo /\ Clearing(sector[i])) =>
      sectorBuf[i][o] = disk[sector[i]][o]

\* A dirty slot has a block, and a flush does not return before it.
DirtyFlagged == \A i \in dirty : writeFlag /\ sector[i] # NoBlock

\* The pointer of the file system is into the slot of its sector.
HeldTagged == held # NoHeld => sector[held.slot] = held.block

\* The cache is coherent at every step: one slot for a block, clean blocks as
\* on the device, dirty ones known to the next flush, and no pointer into a
\* slot that has been given to another block.
CacheCoherent == OneSlot /\ CleanOnDisk /\ DirtyFlagged /\ HeldTagged

\* The cache is a store of sectors: a read gives what was last written, only
\* the sector that is written changes, and what reaches the device is the
\* current content of whole blocks, whichever slots they took meanwhile.
IsSectorStore == Store!Spec

\* When scache_flushSectors has returned, the device holds everything.
FlushIsDurable == [][FlushSectors => disk' = View']_cacheVars

=============================================================================
