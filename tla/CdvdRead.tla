------------------------------ MODULE CdvdRead ------------------------------
(***************************************************************************)
(* A read of the emulated drive, from the N-command to the memory of the   *)
(* game: async_read splits it into what its buffer holds, read_sector into *)
(* USB transfers of at most two sectors from the slices of the image, and  *)
(* data for the EE goes there by DMA, around the lines of the EE's cache   *)
(* that the buffer shares with other data.                                 *)
(*                                                                         *)
(* Data are counted in units of 512 bytes; a line of the EE's cache, of 16 *)
(* bytes, is two units here.  What a unit holds is its number in the image.*)
(***************************************************************************)
EXTENDS Integers

CONSTANTS
  Sectors,    \* of the image
  PerSlice,   \* sectorsPerSlice: 913045, an odd number
  DevUnits,   \* sizes of the device's sectors, in units: 512, 2048 or 4096 bytes
  Cache,      \* cdvdman_conf.read_buffer_sz, in sectors
  MaxRead,    \* bound: sectors of one read
  Lsns        \* bound: where reads start

ASSUME ReadAssumption ==
  /\ {Sectors, PerSlice, MaxRead} \subseteq Nat \ {0}
  /\ Cache \in Nat \ {0, 1}
  /\ DevUnits \subseteq {1, 4, 8} /\ Lsns \subseteq 0 .. Sectors

Unit == 4             \* units of a sector
Line == 2             \* units of a line
Block == 2            \* xfer_blk_sz, in sectors

Old == -1             \* what was in a buffer before
Junk == -2            \* what is on the device behind a slice
Val == {Old, Junk} \cup 0 .. Unit * Sectors - 1
Addr == 0 .. Unit * MaxRead + 2 * Line - 1
Side == {"iop", "ee", "ring",  \* buffers of the game in the IOP and in the EE, of a stream,
         "file", "sec"}        \* of cdrom_read's caller, and its sectorbuf
Least(a, b) == IF a < b THEN a ELSE b

VARIABLES
  dev,     \* usb_devConfig.sector_sz
  mem,     \* the two memories
  cache,   \* cdvdman_fsvrbuf
  drive,   \* async_read and read_sector: where they are, and their locals
  dma,     \* the transfer to the EE under way, or none
  slips    \* what has happened that the code does not allow for: "crossed", a USB transfer
           \* crossed the end of a slice; "coarse", it was not of whole sectors of the device;
           \* "overtaken", it landed in a buffer that was being sent to the EE; and "cut", a break
           \* ended a read early

rvars == <<dev, mem, cache, drive, dma, slips>>

NoDma == [src |-> "none", from |-> 0, to |-> 0, n |-> 0]
Rest == [pc |-> "idle", side |-> "iop", mis |-> 0, dest |-> 0, lsn |-> 0, sectors |-> 0,
         left |-> 0, rbuf |-> 0, src |-> 0, sent |-> 0, first |-> <<Old, Old>>, chunk |-> 0,
         lbn |-> 0, todo |-> 0, at |-> 0, asked |-> 0, from |-> 0,
         abort |-> FALSE]

ReadTypeOK ==
  /\ dev \in DevUnits
  /\ mem \in [Side -> [Addr -> Val]]
  /\ cache \in [0 .. Unit * Cache - 1 -> Val]
  /\ DOMAIN drive = DOMAIN Rest
  /\ drive.pc \in {"idle", "chunk", "block", "sent", "end"}
  /\ drive.side \in Side /\ drive.mis \in 0 .. Line - 1 /\ drive.dest \in Addr
  /\ drive.left \in 0 .. Unit * MaxRead /\ drive.sectors \in 0 .. MaxRead
  /\ drive.abort \in BOOLEAN /\ drive.todo \in 0 .. MaxRead + 1 /\ drive.asked \in 0 .. MaxRead
  /\ dma.src \in {"none", "cache", "ring"} /\ dma.n \in 0 .. Unit * MaxRead
  /\ slips \subseteq {"crossed", "coarse", "overtaken", "cut"}

\* f with the n values v(0), ..., v(n - 1) from at on
Put(f, at, n, v(_)) == [x \in DOMAIN f |-> IF x \in at .. at + n - 1 THEN v(x - at) ELSE f[x]]

(***************************************************************************)
(* read_sector                                                             *)
(***************************************************************************)

\* What is at a place behind the start of a slice: the image, or what follows on the device
OnDisk(slice, k) ==
  IF k < Unit * PerSlice /\ Unit * PerSlice * slice + k < Unit * Sectors
  THEN Unit * PerSlice * slice + k ELSE Junk

\* Sectors of the device that are read for n sectors from lbn on
Crossing(lbn, n) == (lbn % PerSlice) + n - PerSlice
DeviceSectors(lbn, n) ==
  IF n * Unit < dev THEN 1
  ELSE ((n * Unit) \div dev) - (IF Crossing(lbn, n) > 0 THEN Crossing(lbn, n) ELSE 0)

\* async_read returns; what it was asked for is kept for the properties
Done == IF drive.side \notin {"iop", "ee"} THEN Rest
        ELSE [Rest EXCEPT !.asked = drive.asked, !.from = drive.from, !.side = drive.side, !.dest = drive.dest]

\* Where they start behind the start of the slice
Start(lbn) == (((lbn - PerSlice * (lbn \div PerSlice)) * Unit) \div dev) * dev

\* Units that arrive, in the buffer or copied from PartialReadBuffer
Arriving(lbn, n) == IF n * Unit < dev THEN n * Unit ELSE DeviceSectors(lbn, n) * dev

Direct == drive.side # "ee" /\ drive.mis = 0     \* no buffer between device and destination
Skewed == drive.side = "ee" /\ drive.mis # 0      \* SYS_MEMALIGN_FIX in the EE's memory

\* One turn of the loop: a USB transfer, with the drive's thread asleep in it
ReadBlock ==
  LET n == Least(drive.todo, Block)
      slice == drive.lbn \div PerSlice
      v(u) == OnDisk(slice, Start(drive.lbn) + u)
      k == Arriving(drive.lbn, n)
      sending == IF dma.src = (IF Direct THEN drive.side ELSE "cache")
                 THEN dma.from .. dma.from + dma.n - 1 ELSE {}
      coarse == dev > n * Unit \/ (Start(drive.lbn) # (drive.lbn % PerSlice) * Unit)
  IN /\ drive.pc = "block" /\ drive.todo > 0
     /\ IF Direct
        THEN mem' = [mem EXCEPT ![drive.side] = Put(@, drive.at, k, v)] /\ UNCHANGED cache
        ELSE cache' = Put(cache, drive.at, k, v) /\ UNCHANGED mem
     /\ drive' = [drive EXCEPT !.lbn = @ + n, !.todo = @ - n, !.at = @ + n * Unit,
                               !.rbuf = IF Direct THEN @ + n * Unit ELSE @]
     /\ slips' = slips \cup (IF Crossing(drive.lbn, n) > 0 THEN {"crossed"} ELSE {})
                       \cup (IF coarse THEN {"coarse"} ELSE {})
                       \cup (IF sending \cap drive.at .. drive.at + k - 1 # {}
                             THEN {"overtaken"} ELSE {})
     /\ UNCHANGED <<dev, dma>>

(***************************************************************************)
(* async_read                                                              *)
(***************************************************************************)

\* What the drive starts with: n sectors from lsn on, for an address of a memory
Command(side, dest, lsn, n) ==
  LET mis == dest % Line
  IN [Rest EXCEPT !.pc = "chunk", !.side = side, !.dest = dest, !.mis = mis, !.lsn = lsn,
                  !.sectors = n, !.left = n * Unit - (IF side = "ee" /\ mis # 0 THEN Line ELSE 0),
                  !.asked = n, !.from = lsn]

\* max_cache_sz
Room == IF Direct THEN drive.sectors ELSE Cache

\* sectorsToRead: one more than is sent, for the last line
ChunkSize ==
  LET k == Least(drive.sectors, Room) IN IF Skewed /\ k # Room THEN k + 1 ELSE k

NextChunk ==
  /\ drive.pc = "chunk" /\ drive.left > 0
  /\ drive' = [drive EXCEPT !.pc = "block", !.chunk = ChunkSize, !.lbn = drive.lsn,
                            !.todo = ChunkSize, !.at = IF Direct THEN drive.dest + drive.rbuf ELSE 0]
  /\ UNCHANGED <<dev, mem, cache, dma, slips>>

\* a mutant: the data of later parts of a read are clipped too
SourceClipped == drive.src + (IF Skewed THEN Line - drive.mis ELSE 0)

\* src_buffer_offset: behind the first line, in every part of the read
Source == IF Skewed THEN Line - drive.mis ELSE 0

\* bytestoread
Bytes(k) == Least(k * Unit, drive.left)

\* What is done when read_sector returns: data on their way, or copied, and the next part
ChunkRead ==
  LET k == IF Skewed THEN drive.chunk - 1 ELSE drive.chunk
      bytes == Bytes(k)
      off == IF Skewed /\ drive.rbuf = 0 THEN Source ELSE drive.rbuf
      to == drive.dest + off
  IN /\ drive.pc = "block" /\ drive.todo = 0
     /\ drive.side = "ee" => dma = NoDma            \* EE_DMASync
     /\ dma' = IF drive.side = "ee" THEN [src |-> "cache", from |-> Source, to |-> to, n |-> bytes]
               ELSE dma
     /\ mem' = IF drive.side # "ee" /\ drive.mis # 0
               THEN [mem EXCEPT ![drive.side] = Put(@, to, bytes, LAMBDA u : cache[u])] ELSE mem
     /\ LET more == drive.left > bytes
            next == [drive EXCEPT
               !.pc = IF more THEN "chunk" ELSE "end",
               !.first = IF Skewed /\ drive.rbuf = 0 THEN <<cache[0], Old>> ELSE @,
               !.src = Source, !.sent = bytes,
               !.rbuf = IF Direct THEN @ ELSE off + bytes,
               !.lsn = @ + k, !.left = @ - bytes, !.sectors = @ - k]
        IN /\ drive' = IF drive.abort THEN Done ELSE next
           /\ slips' = IF drive.abort /\ (more \/ Skewed) THEN slips \cup {"cut"} ELSE slips
     /\ UNCHANGED <<dev, cache>>

\* The first and the last line go to the EE by themselves, whose library puts them in place
Finish ==
  LET last == cache[drive.src + drive.sent]
      end == drive.dest + Unit * drive.asked
      one == Put(mem.ee, drive.dest, Line - drive.mis, LAMBDA u : drive.first[u + 1])
      both == Put(one, end - drive.mis, drive.mis, LAMBDA u : last)
  IN /\ drive.pc = "end"
     /\ Skewed => dma = NoDma
     /\ mem' = IF Skewed THEN [mem EXCEPT !.ee = both] ELSE mem
     /\ drive' = Done
     /\ UNCHANGED <<dev, cache, dma, slips>>

\* The EE's memory gets what is in the buffer when the transfer reads it
DmaEnd ==
  /\ dma.src = "cache"
  /\ mem' = [mem EXCEPT !.ee = Put(mem.ee, dma.to, dma.n, LAMBDA u : cache[dma.from + u])]
  /\ dma' = NoDma
  /\ UNCHANGED <<dev, cache, drive, slips>>

\* sceCdBreak: looked at after each part of the read
Break ==
  /\ drive.pc # "idle" /\ ~drive.abort
  /\ drive' = [drive EXCEPT !.abort = TRUE]
  /\ UNCHANGED <<dev, mem, cache, dma, slips>>

\* A read by the game or by CDVDFSV, of a free drive
Read(side, mis, lsn, n) ==
  /\ drive.pc = "idle" /\ dma = NoDma
  /\ lsn + n <= Sectors
  /\ mem' = [s \in Side |-> [a \in Addr |-> Old]]
  /\ cache' = [a \in DOMAIN cache |-> Old]
  /\ drive' = Command(side, Line + mis, lsn, n)
  /\ slips' = {} /\ UNCHANGED <<dev, dma>>

ReadInit ==
  /\ dev \in DevUnits
  /\ mem = [s \in Side |-> [a \in Addr |-> Old]]
  /\ cache = [a \in 0 .. Unit * Cache - 1 |-> Old]
  /\ drive = Rest /\ dma = NoDma /\ slips = {}

DriveStep == ReadBlock \/ NextChunk \/ ChunkRead \/ Finish
ReadStep ==
  \/ DriveStep \/ DmaEnd \/ Break
  \/ \E side \in {"iop", "ee"}, mis \in 0 .. Line - 1, lsn \in Lsns, n \in 1 .. MaxRead : Read(side, mis, lsn, n)

-----------------------------------------------------------------------------
(* Properties *)

Ended == drive.pc = "idle" /\ dma = NoDma /\ drive.asked > 0 /\ drive.side \in {"iop", "ee"}
Asked == drive.dest .. drive.dest + Unit * drive.asked - 1

\* A read that has ended has put the sectors it was asked for where it was asked to, each
\* unit in its place, whatever the alignment of the buffer, the size of the drive's buffer
\* and the device's sectors, unless the code did not allow for what happened; and a read
\* never writes beside the buffer it was given, though the EE's is written to in whole
\* lines, not even when it is aborted or crosses the end of a slice (async_read, read_sector).
ReadExact ==
  /\ Ended /\ slips = {} =>
       \A a \in Asked : mem[drive.side][a] = Unit * drive.from + (a - drive.dest)
  /\ \A s \in {"iop", "ee"}, a \in Addr : s # drive.side \/ a \notin Asked => mem[s][a] = Old

=============================================================================
