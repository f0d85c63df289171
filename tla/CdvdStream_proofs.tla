-------------------------- MODULE CdvdStream_proofs --------------------------
(***************************************************************************)
(* Proofs about CdvdRead, CdvdFile and CdvdStream: whatever the image, its *)
(* slices, the sectors of the device and the drive's buffer are, reads of  *)
(* sectors, of files and of streams give what is in the image.             *)
(***************************************************************************)
EXTENDS CdvdStream, TLAPS

\* Unit k of the image, or what is behind its end.
Img(k) == IF k < Unit * Sectors THEN k ELSE Junk

\* The domains, as far as the proofs need them.
DriveType ==
  [pc : {"idle", "chunk", "block", "end"}, side : Side, mis : 0 .. 1, dest : Nat, lsn : Nat,
   sectors : Nat, left : Nat, rbuf : Nat, src : 0 .. 1, sent : Nat, first : Int \X Int, chunk : Nat,
   lbn : Nat, todo : Nat, at : Nat, asked : Nat, from : Nat, abort : BOOLEAN]
DmaType == [src : {"none", "cache", "ring"}, from : Nat, to : Nat, n : Nat]
Types ==
  /\ dev \in DevUnits
  /\ mem \in [Side -> [Addr -> Int]] /\ cache \in [0 .. Unit * Cache - 1 -> Int]
  /\ drive \in DriveType /\ dma \in DmaType
  /\ slips \subseteq {"crossed", "coarse", "overtaken", "cut"}

\* Where a read stands: how much is left of it, and where in the image and in the buffers it is.
Slack == IF Skewed THEN Line ELSE 0
Passed == drive.asked - drive.sectors   \* sectors
Read1 == drive.chunk - drive.todo       \* sectors of this part that read_sector has read
Where ==
  drive.pc # "idle" =>
    /\ drive.asked > 0 /\ drive.dest + Unit * drive.asked <= Unit * MaxRead + 2 * Line
    /\ drive.mis = drive.dest % Line
    /\ drive.pc = "end" =>
         /\ drive.left = 0
         /\ Skewed => /\ drive.src + drive.sent < Unit * Cache
    /\ drive.pc \in {"chunk", "block"} =>
         /\ drive.sectors \in 1 .. drive.asked
         /\ drive.left = Unit * drive.sectors - Slack
         /\ drive.lsn = drive.from + Passed
         /\ Direct => drive.sectors = drive.asked
         /\ ~Direct => drive.rbuf = Unit * Passed + IF Passed > 0 THEN Source ELSE 0
    /\ drive.pc = "chunk" /\ Direct => drive.rbuf = 0
    /\ drive.pc = "block" =>
         /\ drive.chunk = ChunkSize /\ drive.todo <= drive.chunk
         /\ drive.lbn = drive.lsn + Read1
         /\ drive.at = Unit * Read1 + IF Direct THEN drive.dest ELSE 0
         /\ Direct => drive.rbuf = Unit * Read1

\* Division with a remainder.
LEMMA Divided ==
  ASSUME NEW x \in Nat, NEW p \in Nat, p > 0
  PROVE  /\ x \div p \in Nat /\ x % p \in 0 .. p - 1
         /\ x = p * (x \div p) + (x % p)
<1>1. x = p * (x \div p) + (x % p)
  BY Z3
<1>2. x \div p \in Nat /\ x % p \in 0 .. p - 1
  OBVIOUS
<1>. QED
  BY <1>1, <1>2

\* The fields of the drive's record.
LEMMA Fields ==
  ASSUME Types
  PROVE  /\ drive.dest \in Nat /\ drive.lsn \in Nat /\ drive.sectors \in Nat /\ drive.left \in Nat
         /\ drive.rbuf \in Nat /\ drive.sent \in Nat /\ drive.chunk \in Nat /\ drive.lbn \in Nat
         /\ drive.todo \in Nat /\ drive.at \in Nat /\ drive.asked \in Nat /\ drive.from \in Nat
         /\ drive.side \in Side /\ drive.mis \in 0 .. 1 /\ drive.src \in 0 .. 1
         /\ drive.first \in Int \X Int /\ drive.abort \in BOOLEAN
         /\ drive.pc \in {"idle", "chunk", "block", "end"} /\ drive \in DriveType
BY DEF Types, DriveType

\* Those that are numbers.
LEMMA Nats ==
  ASSUME Types
  PROVE  /\ drive.dest \in Nat /\ drive.lsn \in Nat /\ drive.sectors \in Nat /\ drive.left \in Nat
         /\ drive.rbuf \in Nat /\ drive.sent \in Nat /\ drive.chunk \in Nat /\ drive.lbn \in Nat
         /\ drive.todo \in Nat /\ drive.at \in Nat /\ drive.asked \in Nat /\ drive.from \in Nat
         /\ drive.mis \in 0 .. 1 /\ drive.src \in 0 .. 1
BY Fields

\* How many units of the device come with n sectors: never more.
LEMMA Arrives ==
  ASSUME Types, NEW lbn \in Nat, NEW n \in {1, 2}
  PROVE  /\ Arriving(lbn, n) \in Nat /\ Arriving(lbn, n) <= Unit * n
         /\ Start(lbn) \in Nat
         /\ Crossing(lbn, n) <= 0 /\ dev <= n * Unit => Arriving(lbn, n) = Unit * n
<1>1. dev \in {1, 4, 8} /\ PerSlice \in Nat \ {0}
  BY ReadAssumption DEF Types
<1>2. lbn % PerSlice \in 0 .. PerSlice - 1 /\ lbn \div PerSlice \in Nat
      /\ lbn = PerSlice * (lbn \div PerSlice) + (lbn % PerSlice)
  BY <1>1, Divided
<1>3. Crossing(lbn, n) \in Int /\ Crossing(lbn, n) <= n - 1
  BY <1>2, <1>1 DEF Crossing
<1>. HIDE DEF Crossing
<1>4. /\ Arriving(lbn, n) \in Nat /\ Arriving(lbn, n) <= Unit * n
      /\ Crossing(lbn, n) <= 0 /\ dev <= n * Unit => Arriving(lbn, n) = Unit * n
  <2>1. CASE dev = 1
    BY <2>1, <1>3 DEF Arriving, DeviceSectors, Unit
  <2>2. CASE dev = 4
    BY <2>2, <1>3 DEF Arriving, DeviceSectors, Unit
  <2>3. CASE dev = 8
    BY <2>3, <1>3 DEF Arriving, DeviceSectors, Unit
  <2>. QED
    BY <1>1, <2>1, <2>2, <2>3
<1>5. Start(lbn) \in Nat
  <2>1. lbn - PerSlice * (lbn \div PerSlice) = lbn % PerSlice
    BY <1>1, <1>2
  <2>. DEFINE k == lbn % PerSlice
  <2>2. k \in Nat
    BY <1>2
  <2>3. Start(lbn) = ((k * Unit) \div dev) * dev
    BY <2>1 DEF Start
  <2>. HIDE DEF k
  <2>. QED
    BY <1>1, <2>2, <2>3 DEF Unit
<1>. QED
  BY <1>4, <1>5

\* What arrives is a unit of the image, or not.
LEMMA OnDiskIsUnit ==
  ASSUME NEW slice \in Nat, NEW k \in Nat
  PROVE  OnDisk(slice, k) \in Int
<1>1. Unit * PerSlice \in Nat
  BY ReadAssumption DEF Unit
<1>2. Unit * PerSlice * slice + k \in Int
  BY <1>1
<1>. QED
  BY <1>2 DEF OnDisk, Junk

\* Where they come from, when they are whole sectors of the device in one slice.
LEMMA ArrivesFrom ==
  ASSUME Types, NEW lbn \in Nat, NEW n \in {1, 2}, NEW u \in 0 .. Unit * n - 1,
         Crossing(lbn, n) <= 0, dev <= n * Unit, Start(lbn) = (lbn % PerSlice) * Unit
  PROVE  OnDisk(lbn \div PerSlice, Start(lbn) + u) = Img(Unit * lbn + u)
<1>1. PerSlice \in Nat \ {0} /\ Sectors \in Nat
  BY ReadAssumption
<1>. DEFINE r == lbn % PerSlice
            q == lbn \div PerSlice
            p == PerSlice * q
<1>2. r \in 0 .. PerSlice - 1 /\ q \in Nat /\ lbn = p + r /\ p \in Nat
  BY <1>1, Divided
<1>3. Unit * PerSlice * q = Unit * p
  BY <1>1, <1>2 DEF Unit
<1>4. Start(lbn) = r * Unit /\ r + n <= PerSlice
  BY <1>1, <1>2 DEF Crossing
<1>. HIDE DEF r, p
<1>5. OnDisk(q, Start(lbn) + u) = Img(Unit * lbn + u)
  BY <1>1, <1>2, <1>3, <1>4 DEF OnDisk, Img, Unit
<1>. QED
  BY <1>5
-----------------------------------------------------------------------------
(* What a read has put where                                               *)

\* Where the DMA that is under way will put data.
Coming(a) == dma.src = "cache" /\ a \in dma.to .. dma.to + dma.n - 1

\* The DMA of a read takes what was read, and stays in the buffer of the game.
DmaOK ==
  /\ dma.src = "none" => dma = NoDma
  /\ dma.src = "cache" =>
       /\ drive.side = "ee" /\ drive.asked > 0
       /\ dma.from + dma.n <= Unit * Cache
       /\ drive.dest <= dma.to /\ dma.to + dma.n <= drive.dest + Unit * drive.asked
       /\ drive.dest + Unit * drive.asked <= Unit * MaxRead + 2 * Line
DmaRight ==
  dma.src = "cache" =>
    \A u \in 0 .. dma.n - 1 :
      cache[dma.from + u] = Img(Unit * drive.from + (dma.to + u - drive.dest))

\* The units lo to hi - 1 of what was asked for are in place, or will be.
Right(lo, hi) ==
  \A u \in lo .. hi - 1 :
    Coming(drive.dest + u) \/ mem[drive.side][drive.dest + u] = Img(Unit * drive.from + u)

\* What is in place at each point of a read, and in the drive's buffer.
Data ==
  slips = {} =>
    /\ DmaRight
    /\ drive.pc = "idle" => Right(0, Unit * drive.asked)
    /\ drive.pc \in {"chunk", "block"} => Right(Source, drive.rbuf)
    /\ drive.pc = "end" => Right(Source, Unit * drive.asked - Source)
    /\ Skewed /\ drive.pc # "idle" /\ (drive.pc = "end" \/ drive.rbuf > 0) =>
         drive.first[1] = Img(Unit * drive.from)
    /\ drive.pc = "end" /\ Skewed =>
         cache[drive.src + drive.sent] = Img(Unit * drive.from + Unit * drive.asked - 1)
    /\ drive.pc = "block" /\ ~Direct =>
         \A u \in 0 .. Unit * Read1 - 1 : cache[u] = Img(Unit * drive.lsn + u)

ReadInv == Types /\ Where /\ DmaOK /\ Data

\* What a step leaves alone: everything but the buffer of the game.
Beside ==
  \A s \in Side, a \in Addr :
    s # drive.side \/ a \notin drive.dest .. drive.dest + Unit * drive.asked - 1 =>
      mem'[s][a] = mem[s][a]

\* The request stays while it is carried out.
SameRead ==
  /\ drive'.side = drive.side /\ drive'.mis = drive.mis /\ drive'.dest = drive.dest
  /\ drive'.asked = drive.asked /\ drive'.from = drive.from

\* A turn of read_sector.
LEMMA BlockTypes ==
  ASSUME Types, Where, ReadBlock
  PROVE  /\ Types' /\ drive'.pc = "block" /\ SameRead /\ dma' = dma
         /\ drive'.sectors = drive.sectors /\ drive'.left = drive.left /\ drive'.lsn = drive.lsn
         /\ drive'.chunk = drive.chunk /\ drive'.first = drive.first
         /\ \E n \in {1, 2} :
              /\ n <= drive.todo /\ drive'.todo = drive.todo - n
              /\ drive'.lbn = drive.lbn + n /\ drive'.at = drive.at + Unit * n
              /\ drive'.rbuf = drive.rbuf + IF Direct THEN Unit * n ELSE 0
              /\ drive.at + Unit * n <= IF Direct THEN drive.dest + Unit * drive.asked ELSE Unit * Cache
              /\ LET k == Arriving(drive.lbn, n)
                     v(u) == OnDisk(drive.lbn \div PerSlice, Start(drive.lbn) + u)
                 IN /\ \A s \in Side, a \in Addr :
                         mem'[s][a] = IF Direct /\ s = drive.side /\ a \in drive.at .. drive.at + k - 1
                                      THEN v(a - drive.at) ELSE mem[s][a]
                    /\ \A a \in 0 .. Unit * Cache - 1 :
                         cache'[a] = IF ~Direct /\ a \in drive.at .. drive.at + k - 1
                                     THEN v(a - drive.at) ELSE cache[a]
                    /\ slips' = {} =>
                         /\ slips = {} /\ Crossing(drive.lbn, n) <= 0 /\ dev <= n * Unit
                         /\ Start(drive.lbn) = (drive.lbn % PerSlice) * Unit
                         /\ dma.src = (IF Direct THEN drive.side ELSE "cache") =>
                              (dma.from .. dma.from + dma.n - 1) \cap (drive.at .. drive.at + k - 1) = {}
<1>. DEFINE n == Least(drive.todo, Block)
            k == Arriving(drive.lbn, n)
            v(u) == OnDisk(drive.lbn \div PerSlice, Start(drive.lbn) + u)
<1>1. drive.pc = "block" /\ drive.todo > 0 /\ drive.todo \in Nat /\ dma \in DmaType
  BY Fields DEF ReadBlock, Types
<1>2. n \in {1, 2} /\ n <= drive.todo
  BY <1>1 DEF Least, Block
<1>. HIDE DEF n
<1>. DEFINE rb == IF Direct THEN drive.rbuf + n * Unit ELSE drive.rbuf
<1>3. drive' = [drive EXCEPT !.lbn = @ + n, !.todo = @ - n, !.at = @ + n * Unit, !.rbuf = rb]
      /\ UNCHANGED <<dev, dma>>
  BY DEF ReadBlock, n
<1>4. /\ drive.lbn + n \in Nat /\ drive.todo - n \in Nat /\ drive.at + n * Unit \in Nat /\ rb \in Nat
      /\ rb = drive.rbuf + (IF Direct THEN Unit * n ELSE 0) /\ n * Unit = Unit * n
  <2>1. n \in Nat /\ n * Unit = Unit * n /\ n * Unit \in Nat
    BY <1>2 DEF Unit
  <2>2. drive.lbn + n \in Nat /\ drive.todo - n \in Nat /\ drive.at + n * Unit \in Nat
    BY <1>1, <1>2, <2>1, Nats
  <2>3. rb \in Nat /\ rb = drive.rbuf + (IF Direct THEN Unit * n ELSE 0)
    <3>1. CASE Direct
      BY <2>1, <3>1, Fields
    <3>2. CASE ~Direct
      BY <2>1, <3>2, Fields
    <3>. QED
      BY <3>1, <3>2
  <2>. QED
    BY <2>1, <2>2, <2>3
<1>. HIDE DEF rb
<1>5. /\ drive'.pc = "block" /\ SameRead
      /\ drive'.sectors = drive.sectors /\ drive'.left = drive.left /\ drive'.lsn = drive.lsn
      /\ drive'.chunk = drive.chunk /\ drive'.first = drive.first
      /\ drive'.todo = drive.todo - n
      /\ drive'.lbn = drive.lbn + n /\ drive'.at = drive.at + Unit * n
      /\ drive'.rbuf = drive.rbuf + IF Direct THEN Unit * n ELSE 0
  BY <1>1, <1>3, <1>4, Fields DEF DriveType, SameRead
<1>6. drive' \in DriveType
  BY <1>3, <1>4, Fields DEF DriveType
<1>7. drive.at + Unit * n <= IF Direct THEN drive.dest + Unit * drive.asked ELSE Unit * Cache
  <2>0. /\ Cache \in Nat \ {0, 1} /\ drive.todo <= drive.chunk /\ drive.chunk = ChunkSize
        /\ drive.at = Unit * Read1 + (IF Direct THEN drive.dest ELSE 0)
        /\ Direct => drive.sectors = drive.asked
    BY <1>1, ReadAssumption DEF Where
  <2>1. CASE Direct
    <3>1. ChunkSize = drive.asked
      BY <2>0, <2>1, Fields DEF ChunkSize, Room, Least, Direct, Skewed
    <3>2. drive.at = 4 * (drive.chunk - drive.todo) + drive.dest /\ drive.chunk = drive.asked
      BY <2>0, <2>1, <3>1 DEF Read1, Unit
    <3>3. drive.at + 4 * n <= drive.dest + 4 * drive.asked
      BY <3>2, <1>1, <1>2, Nats
    <3>. QED
      BY <2>1, <3>3 DEF Unit
  <2>2. CASE ~Direct
    <3>1. ChunkSize <= Cache
      BY <2>0, <2>2, Fields DEF ChunkSize, Room, Least
    <3>. QED
      BY <2>0, <2>2, <3>1, <1>1, <1>2, Fields DEF Read1, Unit
  <2>. QED
    BY <2>1, <2>2
<1>8. k \in Nat /\ \A u \in Nat : v(u) \in Int
  <2>1. k \in Nat /\ Start(drive.lbn) \in Nat /\ drive.lbn \in Nat
    BY <1>2, Nats, Arrives
  <2>2. drive.lbn \div PerSlice \in Nat
    BY <2>1, ReadAssumption, Divided
  <2>. QED
    BY <2>1, <2>2, OnDiskIsUnit
<1>9. /\ mem' \in [Side -> [Addr -> Int]]
      /\ \A s \in Side, a \in Addr :
           mem'[s][a] = IF Direct /\ s = drive.side /\ a \in drive.at .. drive.at + k - 1
                        THEN v(a - drive.at) ELSE mem[s][a]
  <2>. HIDE DEF k, v
  <2>1. mem \in [Side -> [Addr -> Int]] /\ drive.side \in Side /\ drive.at \in Nat
    BY Fields DEF Types
  <2>2. CASE Direct
    <3>1. mem' = [mem EXCEPT ![drive.side] = [a \in DOMAIN mem[drive.side] |->
                    IF a \in drive.at .. drive.at + k - 1 THEN v(a - drive.at) ELSE mem[drive.side][a]]]
      BY <2>2 DEF ReadBlock, Put, n, k, v
    <3>2. \A a \in Addr : a \in drive.at .. drive.at + k - 1 => a - drive.at \in Nat
      BY <1>8, <2>1 DEF Addr
    <3>. QED
      BY <1>8, <2>1, <2>2, <3>1, <3>2
  <2>3. CASE ~Direct
    <3>1. mem' = mem
      BY <2>3 DEF ReadBlock
    <3>. QED
      BY <2>1, <2>3, <3>1
  <2>. QED
    BY <2>2, <2>3
<1>10. /\ cache' \in [0 .. Unit * Cache - 1 -> Int]
       /\ \A a \in 0 .. Unit * Cache - 1 :
            cache'[a] = IF ~Direct /\ a \in drive.at .. drive.at + k - 1
                        THEN v(a - drive.at) ELSE cache[a]
  <2>. HIDE DEF k, v
  <2>1. cache \in [0 .. Unit * Cache - 1 -> Int] /\ drive.at \in Nat
    BY Fields DEF Types
  <2>2. CASE ~Direct
    <3>1. cache' = [a \in DOMAIN cache |->
                    IF a \in drive.at .. drive.at + k - 1 THEN v(a - drive.at) ELSE cache[a]]
      BY <2>2 DEF ReadBlock, Put, n, k, v
    <3>2. \A a \in 0 .. Unit * Cache - 1 : a \in drive.at .. drive.at + k - 1 => a - drive.at \in Nat
      BY <1>8, <2>1
    <3>. QED
      BY <1>8, <2>1, <2>2, <3>1, <3>2
  <2>3. CASE Direct
    <3>1. cache' = cache
      BY <2>3 DEF ReadBlock
    <3>. QED
      BY <2>1, <2>3, <3>1
  <2>. QED
    BY <2>2, <2>3
<1>11. /\ slips' \subseteq {"crossed", "coarse", "overtaken", "cut"}
       /\ slips' = {} =>
            /\ slips = {} /\ Crossing(drive.lbn, n) <= 0 /\ dev <= n * Unit
            /\ Start(drive.lbn) = (drive.lbn % PerSlice) * Unit
            /\ dma.src = (IF Direct THEN drive.side ELSE "cache") =>
                 (dma.from .. dma.from + dma.n - 1) \cap (drive.at .. drive.at + k - 1) = {}
  <2>. DEFINE sending == IF dma.src = (IF Direct THEN drive.side ELSE "cache")
                         THEN dma.from .. dma.from + dma.n - 1 ELSE {}
              coarse == dev > n * Unit \/ (Start(drive.lbn) # (drive.lbn % PerSlice) * Unit)
  <2>1. slips' = slips \cup (IF Crossing(drive.lbn, n) > 0 THEN {"crossed"} ELSE {})
                       \cup (IF coarse THEN {"coarse"} ELSE {})
                       \cup (IF sending \cap drive.at .. drive.at + k - 1 # {} THEN {"overtaken"} ELSE {})
    BY DEF ReadBlock, n
  <2>2. slips \subseteq {"crossed", "coarse", "overtaken", "cut"}
    BY DEF Types
  <2>3. slips' = {} => /\ slips = {} /\ ~(Crossing(drive.lbn, n) > 0) /\ ~coarse
                       /\ sending \cap drive.at .. drive.at + k - 1 = {}
    <3>. HIDE DEF sending, coarse, k
    <3>. QED
      BY <2>1
  <2>4. Crossing(drive.lbn, n) \in Int /\ dev \in Nat /\ n * Unit \in Nat
    <3>1. n \in Nat /\ PerSlice \in Nat \ {0} /\ drive.lbn \in Nat /\ DevUnits \subseteq {1, 4, 8}
      BY <1>2, Nats, ReadAssumption
    <3>2. drive.lbn % PerSlice \in Nat
      BY <3>1, Divided
    <3>. QED
      BY <3>1, <3>2 DEF Crossing, Types, Unit
  <2>5. slips' = {} => Crossing(drive.lbn, n) <= 0 /\ dev <= n * Unit
    BY <2>3, <2>4
  <2>6. slips' \subseteq {"crossed", "coarse", "overtaken", "cut"}
    <3>. HIDE DEF sending, coarse, k
    <3>. QED
      BY <2>1, <2>2
  <2>. QED
    BY <2>3, <2>5, <2>6
<1>12. Types'
  BY <1>3, <1>6, <1>9, <1>10, <1>11 DEF Types
<1>13. n <= drive.todo /\ n \in {1, 2}
  BY <1>2
<1>. QED
  BY <1>3, <1>5, <1>7, <1>9, <1>10, <1>11, <1>12, <1>13, Zenon

\* The conjuncts of Where, for a step that starts or goes on in the middle of a read.
LEMMA BlockWhere ==
  ASSUME Types, Where, ReadBlock
  PROVE  Where'
<1>1. PICK n \in {1, 2} :
        /\ n <= drive.todo /\ drive'.todo = drive.todo - n
        /\ drive'.lbn = drive.lbn + n /\ drive'.at = drive.at + Unit * n
        /\ drive'.rbuf = drive.rbuf + IF Direct THEN Unit * n ELSE 0
  BY BlockTypes
<1>2. /\ drive.pc = "block" /\ drive'.pc = "block" /\ SameRead
      /\ drive'.sectors = drive.sectors /\ drive'.left = drive.left /\ drive'.lsn = drive.lsn
      /\ drive'.chunk = drive.chunk
  BY BlockTypes DEF ReadBlock
<1>3. /\ Direct' <=> Direct
      /\ Skewed' <=> Skewed
  BY <1>2 DEF SameRead, Direct, Skewed
<1>4. Source' = Source /\ Slack' = Slack /\ ChunkSize' = ChunkSize /\ Passed' = Passed
  BY <1>2, <1>3 DEF SameRead, Source, Slack, ChunkSize, Room, Passed, Least
<1>5. Read1' = Read1 + n /\ Read1 \in Int
  <2>1. n \in Nat
    BY <1>1
  <2>. QED
    BY <2>1, <1>1, <1>2, Nats DEF Read1
<1>6. /\ drive.asked > 0 /\ drive.dest + Unit * drive.asked <= Unit * MaxRead + 2 * Line
      /\ drive.mis = drive.dest % Line
      /\ drive.sectors \in 1 .. drive.asked
      /\ drive.left = Unit * drive.sectors - Slack
      /\ drive.lsn = drive.from + Passed
      /\ Direct => drive.sectors = drive.asked
      /\ ~Direct => drive.rbuf = Unit * Passed + IF Passed > 0 THEN Source ELSE 0
      /\ drive.chunk = ChunkSize /\ drive.todo <= drive.chunk
      /\ drive.lbn = drive.lsn + Read1
      /\ drive.at = Unit * Read1 + IF Direct THEN drive.dest ELSE 0
      /\ Direct => drive.rbuf = Unit * Read1
  BY <1>2 DEF Where
<1>7. /\ drive'.todo <= drive'.chunk
      /\ drive'.lbn = drive'.lsn + Read1'
      /\ drive'.at = Unit * Read1' + IF Direct THEN drive.dest ELSE 0
      /\ Direct => drive'.rbuf = Unit * Read1'
      /\ ~Direct => drive'.rbuf = drive.rbuf
  <2>1. n \in Nat
    BY <1>1
  <2>2. CASE Direct
    BY <2>1, <2>2, <1>1, <1>2, <1>5, <1>6, Nats DEF Unit
  <2>3. CASE ~Direct
    BY <2>1, <2>3, <1>1, <1>2, <1>5, <1>6, Nats DEF Unit
  <2>. QED
    BY <2>2, <2>3
<1>. QED
  BY <1>2, <1>3, <1>4, <1>6, <1>7, Zenon DEF Where, SameRead

\* A turn of read_sector puts its sectors behind those that are there.
LEMMA BlockData ==
  ASSUME ReadInv, ReadBlock
  PROVE  Data' /\ Beside /\ (slips' = {} => slips = {})
<1>0. Types /\ Where /\ DmaOK /\ Data /\ Types' /\ Where' /\ drive.pc = "block"
  BY BlockTypes, BlockWhere DEF ReadInv, ReadBlock
<1>1. /\ drive'.pc = "block" /\ SameRead /\ dma' = dma
      /\ drive'.sectors = drive.sectors /\ drive'.left = drive.left /\ drive'.lsn = drive.lsn
      /\ drive'.chunk = drive.chunk /\ drive'.first = drive.first
  BY <1>0, BlockTypes
<1>. DEFINE K(n) == Arriving(drive.lbn, n)
            v(u) == OnDisk(drive.lbn \div PerSlice, Start(drive.lbn) + u)
<1>2. PICK n \in {1, 2} :
        /\ n <= drive.todo /\ drive'.todo = drive.todo - n
        /\ drive'.rbuf = drive.rbuf + IF Direct THEN Unit * n ELSE 0
        /\ drive.at + Unit * n <= IF Direct THEN drive.dest + Unit * drive.asked ELSE Unit * Cache
        /\ \A s \in Side, a \in Addr :
             mem'[s][a] = IF Direct /\ s = drive.side /\ a \in drive.at .. drive.at + K(n) - 1
                          THEN v(a - drive.at) ELSE mem[s][a]
        /\ \A a \in 0 .. Unit * Cache - 1 :
             cache'[a] = IF ~Direct /\ a \in drive.at .. drive.at + K(n) - 1
                         THEN v(a - drive.at) ELSE cache[a]
        /\ slips' = {} =>
             /\ slips = {} /\ Crossing(drive.lbn, n) <= 0 /\ dev <= n * Unit
             /\ Start(drive.lbn) = (drive.lbn % PerSlice) * Unit
             /\ dma.src = (IF Direct THEN drive.side ELSE "cache") =>
                  (dma.from .. dma.from + dma.n - 1) \cap (drive.at .. drive.at + K(n) - 1) = {}
  BY <1>0, BlockTypes, Zenon
<1>. DEFINE k == K(n)
<1>3. /\ k \in Nat /\ k <= Unit * n
      /\ Crossing(drive.lbn, n) <= 0 /\ dev <= n * Unit => k = Unit * n
  <2>1. drive.lbn \in Nat /\ n * Unit = Unit * n
    BY <1>0, Nats DEF Unit
  <2>. QED
    BY <2>1, <1>0, Arrives
<1>4. /\ Direct' <=> Direct
      /\ Skewed' <=> Skewed
      /\ Source' = Source /\ Passed' = Passed
  BY <1>1 DEF SameRead, Direct, Skewed, Source, Passed
<1>5. /\ drive.sectors \in 1 .. drive.asked
      /\ drive.lsn = drive.from + Passed
      /\ Direct => drive.sectors = drive.asked
      /\ drive.chunk \in Nat /\ drive.todo <= drive.chunk
      /\ drive.lbn = drive.lsn + Read1
      /\ drive.at = Unit * Read1 + IF Direct THEN drive.dest ELSE 0
      /\ Direct => drive.rbuf = Unit * Read1
      /\ drive.dest + Unit * drive.asked <= Unit * MaxRead + 2 * Line
  BY <1>0, Nats DEF Where
<1>6. Read1 \in Nat /\ Read1' = Read1 + n /\ n \in Nat
  BY <1>0, <1>1, <1>2, <1>5, Nats DEF Read1
<1>7. slips' = {} => \A u \in 0 .. Unit * n - 1 : v(u) = Img(Unit * drive.lbn + u)
  <2>. SUFFICES ASSUME slips' = {}, NEW u \in 0 .. Unit * n - 1
                PROVE  v(u) = Img(Unit * drive.lbn + u)
    OBVIOUS
  <2>1. drive.lbn \in Nat /\ Crossing(drive.lbn, n) <= 0 /\ dev <= n * Unit /\ n * Unit = Unit * n
        /\ Start(drive.lbn) = (drive.lbn % PerSlice) * Unit
    BY <1>0, <1>2, Nats DEF Unit
  <2>. QED
    BY <2>1, <1>0, ArrivesFrom
<1>. HIDE DEF K, v, k
<1>8. Beside
  <2>1. ASSUME NEW s \in Side, NEW a \in Addr,
               s # drive.side \/ a \notin drive.dest .. drive.dest + Unit * drive.asked - 1
        PROVE  mem'[s][a] = mem[s][a]
    <3>1. CASE ~Direct \/ s # drive.side
      BY <3>1, <1>2
    <3>2. CASE Direct /\ s = drive.side
      <4>1. drive.dest <= drive.at /\ drive.at + k <= drive.dest + Unit * drive.asked
        <5>1. drive.at = Unit * Read1 + drive.dest
              /\ drive.at + Unit * n <= drive.dest + Unit * drive.asked
          BY <3>2, <1>2, <1>5, Zenon
        <5>. QED
          BY <5>1, <1>0, <1>3, <1>6, Nats DEF Unit
      <4>2. a \notin drive.at .. drive.at + k - 1
        <5>1. drive.dest \in Nat /\ drive.at \in Nat /\ drive.asked \in Nat /\ a \in Int
          BY <1>0, Nats, ReadAssumption DEF Addr, Unit, Line
        <5>. QED
          BY <5>1, <4>1, <3>2, <2>1, <1>3 DEF Unit
      <4>. QED
        BY <4>2, <1>2 DEF k
    <3>. QED
      BY <3>1, <3>2
  <2>. QED
    BY <2>1 DEF Beside
<1>9. ASSUME slips' = {} PROVE slips = {} /\ k = Unit * n
  <2>1. slips = {} /\ Crossing(drive.lbn, n) <= 0 /\ dev <= n * Unit
    BY <1>9, <1>2, Zenon
  <2>. QED
    BY <2>1, <1>3, Zenon
<1>10. ASSUME slips' = {} PROVE DmaRight'
  <2>. SUFFICES ASSUME dma.src = "cache", NEW u \in 0 .. dma.n - 1
                PROVE  cache'[dma.from + u] = Img(Unit * drive.from + (dma.to + u - drive.dest))
    BY <1>1 DEF DmaRight, SameRead
  <2>1. /\ drive.side = "ee" /\ dma.from + dma.n <= Unit * Cache /\ dma.from \in Nat /\ dma.n \in Nat
        /\ ~Direct
        /\ cache[dma.from + u] = Img(Unit * drive.from + (dma.to + u - drive.dest))
    BY <1>0, <1>9, <1>10 DEF DmaOK, Data, DmaRight, Types, DmaType, Direct
  <2>2. (dma.from .. dma.from + dma.n - 1) \cap (drive.at .. drive.at + k - 1) = {}
    BY <2>1, <1>2, <1>10 DEF k
  <2>3. dma.from + u \in dma.from .. dma.from + dma.n - 1 /\ dma.from + u \in 0 .. Unit * Cache - 1
    BY <2>1, ReadAssumption DEF Unit
  <2>4. cache'[dma.from + u] = cache[dma.from + u]
    BY <2>2, <2>3, <1>2 DEF k
  <2>. QED
    BY <2>1, <2>4
<1>11. ASSUME slips' = {} PROVE Right(Source, drive.rbuf)'
  <2>. SUFFICES ASSUME NEW u \in Source .. drive'.rbuf - 1
                PROVE  Coming(drive.dest + u) \/ mem'[drive.side][drive.dest + u] = Img(Unit * drive.from + u)
    BY <1>1, <1>4 DEF Right, SameRead, Coming
  <2>0. \A w \in Source .. drive.rbuf - 1 :
          Coming(drive.dest + w) \/ mem[drive.side][drive.dest + w] = Img(Unit * drive.from + w)
    BY <1>0, <1>9, <1>11 DEF Data, Right
  <2>1. CASE ~Direct
    <3>1. drive'.rbuf = drive.rbuf
      BY <2>1, <1>0, <1>2, Nats
    <3>2. u \in Nat /\ drive.dest + u \in Addr
      <4>1. drive.rbuf <= Unit * drive.asked /\ Source \in 0 .. 2
        <5>1. drive.rbuf = Unit * Passed + (IF Passed > 0 THEN Source ELSE 0)
          BY <2>1, <1>0 DEF Where
        <5>2. Source \in 0 .. 2 /\ drive.asked \in Nat /\ drive.sectors \in Nat /\ Passed \in Int
          BY <1>0, Nats DEF Source, Line, Passed
        <5>. QED
          <6>1. Passed <= drive.asked - 1 /\ Passed >= 0
            BY <5>2, <1>5 DEF Passed
          <6>. QED
            BY <5>1, <5>2, <6>1 DEF Unit
      <4>. QED
        BY <4>1, <3>1, <1>0, <1>5, Nats, ReadAssumption DEF Addr, Unit, Line
    <3>3. mem'[drive.side][drive.dest + u] = mem[drive.side][drive.dest + u]
      BY <2>1, <3>2, <1>0, <1>2, Fields
    <3>. QED
      BY <2>0, <3>1, <3>3
  <2>2. CASE Direct
    <3>0. Source = 0 /\ drive.at = drive.rbuf + drive.dest /\ drive'.rbuf = drive.rbuf + Unit * n
          /\ drive.rbuf \in Nat /\ drive.dest \in Nat /\ drive.at + k \in Nat /\ k = Unit * n
          /\ drive.side \in Side
      <4>1. Source = 0 /\ k = Unit * n /\ drive.side \in Side
        BY <2>2, <1>0, <1>9, <1>11, Fields DEF Direct, Skewed, Source
      <4>2. drive.at = Unit * Read1 + drive.dest /\ drive.rbuf = Unit * Read1
            /\ drive'.rbuf = drive.rbuf + Unit * n
        BY <2>2, <1>2, <1>5, Zenon
      <4>. QED
        BY <4>1, <4>2, <1>0, <1>6, Nats DEF Unit
    <3>1. drive.dest + u \in Addr /\ u \in Nat /\ u < drive.rbuf + Unit * n
      BY <3>0, <2>2, <1>0, <1>2, <1>3, <1>5, <1>6, Nats, ReadAssumption DEF Addr, Unit, Line
    <3>2. CASE u < drive.rbuf
      <4>1. drive.dest + u \notin drive.at .. drive.at + k - 1
        BY <3>0, <3>1, <3>2
      <4>2. mem'[drive.side][drive.dest + u] = mem[drive.side][drive.dest + u]
        BY <4>1, <3>0, <3>1, <1>2 DEF k
      <4>. QED
        BY <2>0, <3>0, <3>1, <3>2, <4>2
    <3>3. CASE u >= drive.rbuf
      <4>1. drive.dest + u \in drive.at .. drive.at + k - 1 /\ drive.dest + u - drive.at = u - drive.rbuf
            /\ u - drive.rbuf \in 0 .. Unit * n - 1
        BY <3>0, <3>1, <3>3, <1>6 DEF Unit
      <4>2. mem'[drive.side][drive.dest + u] = v(u - drive.rbuf)
        BY <4>1, <3>0, <3>1, <2>2, <1>2 DEF k
      <4>3. v(u - drive.rbuf) = Img(Unit * drive.lbn + (u - drive.rbuf))
        BY <4>1, <1>7, <1>11
      <4>4. Unit * drive.lbn + (u - drive.rbuf) = Unit * drive.from + u
        <5>1. Passed = 0
          BY <2>2, <1>0, <1>5, Nats DEF Passed
        <5>2. drive.lbn = drive.from + Read1 /\ drive.rbuf = Unit * Read1
          BY <5>1, <2>2, <1>0, <1>5, Nats
        <5>. QED
          BY <5>2, <1>0, <1>6, <3>1, Nats DEF Unit
      <4>. QED
        BY <4>2, <4>3, <4>4
    <3>. QED
      BY <3>2, <3>3, <3>0, <3>1
  <2>. QED
    BY <2>1, <2>2
<1>12. ASSUME slips' = {}, ~Direct, NEW u \in 0 .. Unit * Read1' - 1
       PROVE  cache'[u] = Img(Unit * drive.lsn + u)
  <2>1. drive.at = Unit * Read1 /\ k = Unit * n /\ Unit * Read1 + Unit * n <= Unit * Cache
        /\ Unit * Read1' = Unit * Read1 + Unit * n
    BY <1>12, <1>2, <1>5, <1>6, <1>9 DEF Unit
  <2>2. u \in Nat /\ u \in 0 .. Unit * Cache - 1
    BY <2>1, <1>6, ReadAssumption DEF Unit
  <2>3. CASE u < Unit * Read1
    <3>1. cache[u] = Img(Unit * drive.lsn + u)
      BY <2>2, <2>3, <1>0, <1>6, <1>9, <1>12 DEF Data, Unit
    <3>2. cache'[u] = cache[u]
      BY <2>1, <2>2, <2>3, <1>2, <1>3, <1>6 DEF k, Unit
    <3>. QED
      BY <3>1, <3>2
  <2>4. CASE u >= Unit * Read1
    <3>1. u - drive.at \in 0 .. Unit * n - 1 /\ u \in drive.at .. drive.at + k - 1
      BY <2>1, <2>2, <2>4, <1>6 DEF Unit
    <3>2. cache'[u] = v(u - drive.at)
      BY <2>2, <3>1, <1>2, <1>12 DEF k
    <3>3. v(u - drive.at) = Img(Unit * drive.lbn + (u - drive.at))
      BY <3>1, <1>7, <1>12
    <3>4. Unit * drive.lbn + (u - drive.at) = Unit * drive.lsn + u
      BY <2>1, <2>2, <1>0, <1>5, <1>6, Nats DEF Unit
    <3>. QED
      BY <3>2, <3>3, <3>4
  <2>. QED
    BY <2>2, <2>3, <2>4, <1>6 DEF Unit
<1>13. ASSUME slips' = {}, Skewed, drive'.rbuf > 0 PROVE drive.first[1] = Img(Unit * drive.from)
  <2>1. drive'.rbuf = drive.rbuf
    BY <1>13, <1>0, <1>2, Nats DEF Skewed, Direct
  <2>. QED
    BY <2>1, <1>0, <1>9, <1>13 DEF Data
<1>14. Data'
  BY <1>1, <1>4, <1>10, <1>11, <1>12, <1>13 DEF Data, SameRead
<1>. QED
  BY <1>8, <1>9, <1>14

\* What is known after a step of the drive, whatever it was asked for.
StepOK ==
  /\ ReadInv' /\ Beside /\ (slips' = {} => slips = {})
  /\ drive'.pc # "idle" => SameRead
  /\ drive'.pc = "idle" =>
       /\ drive' = Done
       /\ slips' = {} /\ drive.side # "ee" =>
            \A u \in 0 .. Unit * drive.asked - 1 :
              mem'[drive.side][drive.dest + u] = Img(Unit * drive.from + u)
  /\ dma' = dma \/ (drive.side = "ee" /\ dma'.src \in {"none", "cache"})
  /\ drive.pc # "idle"
  /\ Direct /\ slips' = {} /\ dma.src = drive.side =>
       \A a \in Addr \cap (dma.from .. dma.from + dma.n - 1) : mem'[drive.side][a] = mem[drive.side][a]

\* The invariant of a read.
LEMMA InvParts == Types' /\ Where' /\ DmaOK' /\ Data' => ReadInv'
BY DEF ReadInv

\* A turn of read_sector, altogether.
LEMMA BlockStep ==
  ASSUME ReadInv, ReadBlock
  PROVE  StepOK
<1>1. Types /\ Where /\ DmaOK /\ Types' /\ Where' /\ Data' /\ Beside /\ (slips' = {} => slips = {})
      /\ SameRead /\ dma' = dma /\ drive'.pc = "block"
  BY BlockTypes, BlockWhere, BlockData DEF ReadInv
<1>2. DmaOK'
  BY <1>1 DEF DmaOK, SameRead
<1>. QED
  <2>1. drive'.pc # "idle"
    BY <1>1
  <2>2. drive.pc # "idle"
    BY DEF ReadBlock
  <2>3. ASSUME Direct, slips' = {}, dma.src = drive.side,
               NEW a \in Addr \cap (dma.from .. dma.from + dma.n - 1)
        PROVE  mem'[drive.side][a] = mem[drive.side][a]
    <3>1. PICK n \in {1, 2} :
            LET k == Arriving(drive.lbn, n)
                v(u) == OnDisk(drive.lbn \div PerSlice, Start(drive.lbn) + u)
            IN /\ \A s \in Side, b \in Addr :
                    mem'[s][b] = IF Direct /\ s = drive.side /\ b \in drive.at .. drive.at + k - 1
                                 THEN v(b - drive.at) ELSE mem[s][b]
               /\ (dma.from .. dma.from + dma.n - 1) \cap (drive.at .. drive.at + k - 1) = {}
      <4>. DEFINE k(n) == Arriving(drive.lbn, n)
                  v(u) == OnDisk(drive.lbn \div PerSlice, Start(drive.lbn) + u)
      <4>1. PICK n \in {1, 2} :
              /\ \A s \in Side, b \in Addr :
                   mem'[s][b] = IF Direct /\ s = drive.side /\ b \in drive.at .. drive.at + k(n) - 1
                                THEN v(b - drive.at) ELSE mem[s][b]
              /\ dma.src = (IF Direct THEN drive.side ELSE "cache") =>
                   (dma.from .. dma.from + dma.n - 1) \cap (drive.at .. drive.at + k(n) - 1) = {}
        BY <1>1, <2>3, BlockTypes, Zenon
      <4>2. (dma.from .. dma.from + dma.n - 1) \cap (drive.at .. drive.at + k(n) - 1) = {}
        <5>1. dma.src = (IF Direct THEN drive.side ELSE "cache")
          BY <2>3
        <5>. QED
          BY <4>1, <5>1, Zenon
      <4>. QED
        BY <4>1, <4>2, Zenon
    <3>2. drive.side \in Side
      BY <1>1, Fields
    <3>. QED
      BY <2>3, <3>1, <3>2
  <2>. QED
    BY <1>1, <1>2, <2>1, <2>2, <2>3, InvParts DEF StepOK

\* The size of the next part of a read.
LEMMA ChunkSizes ==
  ASSUME Types, drive.sectors > 0
  PROVE  /\ ChunkSize \in Nat
         /\ Direct => ChunkSize = drive.sectors
         /\ ~Direct => ChunkSize <= Cache
         /\ Skewed => ChunkSize - 1 \in 1 .. drive.sectors
         /\ ~Skewed => ChunkSize \in 1 .. drive.sectors
<1>1. drive.sectors \in Nat /\ Cache \in Nat \ {0, 1}
  BY Nats, ReadAssumption
<1>2. CASE Direct
  <2>1. ~Skewed
    BY <1>2 DEF Direct, Skewed
  <2>. QED
    BY <1>1, <1>2, <2>1 DEF ChunkSize, Room, Least
<1>3. CASE ~Direct
  <2>1. CASE Skewed
    BY <1>1, <1>3, <2>1 DEF ChunkSize, Room, Least
  <2>2. CASE ~Skewed
    BY <1>1, <1>3, <2>2 DEF ChunkSize, Room, Least
  <2>. QED
    BY <2>1, <2>2
<1>. QED
  BY <1>2, <1>3

\* The next part of a read.
LEMMA ChunkStep ==
  ASSUME ReadInv, NextChunk
  PROVE  StepOK
<1>0. Types /\ Where /\ DmaOK /\ Data /\ drive.pc = "chunk" /\ UNCHANGED <<dev, mem, cache, dma, slips>>
  BY DEF ReadInv, NextChunk
<1>. DEFINE at == IF Direct THEN drive.dest + drive.rbuf ELSE 0
<1>1. drive' = [drive EXCEPT !.pc = "block", !.chunk = ChunkSize, !.lbn = drive.lsn,
                             !.todo = ChunkSize, !.at = at]
  BY DEF NextChunk
<1>2. /\ drive.asked > 0 /\ drive.dest + Unit * drive.asked <= Unit * MaxRead + 2 * Line
      /\ drive.mis = drive.dest % Line
      /\ drive.sectors \in 1 .. drive.asked
      /\ drive.left = Unit * drive.sectors - Slack
      /\ drive.lsn = drive.from + Passed
      /\ Direct => drive.sectors = drive.asked
      /\ ~Direct => drive.rbuf = Unit * Passed + IF Passed > 0 THEN Source ELSE 0
      /\ Direct => drive.rbuf = 0
  BY <1>0 DEF Where
<1>3. ChunkSize \in Nat /\ at \in Nat /\ drive.lsn \in Nat
      /\ at = IF Direct THEN drive.dest ELSE 0
  <2>1. drive.sectors > 0 /\ drive.rbuf \in Nat /\ drive.dest \in Nat /\ drive.lsn \in Nat
    BY <1>0, <1>2, Nats
  <2>2. ChunkSize \in Nat
    BY <1>0, <2>1, ChunkSizes
  <2>. QED
    BY <1>2, <2>1, <2>2
<1>. HIDE DEF at
<1>4. drive' \in DriveType
  BY <1>0, <1>1, <1>3, Fields DEF DriveType
<1>5. /\ drive'.pc = "block" /\ SameRead /\ drive'.sectors = drive.sectors /\ drive'.left = drive.left
      /\ drive'.lsn = drive.lsn /\ drive'.rbuf = drive.rbuf /\ drive'.first = drive.first
      /\ drive'.chunk = ChunkSize /\ drive'.todo = ChunkSize /\ drive'.lbn = drive.lsn /\ drive'.at = at
  BY <1>0, <1>1, <1>3, Fields DEF DriveType, SameRead
<1>6. Types'
  BY <1>0, <1>4 DEF Types
<1>7. /\ Direct' <=> Direct
      /\ Skewed' <=> Skewed
  BY <1>5 DEF SameRead, Direct, Skewed
<1>8. Source' = Source /\ Slack' = Slack /\ ChunkSize' = ChunkSize /\ Passed' = Passed
  BY <1>5, <1>7 DEF SameRead, Source, Slack, ChunkSize, Room, Passed, Least
<1>9. Read1' = 0 /\ drive'.todo <= drive'.chunk
  BY <1>3, <1>5 DEF Read1
<1>10. Where'
  <2>1. /\ drive'.lbn = drive'.lsn + Read1'
        /\ drive'.at = Unit * Read1' + IF Direct THEN drive.dest ELSE 0
        /\ Direct => drive'.rbuf = Unit * Read1'
    <3>1. /\ drive'.lbn = drive'.lsn + Read1' /\ Unit * Read1' = 0
      BY <1>3, <1>5, <1>9 DEF Unit
    <3>2. CASE Direct
      BY <3>1, <3>2, <1>0, <1>2, <1>3, <1>5, Nats
    <3>3. CASE ~Direct
      BY <3>1, <3>3, <1>3, <1>5
    <3>. QED
      BY <3>1, <3>2, <3>3
  <2>. QED
    BY <1>2, <1>5, <1>7, <1>8, <1>9, <2>1, Zenon DEF Where, SameRead
<1>11. DmaOK'
  BY <1>0, <1>5 DEF DmaOK, SameRead
<1>12. Data'
  <2>. SUFFICES ASSUME slips' = {} PROVE Data'
    BY DEF Data
  <2>1. slips = {} /\ DmaRight /\ Right(Source, drive.rbuf)
        /\ (Skewed /\ drive.rbuf > 0 => drive.first[1] = Img(Unit * drive.from))
    BY <1>0 DEF Data
  <2>2. DmaRight' /\ Right(Source, drive.rbuf)'
    BY <2>1, <1>0, <1>5, <1>8 DEF DmaRight, Right, Coming, SameRead
  <2>3. \A u \in 0 .. Unit * Read1' - 1 : FALSE
    BY <1>9 DEF Unit
  <2>. QED
    BY <2>1, <2>2, <2>3, <1>5, <1>7, <1>8 DEF Data, SameRead
<1>13. Beside
  BY <1>0 DEF Beside
<1>. QED
  <2>1. drive'.pc # "idle" /\ dma' = dma /\ slips' = slips /\ mem' = mem /\ drive.pc # "idle"
    BY <1>0, <1>5
  <2>. QED
    BY <2>1, <1>5, <1>6, <1>10, <1>11, <1>12, <1>13, InvParts DEF StepOK

\* What ChunkRead counts with: the sectors and units that are passed on, and where they belong.
Part == IF Skewed THEN drive.chunk - 1 ELSE drive.chunk
Offset == IF Skewed /\ drive.rbuf = 0 THEN Source ELSE drive.rbuf

\* They are within what is left of the read, and within the drive's buffer.
LEMMA PartSizes ==
  ASSUME Types, Where, drive.pc = "block", drive.todo = 0
  PROVE  /\ Part \in 1 .. drive.sectors /\ Bytes(Part) \in Nat /\ Bytes(Part) > 0
         /\ Source \in 0 .. 1 /\ Slack = 2 * Source /\ (Skewed => Source = 1) /\ (~Skewed => Source = 0)
         /\ (drive.left > Bytes(Part)) <=> (Part < drive.sectors)
         /\ Part < drive.sectors => Bytes(Part) = Unit * Part /\ ~Direct
         /\ Part = drive.sectors => Bytes(Part) = drive.left /\ drive.left = Unit * Part - Slack
         /\ Direct => Part = drive.asked /\ Offset = Unit * drive.asked /\ Passed = 0
         /\ ~Direct => /\ Offset = Unit * Passed + Source
                       /\ Source + Bytes(Part) <= Unit * Read1
                       /\ Read1 <= Cache
                       /\ Skewed => Source + Bytes(Part) < Unit * Read1
         /\ Passed \in Nat /\ Read1 = drive.chunk
<1>1. /\ drive.sectors \in 1 .. drive.asked /\ drive.asked \in Nat /\ drive.sectors \in Nat
      /\ drive.left = Unit * drive.sectors - Slack /\ drive.left \in Nat
      /\ Direct => drive.sectors = drive.asked
      /\ ~Direct => drive.rbuf = Unit * Passed + IF Passed > 0 THEN Source ELSE 0
      /\ Direct => drive.rbuf = Unit * Read1
      /\ drive.chunk = ChunkSize /\ Cache \in Nat
  BY Nats, ReadAssumption DEF Where
<1>2. /\ Direct => drive.chunk = drive.sectors
      /\ ~Direct => drive.chunk <= Cache
      /\ Skewed => drive.chunk - 1 \in 1 .. drive.sectors
      /\ ~Skewed => drive.chunk \in 1 .. drive.sectors
      /\ drive.chunk \in Nat
  BY <1>1, ChunkSizes
<1>3. Read1 = drive.chunk
  BY <1>2 DEF Read1
<1>4. Passed \in Nat /\ Passed = drive.asked - drive.sectors
  BY <1>1 DEF Passed
<1>5. CASE Skewed
  <2>1. Source = 1 /\ Slack = 2 /\ ~Direct
    <3>1. drive.mis = 1
      BY <1>5, Nats DEF Skewed
    <3>. QED
      BY <1>5, <3>1 DEF Source, Slack, Line, Skewed, Direct
  <2>2. Part = drive.chunk - 1 /\ Part \in 1 .. drive.sectors /\ Part \in Nat
    BY <1>1, <1>2, <1>5 DEF Part
  <2>3. drive.left = 4 * drive.sectors - 2 /\ Bytes(Part) = IF 4 * Part <= drive.left THEN 4 * Part ELSE drive.left
    BY <1>1, <2>1, <2>2 DEF Bytes, Least, Unit
  <2>4. Offset = Unit * Passed + Source
    <3>1. drive.rbuf = 4 * Passed + IF Passed > 0 THEN 1 ELSE 0
      BY <1>1, <2>1 DEF Unit
    <3>2. CASE Passed = 0
      BY <3>1, <3>2, <2>1, <1>5 DEF Offset, Unit
    <3>3. CASE Passed > 0
      <4>1. drive.rbuf = 4 * Passed + 1 /\ drive.rbuf # 0
        BY <3>1, <3>3, <1>4
      <4>. QED
        BY <4>1, <2>1 DEF Offset, Unit
    <3>. QED
      BY <3>2, <3>3, <1>4
  <2>5. /\ Bytes(Part) \in Nat /\ Bytes(Part) > 0
        /\ (drive.left > Bytes(Part)) <=> (Part < drive.sectors)
        /\ Part < drive.sectors => Bytes(Part) = 4 * Part
        /\ Part = drive.sectors => Bytes(Part) = drive.left /\ drive.left = 4 * Part - 2
        /\ 1 + Bytes(Part) < 4 * drive.chunk
    <3>. HIDE DEF Part, Bytes
    <3>. QED
      BY <1>1, <1>2, <2>2, <2>3
  <2>. QED
    BY <1>2, <1>3, <1>4, <1>5, <2>1, <2>2, <2>4, <2>5 DEF Unit
<1>6. CASE ~Skewed
  <2>1. Source = 0 /\ Slack = 0
    BY <1>6 DEF Source, Slack
  <2>2. Part = drive.chunk /\ Part \in 1 .. drive.sectors /\ Part \in Nat
    BY <1>1, <1>2, <1>6 DEF Part
  <2>3. drive.left = 4 * drive.sectors /\ Bytes(Part) = 4 * Part
    BY <1>1, <2>1, <2>2 DEF Bytes, Least, Unit
  <2>4. Offset = drive.rbuf
    BY <1>6 DEF Offset
  <2>5. CASE Direct
    <3>1. Part = drive.asked /\ Offset = 4 * drive.asked /\ Passed = 0 /\ Part = drive.sectors
      BY <1>1, <1>2, <1>3, <1>4, <2>2, <2>4, <2>5 DEF Unit
    <3>. QED
      BY <1>1, <1>3, <1>4, <1>6, <2>1, <2>2, <2>3, <2>5, <3>1 DEF Unit
  <2>6. CASE ~Direct
    <3>1. Offset = 4 * Passed
      BY <1>1, <1>4, <2>1, <2>4, <2>6 DEF Unit
    <3>. QED
      BY <1>1, <1>2, <1>3, <1>4, <1>6, <2>1, <2>2, <2>3, <2>6, <3>1 DEF Unit
  <2>. QED
    BY <2>5, <2>6
<1>. QED
  BY <1>5, <1>6

\* Nothing under way, and what is left of a read that has ended.
LEMMA RestType ==
  Rest \in DriveType /\ Rest.pc = "idle" /\ Rest.side = "iop" /\ Rest.asked = 0 /\ Rest.dest = 0
  /\ Rest.from = 0 /\ NoDma \in DmaType /\ NoDma.src = "none"
<1>1. <<Old, Old>> \in Int \X Int
  BY DEF Old
<1>. QED
  BY <1>1 DEF Rest, DriveType, NoDma, DmaType, Side

\* A drive whose read has ended keeps the request of the game, and no other.
LEMMA DoneType ==
  ASSUME Types
  PROVE  /\ Done \in DriveType /\ Done.pc = "idle"
         /\ drive.side \in {"iop", "ee"} =>
              /\ Done.side = drive.side /\ Done.asked = drive.asked /\ Done.from = drive.from
              /\ Done.dest = drive.dest
         /\ drive.side \notin {"iop", "ee"} => Done = Rest
<1>1. CASE drive.side \in {"iop", "ee"}
  <2>1. Done = [Rest EXCEPT !.asked = drive.asked, !.from = drive.from, !.side = drive.side, !.dest = drive.dest]
    BY <1>1 DEF Done
  <2>2. drive.asked \in Nat /\ drive.from \in Nat /\ drive.side \in Side /\ drive.dest \in Nat
    BY Fields
  <2>3. Done \in DriveType
    BY <2>1, <2>2, RestType DEF DriveType
  <2>. QED
    BY <1>1, <2>1, <2>2, <2>3, RestType DEF DriveType
<1>2. CASE drive.side \notin {"iop", "ee"}
  BY <1>2, RestType DEF Done
<1>. QED
  BY <1>1, <1>2

\* What ChunkRead does to the memories, and what it sends.
LEMMA PartMoves ==
  ASSUME Types, Where, DmaOK, ChunkRead
  PROVE  /\ mem' \in [Side -> [Addr -> Int]] /\ dma' \in DmaType /\ UNCHANGED <<dev, cache>>
         /\ drive.side = "ee" =>
              /\ dma = NoDma /\ mem' = mem
              /\ dma'.src = "cache" /\ dma'.from = Source /\ dma'.to = drive.dest + Offset
              /\ dma'.n = Bytes(Part)
         /\ drive.side # "ee" => dma' = dma /\ dma.src # "cache"
         /\ Direct => mem' = mem
         /\ drive.side # "ee" /\ ~Direct =>
              \A s \in Side, a \in Addr :
                mem'[s][a] = IF s = drive.side
                                /\ a \in drive.dest + Offset .. drive.dest + Offset + Bytes(Part) - 1
                             THEN cache[a - (drive.dest + Offset)] ELSE mem[s][a]
<1>. DEFINE to == drive.dest + Offset
            bytes == Bytes(Part)
<1>1. /\ drive.pc = "block" /\ drive.todo = 0 /\ UNCHANGED <<dev, cache>>
      /\ drive.side = "ee" => dma = NoDma
      /\ dma' = IF drive.side = "ee" THEN [src |-> "cache", from |-> Source, to |-> to, n |-> bytes]
                ELSE dma
      /\ mem' = IF drive.side # "ee" /\ drive.mis # 0
                THEN [mem EXCEPT ![drive.side] = Put(@, to, bytes, LAMBDA u : cache[u])] ELSE mem
  BY DEF ChunkRead, Part, Offset
<1>2. bytes \in Nat /\ Source \in 0 .. 1
  BY <1>1, PartSizes
<1>3. to \in Nat
  BY <1>2, Nats DEF Offset
<1>4. mem \in [Side -> [Addr -> Int]] /\ dma \in DmaType /\ drive.side \in Side
      /\ cache \in [0 .. Unit * Cache - 1 -> Int]
  BY Fields DEF Types
<1>. HIDE DEF to, bytes
<1>5. /\ dma' \in DmaType
      /\ drive.side = "ee" => /\ dma'.src = "cache" /\ dma'.from = Source /\ dma'.to = to
                              /\ dma'.n = bytes
      /\ drive.side # "ee" => dma' = dma
  <2>1. CASE drive.side = "ee"
    <3>1. dma' = [src |-> "cache", from |-> Source, to |-> to, n |-> bytes]
      BY <2>1, <1>1
    <3>. QED
      BY <2>1, <3>1, <1>2, <1>3 DEF DmaType
  <2>2. CASE drive.side # "ee"
    BY <2>2, <1>1, <1>4
  <2>. QED
    BY <2>1, <2>2
<1>6. /\ mem' \in [Side -> [Addr -> Int]]
      /\ Direct \/ drive.side = "ee" => mem' = mem
      /\ drive.side # "ee" /\ ~Direct =>
           \A s \in Side, a \in Addr :
             mem'[s][a] = IF s = drive.side /\ a \in to .. to + bytes - 1 THEN cache[a - to] ELSE mem[s][a]
  <2>1. CASE Direct \/ drive.side = "ee"
    BY <2>1, <1>1, <1>4 DEF Direct
  <2>2. CASE drive.side # "ee" /\ ~Direct
    <3>1. mem' = [mem EXCEPT ![drive.side] = [a \in DOMAIN mem[drive.side] |->
                    IF a \in to .. to + bytes - 1 THEN cache[a - to] ELSE mem[drive.side][a]]]
      BY <2>2, <1>1 DEF Put, Direct
    <3>2. bytes <= Unit * Cache
      <4>1. 0 + bytes <= Unit * Read1 /\ Read1 <= Cache /\ Read1 \in Nat
        BY <2>2, <1>1, <1>2, PartSizes, Nats DEF Skewed, Source, bytes
      <4>. QED
        BY <4>1, <1>2, ReadAssumption DEF Unit
    <3>3. \A a \in Addr : a \in to .. to + bytes - 1 => a - to \in 0 .. Unit * Cache - 1
      BY <3>2, <1>2, <1>3, ReadAssumption DEF Addr, Unit
    <3>. QED
      BY <2>2, <3>1, <3>3, <1>4
  <2>. QED
    BY <2>1, <2>2
<1>7. drive.side # "ee" => dma.src # "cache"
  BY DEF DmaOK
<1>. QED
  BY <1>1, <1>5, <1>6, <1>7 DEF to, bytes

\* Where it leaves the drive.
LEMMA PartDrive ==
  ASSUME Types, Where, ChunkRead
  PROVE  /\ drive' \in DriveType /\ drive.pc = "block" /\ drive.todo = 0
         /\ drive.abort => drive' = Done
         /\ ~drive.abort =>
              /\ SameRead /\ drive'.pc = (IF Part < drive.sectors THEN "chunk" ELSE "end")
              /\ drive'.sectors = drive.sectors - Part /\ drive'.left = drive.left - Bytes(Part)
              /\ drive'.lsn = drive.lsn + Part /\ drive'.src = Source /\ drive'.sent = Bytes(Part)
              /\ drive'.rbuf = (IF Direct THEN drive.rbuf ELSE Offset + Bytes(Part))
              /\ drive'.first = (IF Skewed /\ drive.rbuf = 0 THEN <<cache[0], Old>> ELSE drive.first)
         /\ slips' \in {slips, slips \cup {"cut"}}
         /\ slips' = {} => /\ slips = {}
                           /\ drive.abort => ~Skewed /\ Part = drive.sectors
<1>. DEFINE more == drive.left > Bytes(Part)
            pc == IF more THEN "chunk" ELSE "end"
            first == IF Skewed /\ drive.rbuf = 0 THEN <<cache[0], Old>> ELSE drive.first
            rbuf == IF Direct THEN drive.rbuf ELSE Offset + Bytes(Part)
            next == [drive EXCEPT !.pc = pc, !.first = first, !.src = Source, !.sent = Bytes(Part),
                       !.rbuf = rbuf, !.lsn = @ + Part, !.left = @ - Bytes(Part), !.sectors = @ - Part]
<1>1. /\ drive.pc = "block" /\ drive.todo = 0
      /\ drive' = IF drive.abort THEN Done ELSE next
      /\ slips' = IF drive.abort /\ (more \/ Skewed) THEN slips \cup {"cut"} ELSE slips
  BY DEF ChunkRead, Part, Offset
<1>2. /\ Part \in 1 .. drive.sectors /\ Bytes(Part) \in Nat /\ Source \in 0 .. 1
      /\ more <=> Part < drive.sectors
      /\ Part < drive.sectors => Bytes(Part) = Unit * Part
      /\ Part = drive.sectors => Bytes(Part) = drive.left
  BY <1>1, PartSizes
<1>3. /\ drive.sectors - Part \in Nat /\ drive.left - Bytes(Part) \in Nat /\ drive.lsn + Part \in Nat
      /\ Part < drive.sectors <=> ~(Part = drive.sectors)
  <2>1. Part \in Nat /\ drive.sectors \in Nat /\ drive.left \in Nat /\ drive.lsn \in Nat
    BY <1>2, Nats
  <2>. HIDE DEF more, next
  <2>2. drive.left - Bytes(Part) \in Nat
    <3>1. CASE Part < drive.sectors
      <4>1. drive.left > Bytes(Part)
        BY <3>1, <1>2 DEF more
      <4>. QED
        BY <4>1, <2>1, <1>2
    <3>2. CASE Part = drive.sectors
      BY <3>2, <2>1, <1>2
    <3>. QED
      BY <3>1, <3>2, <2>1, <1>2
  <2>. QED
    BY <2>1, <2>2, <1>2
<1>4. rbuf \in Nat
  BY <1>2, Nats DEF Offset
<1>5. first \in Int \X Int
  <2>1. cache[0] \in Int /\ drive.first \in Int \X Int
    <3>1. 0 \in 0 .. Unit * Cache - 1
      BY ReadAssumption DEF Unit
    <3>. QED
      BY <3>1, Fields DEF Types
  <2>. QED
    BY <2>1 DEF Old
<1>6. pc \in {"chunk", "end"} /\ pc = IF Part < drive.sectors THEN "chunk" ELSE "end"
  BY <1>2
<1>. HIDE DEF first, rbuf, pc
<1>7. next \in DriveType
  BY <1>2, <1>3, <1>4, <1>5, <1>6, Fields, ZenonT(60) DEF DriveType
<1>8. drive' \in DriveType
  <2>. HIDE DEF next
  <2>1. Done \in DriveType
    BY DoneType
  <2>. QED
    BY <2>1, <1>1, <1>7
<1>9. ASSUME ~drive.abort
      PROVE  /\ SameRead /\ drive'.pc = pc
             /\ drive'.sectors = drive.sectors - Part /\ drive'.left = drive.left - Bytes(Part)
             /\ drive'.lsn = drive.lsn + Part /\ drive'.src = Source /\ drive'.sent = Bytes(Part)
             /\ drive'.rbuf = rbuf /\ drive'.first = first
  BY <1>9, <1>1, <1>2, <1>3, Fields DEF DriveType, SameRead
<1>10. /\ drive.abort => drive' = Done
       /\ slips' \in {slips, slips \cup {"cut"}}
       /\ slips' = {} => /\ slips = {}
                         /\ drive.abort => ~Skewed /\ ~more
  <2>. HIDE DEF next, more
  <2>. QED
    BY <1>1
<1>11. ~more => Part = drive.sectors
  BY <1>2, <1>3
<1>. QED
  BY <1>1, <1>6, <1>8, <1>9, <1>10, <1>11 DEF first, rbuf

\* A part that has been read is passed on: what is left of the read is behind it.
LEMMA PartWhere ==
  ASSUME Types, Where, ChunkRead
  PROVE  Where'
<1>1. CASE drive.abort
  BY <1>1, PartDrive, DoneType DEF Where
<1>2. CASE ~drive.abort
  <2>1. /\ SameRead /\ drive'.pc = (IF Part < drive.sectors THEN "chunk" ELSE "end")
        /\ drive'.sectors = drive.sectors - Part /\ drive'.left = drive.left - Bytes(Part)
        /\ drive'.lsn = drive.lsn + Part /\ drive'.src = Source /\ drive'.sent = Bytes(Part)
        /\ drive'.rbuf = (IF Direct THEN drive.rbuf ELSE Offset + Bytes(Part))
        /\ drive.pc = "block" /\ drive.todo = 0
    BY <1>2, PartDrive
  <2>2. /\ Part \in 1 .. drive.sectors /\ Bytes(Part) \in Nat
        /\ Source \in 0 .. 1 /\ Slack = 2 * Source /\ (Skewed => Source = 1) /\ (~Skewed => Source = 0)
        /\ (drive.left > Bytes(Part)) <=> (Part < drive.sectors)
        /\ Part < drive.sectors => Bytes(Part) = Unit * Part /\ ~Direct
        /\ Part = drive.sectors => Bytes(Part) = drive.left /\ drive.left = Unit * Part - Slack
        /\ ~Direct => /\ Offset = Unit * Passed + Source
                      /\ Read1 <= Cache
                      /\ Skewed => Source + Bytes(Part) < Unit * Read1
        /\ Passed \in Nat /\ Read1 = drive.chunk
    BY <2>1, PartSizes
  <2>3. /\ drive.asked > 0 /\ drive.dest + Unit * drive.asked <= Unit * MaxRead + 2 * Line
        /\ drive.mis = drive.dest % Line
        /\ drive.sectors \in 1 .. drive.asked /\ drive.lsn = drive.from + Passed
        /\ drive.left = Unit * drive.sectors - Slack
        /\ Direct => drive.sectors = drive.asked
    BY <2>1 DEF Where
  <2>4. /\ Direct' <=> Direct
        /\ Skewed' <=> Skewed
    BY <2>1 DEF SameRead, Direct, Skewed
  <2>5. Source' = Source /\ Slack' = Slack
    BY <2>1, <2>4 DEF SameRead, Source, Slack
  <2>6. CASE Part < drive.sectors
    <3>1. drive'.pc = "chunk" /\ ~Direct /\ Bytes(Part) = Unit * Part
      BY <2>1, <2>2, <2>6
    <3>2. drive'.sectors \in 1 .. drive'.asked /\ Passed' = Passed + Part /\ Passed + Part > 0
      BY <2>1, <2>2, <2>3, <2>6, Nats DEF Passed, SameRead
    <3>3. drive'.left = Unit * drive'.sectors - Slack
      BY <3>1, <2>1, <2>2, <2>3, Nats DEF Unit
    <3>4. drive'.lsn = drive'.from + Passed'
      BY <3>2, <2>1, <2>2, <2>3, Nats DEF SameRead
    <3>5. drive'.rbuf = Unit * Passed' + Source
      BY <3>1, <3>2, <2>1, <2>2, Nats DEF Unit
    <3>6. drive'.rbuf = Unit * Passed' + IF Passed' > 0 THEN Source' ELSE 0
      BY <3>2, <3>5, <2>5
    <3>7. drive'.pc # "idle" /\ drive'.pc # "end" /\ drive'.pc # "block"
      BY <3>1
    <3>. QED
      BY <3>1, <3>2, <3>3, <3>4, <3>6, <3>7, <2>1, <2>3, <2>4, <2>5, Zenon DEF Where, SameRead
  <2>7. CASE Part = drive.sectors
    <3>1. drive'.pc = "end" /\ drive'.left = 0
      BY <2>1, <2>2, <2>3, <2>7, Nats
    <3>2. Skewed => drive'.src + drive'.sent < Unit * Cache
      <4>. SUFFICES ASSUME Skewed PROVE Source + Bytes(Part) < Unit * Cache
        BY <2>1
      <4>1. ~Direct /\ drive.chunk \in Nat
        BY Nats DEF Skewed, Direct
      <4>. QED
        BY <4>1, <2>2, ReadAssumption DEF Unit
    <3>3. drive'.pc # "idle" /\ drive'.pc # "chunk" /\ drive'.pc # "block"
      BY <3>1
    <3>. QED
      BY <3>1, <3>2, <3>3, <2>1, <2>3, <2>4 DEF Where, SameRead
  <2>. QED
    BY <2>2, <2>6, <2>7, Nats
<1>. QED
  BY <1>1, <1>2

\* Every unit up to what has been passed on is in place, or on its way.
LEMMA PartRight ==
  ASSUME Types, Where, DmaOK, Data, ChunkRead, slips = {}
  PROVE  /\ Direct =>
              \A u \in Source .. drive.rbuf - 1 :
                mem'[drive.side][drive.dest + u] = Img(Unit * drive.from + u)
         /\ ~Direct =>
              \A u \in Source .. Offset + Bytes(Part) - 1 :
                \/ dma'.src = "cache" /\ drive.dest + u \in dma'.to .. dma'.to + dma'.n - 1
                \/ mem'[drive.side][drive.dest + u] = Img(Unit * drive.from + u)
         /\ dma'.src = "cache" =>
              \A u \in 0 .. dma'.n - 1 :
                cache[dma'.from + u] = Img(Unit * drive.from + (dma'.to + u - drive.dest))
<1>1. drive.pc = "block" /\ drive.todo = 0
  BY DEF ChunkRead
<1>2. /\ Part \in 1 .. drive.sectors /\ Bytes(Part) \in Nat
      /\ Source \in 0 .. 1 /\ (~Skewed => Source = 0)
      /\ ~Direct => /\ Offset = Unit * Passed + Source
                    /\ Source + Bytes(Part) <= Unit * Read1
      /\ Passed \in Nat /\ Read1 = drive.chunk
  BY <1>1, PartSizes
<1>3. /\ Right(Source, drive.rbuf)
      /\ ~Direct => \A u \in 0 .. Unit * Read1 - 1 : cache[u] = Img(Unit * drive.lsn + u)
      /\ drive.lsn = drive.from + Passed
  BY <1>1 DEF Data, Where
<1>4. ASSUME ~Direct, NEW u \in Nat, u < Bytes(Part)
      PROVE  cache[Source + u] = Img(Unit * drive.from + Offset + u)
  <2>1. Source + u \in 0 .. Unit * Read1 - 1
    BY <1>2, <1>4, Nats DEF Unit
  <2>2. Unit * drive.lsn + (Source + u) = Unit * drive.from + Offset + u
    BY <1>2, <1>3, <1>4, Nats DEF Unit
  <2>. QED
    BY <1>3, <1>4, <2>1, <2>2
<1>5. Offset \in Nat /\ drive.rbuf \in Nat /\ drive.dest \in Nat /\ drive.from \in Nat
  BY <1>2, Nats DEF Offset
<1>6. CASE Direct
  <2>1. dma' = dma /\ mem' = mem /\ dma.src # "cache" /\ drive.side # "ee"
    BY <1>6, PartMoves DEF Direct
  <2>. QED
    BY <1>3, <1>6, <2>1 DEF Right, Coming
<1>7. CASE ~Direct
  <2>1. \A u \in Source .. drive.rbuf - 1 :
          \/ Coming(drive.dest + u)
          \/ mem[drive.side][drive.dest + u] = Img(Unit * drive.from + u)
    BY <1>3 DEF Right
  <2>2. drive.rbuf = Offset \/ (Skewed /\ drive.rbuf = 0 /\ Offset = Source)
    BY DEF Offset
  <2>3. CASE drive.side = "ee"
    <3>1. dma = NoDma /\ mem' = mem /\ dma'.src = "cache" /\ dma'.from = Source
          /\ dma'.to = drive.dest + Offset /\ dma'.n = Bytes(Part)
      BY <2>3, PartMoves
    <3>2. ASSUME NEW u \in Source .. Offset + Bytes(Part) - 1
          PROVE  \/ drive.dest + u \in dma'.to .. dma'.to + dma'.n - 1
                 \/ mem'[drive.side][drive.dest + u] = Img(Unit * drive.from + u)
      <4>1. CASE u < Offset
        <5>1. ~Coming(drive.dest + u) /\ u \in Source .. drive.rbuf - 1
          BY <2>2, <3>1, <4>1, <1>2, <1>5 DEF Coming, NoDma
        <5>. QED
          BY <5>1, <2>1, <3>1
      <4>2. CASE u >= Offset
        BY <3>1, <4>2, <1>2, <1>5
      <4>. QED
        BY <4>1, <4>2, <1>2, <1>5
    <3>3. ASSUME NEW u \in 0 .. dma'.n - 1
          PROVE  cache[dma'.from + u] = Img(Unit * drive.from + (dma'.to + u - drive.dest))
      <4>1. u \in Nat /\ u < Bytes(Part) /\ dma'.from = Source
        BY <3>1, <1>2
      <4>2. Unit * drive.from + (dma'.to + u - drive.dest) = Unit * drive.from + Offset + u
        BY <3>1, <4>1, <1>5 DEF Unit
      <4>. QED
        BY <4>1, <4>2, <1>4, <1>7
    <3>. QED
      BY <1>7, <3>1, <3>2, <3>3
  <2>4. CASE drive.side # "ee"
    <3>1. /\ dma' = dma /\ dma.src # "cache"
          /\ \A s \in Side, a \in Addr :
               mem'[s][a] = IF s = drive.side
                               /\ a \in drive.dest + Offset .. drive.dest + Offset + Bytes(Part) - 1
                            THEN cache[a - (drive.dest + Offset)] ELSE mem[s][a]
      BY <1>7, <2>4, PartMoves
    <3>2. Source = 0 /\ drive.rbuf = Offset /\ Offset = Unit * Passed /\ ~Skewed
      BY <2>2, <2>4, <1>2, <1>5, <1>7 DEF Skewed, Unit
    <3>3. ASSUME NEW u \in Source .. Offset + Bytes(Part) - 1
          PROVE  mem'[drive.side][drive.dest + u] = Img(Unit * drive.from + u)
      <4>1. drive.dest + u \in Addr /\ drive.side \in Side /\ u \in Nat
        <5>1. Offset + Bytes(Part) <= Unit * drive.asked
          <6>1. Bytes(Part) <= Unit * drive.sectors
            <7>1. drive.left = Unit * drive.sectors - Slack
              BY <1>1 DEF Where
            <7>2. Bytes(Part) <= drive.left /\ Slack = 0
              BY <1>2, <3>2, Nats DEF Bytes, Least, Slack, Unit
            <7>. QED
              BY <7>1, <7>2, <1>2, Nats DEF Unit
          <6>2. Passed + drive.sectors = drive.asked
            BY Nats DEF Passed
          <6>. QED
            BY <6>1, <6>2, <3>2, <1>2, Nats DEF Unit
        <5>2. drive.dest + Unit * drive.asked <= Unit * MaxRead + 2 * Line
          BY <1>1 DEF Where
        <5>. QED
          <6>1. drive.asked \in Nat /\ MaxRead \in Nat /\ drive.side \in Side
            BY Fields, ReadAssumption
          <6>2. u \in Nat /\ u < Unit * drive.asked
            BY <5>1, <6>1, <3>2, <1>2, <1>5 DEF Unit
          <6>3. drive.dest + u \in 0 .. Unit * MaxRead + 2 * Line - 1
            BY <5>2, <6>1, <6>2, <1>5 DEF Unit, Line
          <6>. QED
            BY <6>1, <6>2, <6>3 DEF Addr
      <4>2. CASE u < Offset
        <5>1. ~Coming(drive.dest + u) /\ u \in Source .. drive.rbuf - 1
          BY <3>1, <3>2, <4>1, <4>2, <1>5 DEF Coming
        <5>2. mem'[drive.side][drive.dest + u] = mem[drive.side][drive.dest + u]
          BY <3>1, <4>1, <4>2, <1>2, <1>5
        <5>. QED
          BY <5>1, <5>2, <2>1
      <4>3. CASE u >= Offset
        <5>1. mem'[drive.side][drive.dest + u] = cache[u - Offset]
          <6>1. (drive.dest + u) - (drive.dest + Offset) = u - Offset
                /\ drive.dest + u \in drive.dest + Offset .. drive.dest + Offset + Bytes(Part) - 1
            BY <4>1, <4>3, <1>2, <1>5
          <6>2. mem'[drive.side][drive.dest + u] = cache[(drive.dest + u) - (drive.dest + Offset)]
            <7>1. PICK a \in Addr : /\ a = drive.dest + u
                                   /\ a \in drive.dest + Offset .. drive.dest + Offset + Bytes(Part) - 1
              BY <6>1, <4>1
            <7>2. mem'[drive.side][a] = cache[a - (drive.dest + Offset)]
              BY <7>1, <3>1, <4>1, Zenon
            <7>. QED
              BY <7>1, <7>2
          <6>. QED
            BY <6>1, <6>2
        <5>2. u - Offset \in Nat /\ u - Offset < Bytes(Part)
          BY <4>1, <4>3, <1>2, <1>5
        <5>3. cache[Source + (u - Offset)] = Img(Unit * drive.from + Offset + (u - Offset))
          BY <5>2, <1>4, <1>7
        <5>4. Source + (u - Offset) = u - Offset
              /\ Unit * drive.from + Offset + (u - Offset) = Unit * drive.from + u
          BY <3>2, <4>1, <1>5, <5>2 DEF Unit
        <5>. QED
          BY <5>1, <5>3, <5>4
      <4>. QED
        BY <4>1, <4>2, <4>3, <1>5
    <3>. QED
      BY <1>7, <3>1, <3>3
  <2>. QED
    BY <2>3, <2>4
<1>. QED
  BY <1>6, <1>7

\* A part of a read is passed on, in its place, and the read goes on, ends or is aborted.
LEMMA PartStep ==
  ASSUME ReadInv, ChunkRead
  PROVE  StepOK
<1>1. Types /\ Where /\ DmaOK /\ Data /\ Where' /\ drive.pc = "block" /\ drive.todo = 0
  BY PartWhere DEF ReadInv, ChunkRead
<1>2. /\ mem' \in [Side -> [Addr -> Int]] /\ dma' \in DmaType /\ UNCHANGED <<dev, cache>>
      /\ drive.side = "ee" =>
           /\ dma = NoDma /\ mem' = mem
           /\ dma'.src = "cache" /\ dma'.from = Source /\ dma'.to = drive.dest + Offset
           /\ dma'.n = Bytes(Part)
      /\ drive.side # "ee" => dma' = dma /\ dma.src # "cache"
      /\ Direct => mem' = mem
      /\ drive.side # "ee" /\ ~Direct =>
           \A s \in Side, a \in Addr :
             mem'[s][a] = IF s = drive.side
                             /\ a \in drive.dest + Offset .. drive.dest + Offset + Bytes(Part) - 1
                          THEN cache[a - (drive.dest + Offset)] ELSE mem[s][a]
  BY <1>1, PartMoves
<1>3. /\ drive' \in DriveType
      /\ drive.abort => drive' = Done
      /\ ~drive.abort =>
           /\ SameRead /\ drive'.pc = (IF Part < drive.sectors THEN "chunk" ELSE "end")
           /\ drive'.sectors = drive.sectors - Part /\ drive'.src = Source
           /\ drive'.sent = Bytes(Part) /\ drive'.lsn = drive.lsn + Part
           /\ drive'.rbuf = (IF Direct THEN drive.rbuf ELSE Offset + Bytes(Part))
           /\ drive'.first = (IF Skewed /\ drive.rbuf = 0 THEN <<cache[0], Old>> ELSE drive.first)
      /\ slips' \in {slips, slips \cup {"cut"}}
      /\ slips' = {} => /\ slips = {}
                        /\ drive.abort => ~Skewed /\ Part = drive.sectors
  BY <1>1, PartDrive
<1>4. /\ Part \in 1 .. drive.sectors /\ Bytes(Part) \in Nat
      /\ Source \in 0 .. 1 /\ Slack = 2 * Source /\ (Skewed => Source = 1) /\ (~Skewed => Source = 0)
      /\ Part = drive.sectors => Bytes(Part) = drive.left /\ drive.left = Unit * Part - Slack
      /\ Direct => Part = drive.asked /\ Offset = Unit * drive.asked
      /\ ~Direct => /\ Offset = Unit * Passed + Source
                    /\ Source + Bytes(Part) <= Unit * Read1
                    /\ Read1 <= Cache
                    /\ Skewed => Source + Bytes(Part) < Unit * Read1
      /\ Passed \in Nat /\ Read1 = drive.chunk
  BY <1>1, PartSizes
<1>5. /\ drive.asked > 0 /\ drive.dest + Unit * drive.asked <= Unit * MaxRead + 2 * Line
      /\ drive.sectors \in 1 .. drive.asked /\ drive.lsn = drive.from + Passed
      /\ Passed = drive.asked - drive.sectors
      /\ Offset \in Nat
      /\ drive.left = Unit * drive.sectors - Slack
      /\ Direct => drive.rbuf = Unit * Read1
  BY <1>1, <1>4, Nats DEF Where, Offset, Passed
<1>6. Types'
  <2>1. slips' \subseteq {"crossed", "coarse", "overtaken", "cut"}
    BY <1>1, <1>3 DEF Types
  <2>. QED
    BY <2>1, <1>1, <1>2, <1>3 DEF Types
\* Where this part ends.
<1>7. /\ Offset + Bytes(Part) <= Unit * drive.asked - Source \/ Direct
      /\ Part = drive.sectors =>
           (IF Direct THEN drive.rbuf ELSE Offset + Bytes(Part)) = Unit * drive.asked - Source
  <2>1. Bytes(Part) <= drive.left
    BY <1>1, <1>4, Nats DEF Bytes, Least, Unit
  <2>2. CASE Direct
    <3>1. Source = 0 /\ drive.rbuf = Unit * drive.asked
      BY <2>2, <1>4, <1>5 DEF Direct, Skewed, Offset
    <3>. QED
      BY <2>2, <3>1, <1>1, Nats DEF Unit
  <2>3. CASE ~Direct
    <3>1. Offset + Bytes(Part) <= Unit * drive.asked - Source
      BY <2>1, <2>3, <1>1, <1>4, <1>5, Nats DEF Unit
    <3>2. Part = drive.sectors => Offset + Bytes(Part) = Unit * drive.asked - Source
      BY <2>3, <1>1, <1>4, <1>5, Nats DEF Unit
    <3>. QED
      BY <2>3, <3>1, <3>2
  <2>. QED
    BY <2>2, <2>3
<1>8. Beside
  <2>1. ASSUME NEW s \in Side, NEW a \in Addr,
               s # drive.side \/ a \notin drive.dest .. drive.dest + Unit * drive.asked - 1
        PROVE  mem'[s][a] = mem[s][a]
    <3>1. CASE drive.side = "ee" \/ Direct \/ s # drive.side
      BY <3>1, <1>2
    <3>2. CASE drive.side # "ee" /\ ~Direct /\ s = drive.side
      <4>1. a \notin drive.dest + Offset .. drive.dest + Offset + Bytes(Part) - 1
        <5>1. a \in Int /\ drive.dest \in Nat /\ drive.asked \in Nat
          BY <1>1, Nats, ReadAssumption DEF Addr, Unit, Line
        <5>2. Offset + Bytes(Part) <= Unit * drive.asked
          BY <3>2, <5>1, <1>4, <1>5, <1>7 DEF Unit
        <5>. QED
          BY <5>1, <5>2, <3>2, <2>1, <1>4, <1>5 DEF Unit
      <4>. QED
        BY <4>1, <3>2, <1>2
    <3>. QED
      BY <3>1, <3>2
  <2>. QED
    BY <2>1 DEF Beside
<1>9. DmaOK'
  <2>1. CASE drive.side = "ee"
    <3>1. drive'.side = "ee" /\ drive'.asked = drive.asked /\ drive'.dest = drive.dest
      BY <2>1, <1>1, <1>3, DoneType DEF SameRead
    <3>2. ~Direct
      BY <2>1 DEF Direct
    <3>3. dma'.from + dma'.n <= Unit * Cache
      BY <2>1, <3>2, <1>1, <1>2, <1>4, Nats, ReadAssumption DEF Unit
    <3>4. drive.dest <= dma'.to /\ dma'.to + dma'.n <= drive.dest + Unit * drive.asked
      BY <2>1, <3>2, <1>1, <1>2, <1>4, <1>5, <1>7, Nats DEF Unit
    <3>5. dma'.src # "none"
      BY <2>1, <1>2
    <3>. QED
      BY <3>1, <3>3, <3>4, <3>5, <1>5 DEF DmaOK
  <2>2. CASE drive.side # "ee"
    BY <2>2, <1>1, <1>2 DEF DmaOK
  <2>. QED
    BY <2>1, <2>2
<1>10. ASSUME slips' = {}
       PROVE  /\ Direct =>
                   \A u \in Source .. drive.rbuf - 1 :
                     mem'[drive.side][drive.dest + u] = Img(Unit * drive.from + u)
              /\ ~Direct =>
                   \A u \in Source .. Offset + Bytes(Part) - 1 :
                     \/ dma'.src = "cache" /\ drive.dest + u \in dma'.to .. dma'.to + dma'.n - 1
                     \/ mem'[drive.side][drive.dest + u] = Img(Unit * drive.from + u)
              /\ dma'.src = "cache" =>
                   \A u \in 0 .. dma'.n - 1 :
                     cache[dma'.from + u] = Img(Unit * drive.from + (dma'.to + u - drive.dest))
  BY <1>1, <1>3, <1>10, PartRight
<1>11. ASSUME slips' = {}, drive.abort
       PROVE  /\ Source = 0 /\ Part = drive.sectors
              /\ drive.side # "ee" =>
                   \A u \in 0 .. Unit * drive.asked - 1 :
                     mem'[drive.side][drive.dest + u] = Img(Unit * drive.from + u)
              /\ \A u \in 0 .. Unit * drive.asked - 1 :
                   \/ dma'.src = "cache" /\ drive.dest + u \in dma'.to .. dma'.to + dma'.n - 1
                   \/ mem'[drive.side][drive.dest + u] = Img(Unit * drive.from + u)
  <2>1. Source = 0 /\ Part = drive.sectors
    BY <1>3, <1>4, <1>11
  <2>2. (IF Direct THEN drive.rbuf ELSE Offset + Bytes(Part)) = Unit * drive.asked
    BY <2>1, <1>1, <1>7, Nats DEF Unit
  <2>3. drive.side # "ee" => dma'.src # "cache"
    BY <1>2
  <2>4. CASE Direct
    BY <2>1, <2>2, <2>4, <1>10, <1>11
  <2>5. CASE ~Direct
    <3>1. Source = 0 /\ Offset + Bytes(Part) = Unit * drive.asked
      BY <2>1, <2>2, <2>5
    <3>2. \A u \in Source .. Offset + Bytes(Part) - 1 :
                     \/ dma'.src = "cache" /\ drive.dest + u \in dma'.to .. dma'.to + dma'.n - 1
                     \/ mem'[drive.side][drive.dest + u] = Img(Unit * drive.from + u)
      BY <2>5, <1>10, <1>11, Zenon
    <3>3. (Source .. Offset + Bytes(Part) - 1) = (0 .. Unit * drive.asked - 1)
      BY <3>1, <1>4, <1>5 DEF Unit
    <3>4. \A u \in 0 .. Unit * drive.asked - 1 :
                     \/ dma'.src = "cache" /\ drive.dest + u \in dma'.to .. dma'.to + dma'.n - 1
                     \/ mem'[drive.side][drive.dest + u] = Img(Unit * drive.from + u)
      BY <3>2, <3>3, Zenon
    <3>. QED
      BY <2>1, <2>3, <3>4, Zenon
  <2>. QED
    BY <2>1, <2>4, <2>5
<1>12. ASSUME slips' = {}, drive.abort PROVE Data'
  <2>1. drive' = Done /\ drive'.pc = "idle"
    BY <1>1, <1>3, <1>12, DoneType
  <2>2. CASE drive.side \in {"iop", "ee"}
    <3>1. drive'.side = drive.side /\ drive'.asked = drive.asked /\ drive'.from = drive.from
          /\ drive'.dest = drive.dest
      BY <2>1, <2>2, <1>1, DoneType
    <3>2. DmaRight'
      BY <3>1, <1>2, <1>10, <1>12 DEF DmaRight
    <3>3. Right(0, Unit * drive.asked)'
      BY <3>1, <1>11, <1>12 DEF Right, Coming
    <3>4. ~Skewed' \/ drive'.pc = "idle"
      BY <2>1
    <3>. QED
      BY <2>1, <3>1, <3>2, <3>3 DEF Data
  <2>3. CASE drive.side \notin {"iop", "ee"}
    <3>1. drive' = Rest /\ dma'.src # "cache"
      BY <2>1, <2>3, <1>1, <1>2, DoneType
    <3>2. drive'.asked = 0 /\ Unit * drive'.asked = 0
      BY <3>1, RestType DEF Unit
    <3>3. Right(0, Unit * drive.asked)'
      BY <3>2 DEF Right
    <3>. QED
      BY <2>1, <3>1, <3>3 DEF Data, DmaRight
  <2>. QED
    BY <2>2, <2>3
<1>13. ASSUME slips' = {}, ~drive.abort PROVE Data'
  <2>1. SameRead /\ drive'.pc \in {"chunk", "end"} /\ (drive'.pc = "end" <=> Part = drive.sectors)
    <3>1. Part < drive.sectors <=> ~(Part = drive.sectors)
      BY <1>1, <1>4, Nats
    <3>. QED
      BY <3>1, <1>3, <1>13
  <2>2. /\ Direct' <=> Direct
        /\ Skewed' <=> Skewed
    BY <2>1 DEF SameRead, Direct, Skewed
  <2>3. Source' = Source
    BY <2>1, <2>2 DEF SameRead, Source
  <2>4. DmaRight'
    BY <2>1, <1>2, <1>10, <1>13 DEF DmaRight, SameRead
  <2>5. Right(Source, drive.rbuf)'
    <3>1. CASE Direct
      BY <3>1, <2>1, <2>3, <1>3, <1>10, <1>13 DEF Right, Coming, SameRead
    <3>2. CASE ~Direct
      <4>1. drive'.rbuf = Offset + Bytes(Part)
        BY <3>2, <1>3, <1>13, Zenon
      <4>2. \A u \in Source .. Offset + Bytes(Part) - 1 :
                     \/ dma'.src = "cache" /\ drive.dest + u \in dma'.to .. dma'.to + dma'.n - 1
                     \/ mem'[drive.side][drive.dest + u] = Img(Unit * drive.from + u)
        BY <3>2, <1>10, <1>13, Zenon
      <4>. QED
        <5>1. \A u \in Source' .. drive'.rbuf - 1 :
                     \/ dma'.src = "cache" /\ drive.dest + u \in dma'.to .. dma'.to + dma'.n - 1
                     \/ mem'[drive.side][drive.dest + u] = Img(Unit * drive.from + u)
          <6>1. drive'.rbuf - 1 = Offset + Bytes(Part) - 1
            BY <4>1, <1>4, <1>5
          <6>. QED
            BY <4>2, <2>3, <6>1, Zenon
        <5>2. drive'.dest = drive.dest /\ drive'.side = drive.side /\ drive'.from = drive.from
          BY <2>1 DEF SameRead
        <5>. QED
          BY <5>1, <5>2, Zenon DEF Right, Coming
    <3>. QED
      BY <3>1, <3>2
  <2>6. drive'.pc = "end" => drive'.rbuf = Unit * drive'.asked - Source
    BY <2>1, <1>3, <1>7, <1>13 DEF SameRead
  <2>7. drive'.pc = "end" => Right(Source, Unit * drive.asked - Source)'
    BY <2>3, <2>5, <2>6 DEF Right
  <2>8. Skewed => drive'.first[1] = Img(Unit * drive'.from)
    <3>. SUFFICES ASSUME Skewed PROVE drive'.first[1] = Img(Unit * drive.from)
      BY <2>1 DEF SameRead
    <3>0. ~Direct /\ drive.chunk \in Nat /\ Source = 1 /\ slips = {}
      BY <1>1, <1>3, <1>4, <1>13, Nats DEF Skewed, Direct
    <3>1. CASE drive.rbuf = 0
      <4>1. drive'.first[1] = cache[0]
        BY <3>1, <1>3, <1>13
      <4>2. 0 \in 0 .. Unit * Read1 - 1
        BY <3>0, <1>4 DEF Unit
      <4>3. cache[0] = Img(Unit * drive.lsn + 0)
        BY <3>0, <4>2, <1>1 DEF Data
      <4>4. Passed = 0
        BY <3>0, <3>1, <1>4, Nats DEF Offset, Unit
      <4>5. Unit * drive.lsn + 0 = Unit * drive.from
        BY <4>4, <1>1, <1>5, Nats DEF Unit
      <4>. QED
        BY <4>1, <4>3, <4>5
    <3>2. CASE drive.rbuf # 0
      <4>1. drive'.first = drive.first /\ drive.rbuf > 0
        BY <3>2, <1>1, <1>3, <1>13, Nats
      <4>. QED
        BY <3>0, <4>1, <1>1 DEF Data
    <3>. QED
      BY <3>1, <3>2
  <2>9. drive'.pc = "end" /\ Skewed =>
          cache'[drive'.src + drive'.sent] = Img(Unit * drive'.from + Unit * drive'.asked - 1)
    <3>. SUFFICES ASSUME drive'.pc = "end", Skewed
                  PROVE  cache[Source + Bytes(Part)] = Img(Unit * drive.from + Unit * drive.asked - 1)
      BY <2>1, <1>2, <1>3, <1>13 DEF SameRead
    <3>0. ~Direct /\ Source = 1 /\ slips = {} /\ Part = drive.sectors
      BY <2>1, <1>3, <1>4, <1>13 DEF Skewed, Direct
    <3>1. Source + Bytes(Part) \in 0 .. Unit * Read1 - 1
      BY <3>0, <1>1, <1>4, Nats DEF Unit
    <3>2. cache[Source + Bytes(Part)] = Img(Unit * drive.lsn + (Source + Bytes(Part)))
      BY <3>0, <3>1, <1>1 DEF Data
    <3>3. Unit * drive.lsn + (Source + Bytes(Part)) = Unit * drive.from + Unit * drive.asked - 1
      BY <3>0, <1>1, <1>4, <1>5, Nats DEF Unit
    <3>. QED
      BY <3>2, <3>3
  <2>10. drive'.pc # "idle" /\ drive'.pc # "block"
    BY <2>1
  <2>. QED
    BY <2>2, <2>4, <2>5, <2>7, <2>8, <2>9, <2>10, Zenon DEF Data
<1>14. Data'
  BY <1>12, <1>13 DEF Data
<1>15. drive'.pc # "idle" => SameRead
  BY <1>1, <1>3, DoneType
<1>16. drive'.pc = "idle" => drive.abort /\ drive' = Done
  BY <1>3
<1>17. ReadInv'
  BY <1>1, <1>6, <1>9, <1>14 DEF ReadInv
<1>18. dma' = dma \/ (drive.side = "ee" /\ dma'.src \in {"none", "cache"})
  BY <1>2
<1>19. drive.pc # "idle" /\ (Direct => mem' = mem)
  BY <1>1, <1>2
<1>. QED
  BY <1>3, <1>8, <1>11, <1>15, <1>16, <1>17, <1>18, <1>19 DEF StepOK

\* The first and the last unit of data that are not aligned.
LEMMA FinishMoves ==
  ASSUME Types, Where, Finish, Skewed
  PROVE  /\ mem' \in [Side -> [Addr -> Int]] /\ drive.side = "ee"
         /\ \A s \in Side, a \in Addr :
              mem'[s][a] = IF s = "ee" /\ a = drive.dest + Unit * drive.asked - 1
                           THEN cache[drive.src + drive.sent]
                           ELSE IF s = "ee" /\ a = drive.dest THEN drive.first[1] ELSE mem[s][a]
<1>. DEFINE last == cache[drive.src + drive.sent]
            end == drive.dest + Unit * drive.asked
            first == drive.first[1]
<1>1. drive.side = "ee" /\ drive.mis = 1 /\ Line - drive.mis = 1 /\ "ee" \in Side
  BY Nats DEF Skewed, Line, Side
<1>2. mem \in [Side -> [Addr -> Int]] /\ drive.dest \in Nat /\ end \in Nat /\ drive.asked \in Nat
  <2>1. drive.dest \in Nat /\ drive.asked \in Nat
    BY Nats
  <2>. QED
    BY <2>1 DEF Types, Unit
<1>3. last \in Int
  <2>1. drive.src + drive.sent \in 0 .. Unit * Cache - 1
    <3>1. drive.src + drive.sent < Unit * Cache
      BY DEF Finish, Where
    <3>. QED
      BY <3>1, Nats, ReadAssumption DEF Unit
  <2>. QED
    BY <2>1 DEF Types
<1>4. mem' = [mem EXCEPT !.ee = [a \in Addr |->
                IF a \in end - 1 .. end - 1 THEN last
                ELSE IF a \in drive.dest .. drive.dest THEN drive.first[a - drive.dest + 1] ELSE mem.ee[a]]]
  <2>. DEFINE one == Put(mem.ee, drive.dest, Line - drive.mis, LAMBDA u : drive.first[u + 1])
              both == Put(one, end - drive.mis, drive.mis, LAMBDA u : last)
  <2>1. mem' = [mem EXCEPT !.ee = both]
    BY DEF Finish
  <2>2. drive.dest + (Line - drive.mis) - 1 = drive.dest /\ end - drive.mis + drive.mis - 1 = end - 1
        /\ end - drive.mis = end - 1
    BY <1>1, <1>2
  <2>3. one = [a \in Addr |-> IF a \in drive.dest .. drive.dest
                              THEN drive.first[a - drive.dest + 1] ELSE mem.ee[a]]
    <3>1. DOMAIN mem.ee = Addr
      BY <1>1, <1>2
    <3>. QED
      BY <2>2, <3>1, Zenon DEF Put
  <2>. HIDE DEF one
  <2>4. both = [a \in Addr |-> IF a \in end - 1 .. end - 1 THEN last ELSE one[a]]
    <3>1. DOMAIN one = Addr
      BY <2>3
    <3>. QED
      BY <2>2, <3>1, Zenon DEF Put
  <2>5. \A a \in Addr : one[a] = IF a \in drive.dest .. drive.dest
                              THEN drive.first[a - drive.dest + 1] ELSE mem.ee[a]
    BY <2>3
  <2>. HIDE DEF both
  <2>6. both = [a \in Addr |->
                IF a \in end - 1 .. end - 1 THEN last
                ELSE IF a \in drive.dest .. drive.dest THEN drive.first[a - drive.dest + 1] ELSE mem.ee[a]]
    BY <2>4, <2>5
  <2>. QED
    BY <2>1, <2>6
<1>5. first \in Int
  BY Fields
<1>. HIDE DEF last, end, first
<1>6. \A a \in Addr : a \in drive.dest .. drive.dest => drive.first[a - drive.dest + 1] = first
  BY <1>2 DEF first
<1>7. \A a \in Addr : a \in Int
  BY ReadAssumption DEF Addr, Unit, Line
<1>8. mem' = [mem EXCEPT !.ee = [a \in Addr |->
                IF a = end - 1 THEN last ELSE IF a = drive.dest THEN first ELSE mem.ee[a]]]
  BY <1>2, <1>4, <1>6, <1>7
<1>9. /\ mem' \in [Side -> [Addr -> Int]]
      /\ \A s \in Side, a \in Addr :
           mem'[s][a] = IF s = "ee" /\ a = end - 1 THEN last
                        ELSE IF s = "ee" /\ a = drive.dest THEN first ELSE mem[s][a]
  BY <1>1, <1>2, <1>3, <1>5, <1>8
<1>10. end - 1 = drive.dest + Unit * drive.asked - 1
  BY <1>2 DEF end, Unit
<1>. QED
  BY <1>1, <1>9, <1>10 DEF last, first

\* The end of a read.
LEMMA FinishStep ==
  ASSUME ReadInv, Finish
  PROVE  StepOK
<1>1. Types /\ Where /\ DmaOK /\ Data /\ drive.pc = "end" /\ drive' = Done /\ UNCHANGED <<dev, cache, dma, slips>>
      /\ (Skewed => dma = NoDma) /\ (~Skewed => mem' = mem)
  BY DEF ReadInv, Finish
<1>2. /\ drive.asked > 0 /\ drive.asked \in Nat /\ drive.dest \in Nat /\ drive.from \in Nat
      /\ drive.dest + Unit * drive.asked <= Unit * MaxRead + 2 * Line /\ MaxRead \in Nat
      /\ drive.side \in Side
  BY <1>1, Fields, ReadAssumption DEF Where
<1>3. /\ drive' \in DriveType /\ drive'.pc = "idle"
      /\ drive.side \in {"iop", "ee"} =>
           /\ drive'.side = drive.side /\ drive'.asked = drive.asked /\ drive'.from = drive.from
           /\ drive'.dest = drive.dest
      /\ drive.side \notin {"iop", "ee"} => drive' = Rest
  BY <1>1, DoneType
<1>4. /\ mem' \in [Side -> [Addr -> Int]]
      /\ Skewed => /\ drive.side = "ee"
                   /\ \A s \in Side, a \in Addr :
                        mem'[s][a] = IF s = "ee" /\ a = drive.dest + Unit * drive.asked - 1
                                     THEN cache[drive.src + drive.sent]
                                     ELSE IF s = "ee" /\ a = drive.dest THEN drive.first[1] ELSE mem[s][a]
  <2>1. CASE Skewed
    BY <2>1, <1>1, FinishMoves
  <2>2. CASE ~Skewed
    BY <2>2, <1>1 DEF Types
  <2>. QED
    BY <2>1, <2>2
<1>5. Types'
  BY <1>1, <1>3, <1>4 DEF Types
<1>6. Where'
  BY <1>3 DEF Where
<1>7. DmaOK'
  <2>1. CASE drive.side \in {"iop", "ee"}
    BY <2>1, <1>1, <1>3 DEF DmaOK
  <2>2. CASE drive.side \notin {"iop", "ee"}
    BY <2>2, <1>1, <1>3 DEF DmaOK
  <2>. QED
    BY <2>1, <2>2
<1>8. Beside
  <2>1. CASE Skewed
    <3>1. ASSUME NEW s \in Side, NEW a \in Addr,
                 s # drive.side \/ a \notin drive.dest .. drive.dest + Unit * drive.asked - 1
          PROVE  mem'[s][a] = mem[s][a]
      <4>1. a \in Int
        BY ReadAssumption DEF Addr, Unit, Line
      <4>2. s # "ee" \/ (a # drive.dest + Unit * drive.asked - 1 /\ a # drive.dest)
        BY <2>1, <3>1, <4>1, <1>2, <1>4 DEF Unit
      <4>. QED
        BY <4>2, <2>1, <1>4
    <3>. QED
      BY <3>1 DEF Beside
  <2>2. CASE ~Skewed
    BY <2>2, <1>1 DEF Beside
  <2>. QED
    BY <2>1, <2>2
<1>9. ASSUME slips' = {}, NEW u \in 0 .. Unit * drive.asked - 1
      PROVE  \/ Coming(drive.dest + u)
             \/ mem'[drive.side][drive.dest + u] = Img(Unit * drive.from + u)
  <2>1. slips = {} /\ Right(Source, Unit * drive.asked - Source)
    BY <1>1, <1>9 DEF Data
  <2>2. CASE ~Skewed
    <3>1. Source = 0 /\ Unit * drive.asked - Source = Unit * drive.asked
      BY <2>2, <1>2 DEF Source, Unit
    <3>. QED
      BY <2>1, <2>2, <3>1, <1>1 DEF Right
  <2>3. CASE Skewed
    <3>1. /\ Source = 1 /\ drive.side = "ee" /\ u \in Nat
          /\ drive.first[1] = Img(Unit * drive.from)
          /\ cache[drive.src + drive.sent] = Img(Unit * drive.from + Unit * drive.asked - 1)
          /\ ~Coming(drive.dest + u)
      <4>1. drive.mis = 1
        BY <2>3, <1>1, Nats DEF Skewed
      <4>2. drive.first[1] = Img(Unit * drive.from)
          /\ cache[drive.src + drive.sent] = Img(Unit * drive.from + Unit * drive.asked - 1)
        BY <2>1, <2>3, <1>1 DEF Data
      <4>3. ~Coming(drive.dest + u)
        BY <2>3, <1>1 DEF Coming, NoDma
      <4>. QED
        BY <2>3, <4>1, <4>2, <4>3, <1>4 DEF Source, Line
    <3>2. drive.dest + u \in Addr
      BY <1>2, <3>1 DEF Addr, Unit, Line
    <3>3. mem'["ee"][drive.dest + u] =
            IF drive.dest + u = drive.dest + Unit * drive.asked - 1 THEN cache[drive.src + drive.sent]
            ELSE IF drive.dest + u = drive.dest THEN drive.first[1] ELSE mem["ee"][drive.dest + u]
      BY <2>3, <3>2, <1>4 DEF Side
    <3>4. CASE u = Unit * drive.asked - 1
      <4>1. drive.dest + u = drive.dest + Unit * drive.asked - 1
            /\ Unit * drive.from + u = Unit * drive.from + Unit * drive.asked - 1
        BY <3>4, <1>2 DEF Unit
      <4>. QED
        BY <3>1, <3>3, <4>1
    <3>5. CASE u = 0
      <4>1. drive.dest + u # drive.dest + Unit * drive.asked - 1 /\ drive.dest + u = drive.dest
            /\ Unit * drive.from + u = Unit * drive.from
        BY <3>5, <1>2 DEF Unit
      <4>. QED
        BY <3>1, <3>3, <4>1
    <3>6. CASE u # 0 /\ u # Unit * drive.asked - 1
      <4>1. drive.dest + u # drive.dest + Unit * drive.asked - 1 /\ drive.dest + u # drive.dest
            /\ u \in Source .. Unit * drive.asked - Source - 1
        BY <3>1, <3>6, <1>2, <1>9 DEF Unit
      <4>2. mem[drive.side][drive.dest + u] = Img(Unit * drive.from + u)
        BY <2>1, <3>1, <4>1 DEF Right
      <4>. QED
        BY <3>1, <3>3, <4>1, <4>2
    <3>. QED
      BY <3>4, <3>5, <3>6
  <2>. QED
    BY <2>2, <2>3
<1>10. ASSUME slips' = {} PROVE Data'
  <2>1. slips = {} /\ DmaRight
    BY <1>1, <1>10 DEF Data
  <2>2. CASE drive.side \in {"iop", "ee"}
    <3>1. DmaRight'
      BY <2>1, <2>2, <1>1, <1>3 DEF DmaRight
    <3>2. Right(0, Unit * drive.asked)'
      BY <2>2, <1>1, <1>3, <1>9, <1>10 DEF Right, Coming
    <3>. QED
      BY <3>1, <3>2, <1>3 DEF Data
  <2>3. CASE drive.side \notin {"iop", "ee"}
    <3>1. drive' = Rest /\ dma'.src # "cache"
      BY <2>3, <1>1, <1>3 DEF DmaOK
    <3>2. drive'.asked = 0 /\ Unit * drive'.asked = 0
      BY <3>1, RestType DEF Unit
    <3>3. Right(0, Unit * drive.asked)'
      BY <3>2 DEF Right
    <3>. QED
      BY <3>1, <3>3, <1>3 DEF Data, DmaRight
  <2>. QED
    BY <2>2, <2>3
<1>11. Data'
  BY <1>10 DEF Data
<1>12. slips' = {} /\ drive.side # "ee" =>
         \A u \in 0 .. Unit * drive.asked - 1 :
           mem'[drive.side][drive.dest + u] = Img(Unit * drive.from + u)
  BY <1>1, <1>9 DEF DmaOK, Coming
<1>13. ReadInv'
  BY <1>5, <1>6, <1>7, <1>11 DEF ReadInv
<1>14. drive.pc # "idle" /\ (Direct => mem' = mem)
  BY <1>1 DEF Direct, Skewed
<1>. QED
  BY <1>1, <1>3, <1>8, <1>12, <1>13, <1>14 DEF StepOK

\* The data that are on their way arrive.
LEMMA DmaEndStep ==
  ASSUME ReadInv, DmaEnd
  PROVE  ReadInv' /\ Beside /\ dma' = NoDma /\ drive.side = "ee" /\ UNCHANGED <<drive, slips>>
<1>1. /\ Types /\ Where /\ DmaOK /\ Data /\ dma.src = "cache" /\ dma' = NoDma
      /\ UNCHANGED <<dev, cache, drive, slips>>
      /\ mem' = [mem EXCEPT !.ee = Put(mem.ee, dma.to, dma.n, LAMBDA u : cache[dma.from + u])]
  BY DEF ReadInv, DmaEnd
<1>2. /\ drive.side = "ee" /\ drive.asked > 0 /\ drive.asked \in Nat /\ drive.dest \in Nat /\ drive.from \in Nat
      /\ dma.to \in Nat /\ dma.n \in Nat /\ dma.from \in Nat
      /\ dma.from + dma.n <= Unit * Cache
      /\ drive.dest <= dma.to /\ dma.to + dma.n <= drive.dest + Unit * drive.asked
  BY <1>1, Nats DEF DmaOK, Types, DmaType
<1>3. mem \in [Side -> [Addr -> Int]] /\ cache \in [0 .. Unit * Cache - 1 -> Int] /\ "ee" \in Side
  BY <1>1 DEF Types, Side
<1>4. \A a \in Addr : a \in Int
  BY ReadAssumption DEF Addr, Unit, Line
<1>5. mem' = [mem EXCEPT !.ee = [a \in Addr |->
                IF a \in dma.to .. dma.to + dma.n - 1 THEN cache[dma.from + (a - dma.to)] ELSE mem.ee[a]]]
  <2>1. DOMAIN mem.ee = Addr
    BY <1>3
  <2>. QED
    BY <1>1, <2>1, Zenon DEF Put
<1>6. \A a \in Addr : a \in dma.to .. dma.to + dma.n - 1 =>
        dma.from + (a - dma.to) \in 0 .. Unit * Cache - 1
  BY <1>2, <1>4, ReadAssumption DEF Unit
<1>7. /\ mem' \in [Side -> [Addr -> Int]]
      /\ \A s \in Side, a \in Addr :
           mem'[s][a] = IF s = "ee" /\ a \in dma.to .. dma.to + dma.n - 1
                        THEN cache[dma.from + (a - dma.to)] ELSE mem[s][a]
  BY <1>3, <1>5, <1>6
<1>8. Types'
  BY <1>1, <1>7, RestType DEF Types
<1>9. Where' /\ SameRead
  BY <1>1 DEF Where, Slack, Passed, Read1, ChunkSize, Room, Least, Skewed, Direct, Source, SameRead
<1>10. DmaOK'
  BY <1>1, RestType DEF DmaOK
<1>11. Beside
  <2>1. ASSUME NEW s \in Side, NEW a \in Addr,
               s # drive.side \/ a \notin drive.dest .. drive.dest + Unit * drive.asked - 1
        PROVE  mem'[s][a] = mem[s][a]
    <3>1. s # "ee" \/ a \notin dma.to .. dma.to + dma.n - 1
      BY <2>1, <1>2, <1>4 DEF Unit
    <3>. QED
      BY <3>1, <1>7
  <2>. QED
    BY <2>1 DEF Beside
<1>12. drive.dest + Unit * drive.asked <= Unit * MaxRead + 2 * Line
  BY <1>1 DEF DmaOK
<1>13. ASSUME DmaRight, NEW u \in Nat, u < Unit * drive.asked,
              Coming(drive.dest + u) \/ mem[drive.side][drive.dest + u] = Img(Unit * drive.from + u)
       PROVE  mem'[drive.side][drive.dest + u] = Img(Unit * drive.from + u)
  <2>1. drive.dest + u \in Addr
    BY <1>2, <1>12, <1>13, ReadAssumption DEF Addr, Unit, Line
  <2>2. CASE Coming(drive.dest + u)
    <3>1. drive.dest + u \in dma.to .. dma.to + dma.n - 1
      BY <2>2 DEF Coming
    <3>2. mem'["ee"][drive.dest + u] = cache[dma.from + ((drive.dest + u) - dma.to)]
      BY <2>1, <3>1, <1>3, <1>7
    <3>3. (drive.dest + u) - dma.to \in 0 .. dma.n - 1
      BY <3>1, <1>2, <1>13
    <3>4. cache[dma.from + ((drive.dest + u) - dma.to)]
            = Img(Unit * drive.from + (dma.to + ((drive.dest + u) - dma.to) - drive.dest))
      BY <3>3, <1>1, <1>13 DEF DmaRight
    <3>5. Unit * drive.from + (dma.to + ((drive.dest + u) - dma.to) - drive.dest) = Unit * drive.from + u
      BY <1>2, <1>13 DEF Unit
    <3>. QED
      BY <3>2, <3>4, <3>5, <1>2
  <2>3. CASE ~Coming(drive.dest + u)
    <3>1. drive.dest + u \notin dma.to .. dma.to + dma.n - 1
      BY <2>3, <1>1 DEF Coming
    <3>. QED
      BY <2>1, <2>3, <3>1, <1>2, <1>3, <1>7, <1>13
  <2>. QED
    BY <2>2, <2>3
<1>14. ASSUME DmaRight, NEW lo \in Nat, NEW hi \in Nat, hi <= Unit * drive.asked, Right(lo, hi)
       PROVE  \A u \in lo .. hi - 1 : mem'[drive.side][drive.dest + u] = Img(Unit * drive.from + u)
  <2>1. ASSUME NEW u \in lo .. hi - 1
        PROVE  mem'[drive.side][drive.dest + u] = Img(Unit * drive.from + u)
    <3>1. u \in Nat /\ u < Unit * drive.asked
      BY <1>2, <1>14 DEF Unit
    <3>2. Coming(drive.dest + u) \/ mem[drive.side][drive.dest + u] = Img(Unit * drive.from + u)
      BY <1>14 DEF Right
    <3>. QED
      BY <3>1, <3>2, <1>13, <1>14
  <2>. QED
    BY <2>1
<1>15. Data'
  <2>. SUFFICES ASSUME slips = {} PROVE Data'
    BY <1>1 DEF Data
  <2>1. DmaRight /\ DmaRight'
    BY <1>1, RestType DEF Data, DmaRight
  <2>2. Source' = Source /\ Source \in 0 .. 2 /\ (Direct' <=> Direct) /\ (Skewed' <=> Skewed) /\ Read1' = Read1
    BY <1>1, Nats DEF Source, Direct, Skewed, Read1, Line
  <2>3. ASSUME NEW lo \in Nat, NEW hi \in Nat, hi <= Unit * drive.asked, Right(lo, hi)
        PROVE  \A u \in lo .. hi - 1 : mem'[drive.side][drive.dest + u] = Img(Unit * drive.from + u)
    BY <2>1, <2>3, <1>14
  <2>4. Source \in Nat /\ Unit * drive.asked \in Nat /\ Unit * drive.asked - Source \in Nat
        /\ Unit * drive.asked - Source <= Unit * drive.asked
    BY <2>2, <1>2 DEF Unit
  <2>5. drive.pc = "idle" => Right(0, Unit * drive.asked)'
    <3>1. drive.pc = "idle" => Right(0, Unit * drive.asked)
      BY <1>1 DEF Data
    <3>2. 0 \in Nat /\ Unit * drive.asked <= Unit * drive.asked
      BY <2>4
    <3>3. drive.pc = "idle" =>
            \A u \in 0 .. Unit * drive.asked - 1 : mem'[drive.side][drive.dest + u] = Img(Unit * drive.from + u)
      BY <3>1, <3>2, <2>3, <2>4
    <3>. QED
      BY <3>3, <1>1 DEF Right
  <2>6. drive.pc = "end" => Right(Source, Unit * drive.asked - Source)'
    <3>1. drive.pc = "end" => Right(Source, Unit * drive.asked - Source)
      BY <1>1 DEF Data
    <3>3. drive.pc = "end" =>
            \A u \in Source .. (Unit * drive.asked - Source) - 1 :
              mem'[drive.side][drive.dest + u] = Img(Unit * drive.from + u)
      BY <3>1, <2>3, <2>4
    <3>. QED
      BY <3>3, <2>2, <1>1 DEF Right
  <2>7. drive.pc \in {"chunk", "block"} => Right(Source, drive.rbuf)'
    <3>. SUFFICES ASSUME drive.pc \in {"chunk", "block"} PROVE Right(Source, drive.rbuf)'
      OBVIOUS
    <3>1. drive.rbuf \in Nat /\ drive.rbuf <= Unit * drive.asked
      <4>1. /\ drive.sectors \in 1 .. drive.asked
            /\ drive.rbuf = Unit * Passed + IF Passed > 0 THEN Source ELSE 0
        BY <1>1, <1>2 DEF Where, Direct
      <4>. QED
        BY <4>1, <2>2, <1>1, <1>2, Nats DEF Passed, Unit
    <3>2. Right(Source, drive.rbuf)
      BY <1>1 DEF Data
    <3>3. \A u \in Source .. drive.rbuf - 1 :
            mem'[drive.side][drive.dest + u] = Img(Unit * drive.from + u)
      BY <3>1, <3>2, <2>3, <2>4
    <3>. QED
      BY <3>3, <2>2, <1>1 DEF Right
  <2>8. UNCHANGED <<drive, cache>>
    BY <1>1
  <2>9. /\ Skewed /\ drive.pc # "idle" /\ (drive.pc = "end" \/ drive.rbuf > 0) =>
             drive.first[1] = Img(Unit * drive.from)
        /\ drive.pc = "end" /\ Skewed =>
             cache[drive.src + drive.sent] = Img(Unit * drive.from + Unit * drive.asked - 1)
        /\ drive.pc = "block" /\ ~Direct =>
             \A u \in 0 .. Unit * Read1 - 1 : cache[u] = Img(Unit * drive.lsn + u)
    BY <1>1 DEF Data
  <2>. QED
    BY <2>1, <2>2, <2>5, <2>6, <2>7, <2>8, <2>9 DEF Data
<1>. QED
  BY <1>1, <1>2, <1>8, <1>9, <1>10, <1>11, <1>15 DEF ReadInv

\* sceCdBreak.
LEMMA BreakStep ==
  ASSUME ReadInv, Break
  PROVE  ReadInv' /\ Beside /\ SameRead /\ UNCHANGED <<mem, cache, dma, slips>>
         /\ drive.pc # "idle" /\ drive'.pc = drive.pc
<1>1. /\ Types /\ Where /\ DmaOK /\ Data /\ UNCHANGED <<dev, mem, cache, dma, slips>>
      /\ drive' = [drive EXCEPT !.abort = TRUE] /\ drive.pc # "idle"
  BY DEF ReadInv, Break
<1>2. /\ drive' \in DriveType /\ SameRead
      /\ drive'.pc = drive.pc /\ drive'.lsn = drive.lsn /\ drive'.sectors = drive.sectors
      /\ drive'.left = drive.left /\ drive'.rbuf = drive.rbuf /\ drive'.src = drive.src
      /\ drive'.sent = drive.sent /\ drive'.first = drive.first /\ drive'.chunk = drive.chunk
      /\ drive'.lbn = drive.lbn /\ drive'.todo = drive.todo /\ drive'.at = drive.at
  BY <1>1, Fields DEF DriveType, SameRead
<1>3. Types'
  BY <1>1, <1>2 DEF Types
<1>4. /\ Direct' <=> Direct
      /\ Skewed' <=> Skewed
  BY <1>2 DEF SameRead, Direct, Skewed
<1>5. Source' = Source /\ Slack' = Slack /\ ChunkSize' = ChunkSize /\ Passed' = Passed /\ Read1' = Read1
  BY <1>2, <1>4 DEF SameRead, Source, Slack, ChunkSize, Room, Passed, Least, Read1
<1>6. Where'
  BY <1>1, <1>2, <1>4, <1>5 DEF Where, SameRead
<1>7. DmaOK'
  BY <1>1, <1>2 DEF DmaOK, SameRead
<1>8. Data'
  <2>. SUFFICES ASSUME slips = {} PROVE Data'
    BY <1>1 DEF Data
  <2>1. /\ DmaRight' <=> DmaRight
        /\ Right(0, Unit * drive.asked)' <=> Right(0, Unit * drive.asked)
        /\ Right(Source, drive.rbuf)' <=> Right(Source, drive.rbuf)
        /\ Right(Source, Unit * drive.asked - Source)' <=> Right(Source, Unit * drive.asked - Source)
    BY <1>1, <1>2, <1>5 DEF DmaRight, Right, Coming, SameRead
  <2>. QED
    BY <2>1, <1>1, <1>2, <1>4, <1>5 DEF Data, SameRead
<1>9. Beside
  BY <1>1 DEF Beside
<1>. QED
  BY <1>1, <1>2, <1>3, <1>6, <1>7, <1>8, <1>9 DEF ReadInv
-----------------------------------------------------------------------------
(* Who uses the drive: the game for sectors, cdrom_read for files, or a     *)
(* stream.                                                                  *)

\* Nothing beside the buffer of the game is ever written, and its read lies in the image.
OldBeside ==
  /\ \A s \in {"iop", "ee"}, a \in Addr : s # drive.side \/ a \notin Asked => mem[s][a] = Old
  /\ drive.side \in {"iop", "ee"} => drive.from + drive.asked <= Sectors

Modes ==
  /\ st = NoRing \/ st.banks > 0
  /\ st = NoRing => game = Idle /\ out = Nothing /\ dma.src # "ring"
  /\ st # NoRing => /\ file = NoFile
                    /\ IF drive.pc = "idle" THEN drive = Rest ELSE drive.side = "ring"
  /\ file = NoFile => call = NoCall
  /\ file # NoFile => IF drive.pc = "idle" THEN drive = Rest
                      ELSE /\ drive.side \in {"sec", "file"}
                           /\ call.pc \in {"firstread", "wholeread", "lastread"}
  /\ st = NoRing /\ file = NoFile => drive.side \in {"iop", "ee"}

-----------------------------------------------------------------------------
(* Where cdrom_read stands.                                                 *)

FileType == [lsn : Nat, size : Nat, off : Nat]
CallType ==
  [pc : {"none", "first", "firstread", "whole", "wholeread", "last", "lastread", "end"},
   left : Nat, sector : Nat, skip : 0 .. 3, at : Nat, mis : 0 .. 1, from : Nat, got : Nat]

Got == call.got - call.left           \* units in the caller's buffer

FileWhere ==
  /\ file \in FileType /\ call \in CallType
  /\ file.size <= Unit * MaxRead /\ Unit * file.lsn + file.size <= Unit * Sectors
  /\ file # NoFile => file.size > 0
  /\ call.left <= call.got /\ call.got <= Unit * MaxRead
  /\ call.pc # "none" => call.from + call.got <= file.size
  /\ call.pc \notin {"none", "end"} =>
       /\ call.at = Line + call.mis + Got
       /\ Unit * call.sector + call.skip = Unit * file.lsn + call.from + Got
  /\ call.pc \in {"whole", "wholeread", "last", "lastread"} => call.skip = 0
  /\ call.pc = "wholeread" => call.left >= Unit
  /\ call.pc \in {"last", "lastread"} => call.left < Unit
  /\ call.pc = "end" => call.left = 0
  /\ file # NoFile /\ drive.pc # "idle" =>
       /\ drive.from = call.sector
       /\ call.pc = "wholeread" =>
            drive.side = "file" /\ drive.dest = call.at /\ drive.asked = call.left \div Unit
       /\ call.pc # "wholeread" => drive.side = "sec" /\ drive.dest = 0 /\ drive.asked = 1

\* What is in the caller's buffer, and in that of cdrom_read.
FileData ==
  /\ \A a \in Addr \ Given : mem.file[a] = Old
  /\ slips = {} =>
       /\ \A u \in 0 .. Got - 1 :
            mem.file[Line + call.mis + u] = Img(Unit * file.lsn + call.from + u)
       /\ drive.pc = "idle" /\ call.pc \in {"firstread", "lastread"} =>
            \A u \in 0 .. Unit - 1 : mem.sec[u] = Img(Unit * call.sector + u)
       /\ drive.pc = "idle" /\ call.pc = "wholeread" =>
            \A u \in 0 .. Unit * (call.left \div Unit) - 1 :
              mem.file[call.at + u] = Img(Unit * call.sector + u)

-----------------------------------------------------------------------------
(* Where a stream stands.                                                   *)

StType == [banks : Nat, size : Nat, lsn : Nat, off : Nat, bank : Nat]
GameType == [pc : {"idle", "start", "sync", "take", "refill"}, left : Nat, mode : {"iop", "ee"}]

Ring == st.banks * st.size                  \* sectors of the ring
Bank == st.bank * st.size                   \* where the bank that is being emptied begins
Fresh == IF st.bank % 2 = 1 THEN Bank - st.size ELSE Bank
                                            \* sectors that hold what comes after the ring's end
Base == want - (Bank + st.off)              \* the sector of the image that the ring begins with
Started == game.pc \in {"sync", "take", "refill"} \/ (game.pc = "idle" /\ st.lsn > 0)

StreamWhere ==
  /\ st \in StType /\ game \in GameType /\ want \in Nat
  /\ st # NoRing => st.size > 0 /\ Ring <= MaxRead /\ st.bank < st.banks
  /\ game.pc = "start" => st.off = 0 /\ st.bank = 0 /\ want = st.lsn /\ st.lsn <= Sectors
  /\ game.pc = "sync" => st.off = 0 /\ st.bank = 0
  /\ game.pc \in {"take", "refill"} => want + game.left <= Sectors
  /\ Started =>
       /\ Base >= 0 /\ st.lsn = Base + Ring + Fresh
       /\ IF game.pc = "refill" THEN st.off = st.size ELSE st.off < st.size
  /\ dma.src = "ring" => dma.from + dma.n <= Unit * Ring

\* What the drive is filling.
Filling ==
  st # NoRing /\ drive.pc # "idle" =>
    /\ drive.mis = 0
    /\ game.pc = "idle" => st.lsn > 0
    /\ game.pc = "sync" => drive.dest = 0 /\ drive.asked = Ring /\ drive.from = want
    /\ game.pc \in {"idle", "take", "refill"} =>
         LET n == IF Fresh = 0 /\ st.banks % 2 = 1 THEN st.size ELSE 2 * st.size
             from == (IF Fresh = 0 THEN Ring ELSE Fresh) - n
         IN /\ drive.dest = Unit * from /\ drive.asked = n
            /\ drive.from = Base + from + (IF Fresh = 0 THEN 0 ELSE Ring)

\* The unit of the image that belongs in a place of the ring.
Place(a) == Unit * Base + a + (IF a < Unit * Fresh THEN Unit * Ring ELSE 0)
Busy == IF drive.pc = "idle" THEN {} ELSE drive.dest .. drive.dest + Unit * drive.asked - 1

StreamData ==
  slips = {} /\ st.banks # 2 =>
    /\ Started => \A a \in 0 .. Unit * Ring - 1 :
                    a \notin Busy /\ Place(a) < Unit * Sectors => mem.ring[a] = Place(a)
    /\ dma.src = "ring" => \A u \in 0 .. dma.n - 1 : mem.ring[dma.from + u] = dma.to + u
    /\ \A i \in DOMAIN out.came : out.came[i] = out.due + i - 1

-----------------------------------------------------------------------------
(* A free drive is told to read.                                            *)

\* What is asked of it, and what else may change.
Told(side, dest, lsn, n) ==
  /\ side \in Side /\ dest \in Nat /\ lsn \in Nat /\ n \in Nat /\ n > 0
  /\ dest + Unit * n <= Unit * MaxRead + 2 * Line
  /\ drive' = Command(side, dest, lsn, n)
  /\ UNCHANGED <<dev, dma>>
  /\ mem' \in [Side -> [Addr -> Int]] /\ cache' \in [0 .. Unit * Cache - 1 -> Int]
  /\ slips' \in {slips, {}}

\* Then nothing of it is done yet.
LEMMA CommandStep ==
  ASSUME Types, DmaOK, dma.src # "cache", NEW side, NEW dest, NEW lsn, NEW n, Told(side, dest, lsn, n)
  PROVE  /\ ReadInv' /\ drive'.pc = "chunk" /\ drive'.side = side /\ drive'.dest = dest
         /\ drive'.asked = n /\ drive'.from = lsn /\ drive'.mis = dest % Line
<1>. DEFINE mis == dest % Line
            left == n * Unit - (IF side = "ee" /\ mis # 0 THEN Line ELSE 0)
<1>1. /\ side \in Side /\ dest \in Nat /\ lsn \in Nat /\ n \in Nat /\ n > 0
      /\ dest + Unit * n <= Unit * MaxRead + 2 * Line
      /\ UNCHANGED <<dev, dma>>
      /\ mem' \in [Side -> [Addr -> Int]] /\ cache' \in [0 .. Unit * Cache - 1 -> Int]
      /\ slips' \in {slips, {}}
      /\ drive' = [Rest EXCEPT !.pc = "chunk", !.side = side, !.dest = dest, !.mis = mis, !.lsn = lsn,
                               !.sectors = n, !.left = left, !.asked = n, !.from = lsn]
  BY DEF Told, Command
<1>2. mis \in 0 .. 1 /\ left \in Nat
      /\ left = Unit * n - (IF side = "ee" /\ mis # 0 THEN Line ELSE 0)
  BY <1>1 DEF Line, Unit
<1>. HIDE DEF mis, left
<1>3. drive' \in DriveType
  BY <1>1, <1>2, RestType, ZenonT(60) DEF DriveType
<1>4. /\ drive'.pc = "chunk" /\ drive'.side = side /\ drive'.dest = dest /\ drive'.mis = mis
      /\ drive'.lsn = lsn /\ drive'.sectors = n /\ drive'.left = left /\ drive'.asked = n
      /\ drive'.from = lsn /\ drive'.rbuf = 0
  <2>1. Rest.rbuf = 0
    BY DEF Rest
  <2>. QED
    BY <1>1, <2>1, RestType DEF DriveType
<1>5. Types'
  BY <1>1, <1>3 DEF Types
<1>6. Passed' = 0
  BY <1>1, <1>4 DEF Passed
<1>7. Slack' = IF side = "ee" /\ mis # 0 THEN Line ELSE 0
  BY <1>4 DEF Slack, Skewed
<1>8. Where'
  <2>1. drive'.mis = drive'.dest % Line
    BY <1>4 DEF mis
  <2>2. drive'.sectors \in 1 .. drive'.asked /\ drive'.left = Unit * drive'.sectors - Slack'
    BY <1>1, <1>2, <1>4, <1>7
  <2>3. drive'.lsn = drive'.from + Passed'
    BY <1>1, <1>4, <1>6
  <2>4. drive'.rbuf = Unit * Passed' + IF Passed' > 0 THEN Source' ELSE 0
    BY <1>4, <1>6 DEF Unit
  <2>5. drive'.asked > 0 /\ drive'.dest + Unit * drive'.asked <= Unit * MaxRead + 2 * Line
    BY <1>1, <1>4
  <2>6. drive'.pc # "end" /\ drive'.pc # "block" /\ drive'.pc # "idle" /\ drive'.sectors = drive'.asked
    BY <1>4
  <2>. QED
    BY <1>4, <2>1, <2>2, <2>3, <2>4, <2>5, <2>6, Zenon DEF Where
<1>9. DmaOK'
  BY <1>1 DEF DmaOK
<1>10. Data'
  <2>1. DmaRight'
    BY <1>1 DEF DmaRight
  <2>2. Right(Source, drive.rbuf)'
    <3>1. Source' \in 0 .. 2
      BY <1>2, <1>4 DEF Source, Line
    <3>. QED
      BY <1>4, <3>1 DEF Right
  <2>3. drive'.pc # "end" /\ drive'.pc # "block" /\ drive'.pc # "idle" /\ ~(drive'.rbuf > 0)
    BY <1>4
  <2>. QED
    BY <2>1, <2>2, <2>3, Zenon DEF Data
<1>. QED
  BY <1>4, <1>5, <1>8, <1>9, <1>10 DEF ReadInv, mis

\* At rest, with nothing on its way, nothing has to be in place.
LEMMA RestStep ==
  ASSUME Types, drive' = Rest, dma'.src # "cache", dma' = dma, DmaOK, dev' = dev,
         mem' \in [Side -> [Addr -> Int]], cache' \in [0 .. Unit * Cache - 1 -> Int],
         slips' \in {slips, {}}
  PROVE  ReadInv'
<1>1. drive' \in DriveType /\ drive'.pc = "idle" /\ drive'.asked = 0
  BY RestType
<1>2. Types'
  BY <1>1 DEF Types
<1>3. Where' /\ DmaOK'
  BY <1>1 DEF Where, DmaOK
<1>4. Data'
  <2>1. Right(0, Unit * drive.asked)'
    BY <1>1 DEF Right, Unit
  <2>. QED
    BY <1>1, <2>1 DEF Data, DmaRight
<1>. QED
  BY <1>2, <1>3, <1>4 DEF ReadInv

\* Memories that hold nothing.
LEMMA Cleared ==
  ASSUME Types
  PROVE  /\ [s \in Side |-> [a \in Addr |-> Old]] \in [Side -> [Addr -> Int]]
         /\ [a \in DOMAIN cache |-> Old] \in [0 .. Unit * Cache - 1 -> Int]
BY DEF Types, Old

-----------------------------------------------------------------------------
(* The drive goes on, whoever it works for.                                 *)

\* The parts of the invariant, kept apart so that a proof sees those it needs.
Control == Modes /\ FileWhere /\ StreamWhere /\ Filling
Inv == ReadInv /\ OldBeside /\ Control /\ FileData /\ StreamData

\* The request stays until the drive is free; only the game's read leaves a trace then.
LEMMA DriveOnward ==
  ASSUME ReadInv, StepOK
  PROVE  /\ drive'.pc # "idle" => SameRead
         /\ drive'.pc = "idle" /\ drive.side \notin {"iop", "ee"} => drive' = Rest
         /\ drive.side \in {"iop", "ee"} =>
              /\ drive'.side = drive.side /\ drive'.asked = drive.asked /\ drive'.from = drive.from
              /\ drive'.dest = drive.dest
<1>1. CASE drive'.pc # "idle"
  BY <1>1 DEF StepOK, SameRead
<1>2. CASE drive'.pc = "idle"
  <2>1. drive' = Done
    BY <1>2 DEF StepOK
  <2>. QED
    BY <1>2, <2>1, DoneType DEF ReadInv
<1>. QED
  BY <1>1, <1>2

\* The one it works for stays where it is.
LEMMA DriveControl ==
  ASSUME ReadInv, OldBeside, Control, StepOK, UNCHANGED fvars, Quiet
  PROVE  OldBeside' /\ Control'
<1>0. /\ Modes /\ FileWhere /\ StreamWhere /\ Filling
      /\ drive.pc # "idle" /\ Beside /\ drive.side \in Side
      /\ UNCHANGED <<file, call, st, game, want, out>>
  BY Fields DEF Control, StepOK, ReadInv, fvars, Quiet
<1>1. /\ drive'.pc # "idle" => SameRead
      /\ drive'.pc = "idle" /\ drive.side \notin {"iop", "ee"} => drive' = Rest
      /\ drive.side \in {"iop", "ee"} =>
           /\ drive'.side = drive.side /\ drive'.asked = drive.asked /\ drive'.from = drive.from
           /\ drive'.dest = drive.dest
  BY DriveOnward
<1>2. dma' = dma \/ (drive.side = "ee" /\ dma'.src \in {"none", "cache"})
  BY DEF StepOK
<1>3. OldBeside'
  <2>1. CASE drive.side \in {"iop", "ee"}
    BY <2>1, <1>0, <1>1 DEF OldBeside, Beside, Asked, Side
  <2>2. CASE drive.side \notin {"iop", "ee"}
    <3>1. \A s \in {"iop", "ee"}, a \in Addr : mem'[s][a] = Old
      BY <2>2, <1>0 DEF OldBeside, Beside, Side
    <3>2. drive'.side \notin {"iop", "ee"} \/ drive' = Rest
      BY <2>2, <1>1 DEF SameRead
    <3>3. Rest.from + Rest.asked <= Sectors
      BY RestType, ReadAssumption
    <3>. QED
      BY <3>1, <3>2, <3>3 DEF OldBeside
  <2>. QED
    BY <2>1, <2>2
<1>4. Modes'
  <2>1. st # NoRing => IF drive'.pc = "idle" THEN drive' = Rest ELSE drive'.side = "ring"
    <3>1. st # NoRing => drive.side = "ring"
      BY <1>0 DEF Modes
    <3>. QED
      BY <3>1, <1>1 DEF SameRead
  <2>2. file # NoFile => IF drive'.pc = "idle" THEN drive' = Rest
                         ELSE /\ drive'.side \in {"sec", "file"}
                              /\ call.pc \in {"firstread", "wholeread", "lastread"}
    <3>1. file # NoFile => drive.side \in {"sec", "file"}
                           /\ call.pc \in {"firstread", "wholeread", "lastread"}
      BY <1>0 DEF Modes
    <3>. QED
      BY <3>1, <1>1 DEF SameRead
  <2>3. st = NoRing /\ file = NoFile => drive'.side \in {"iop", "ee"}
    BY <1>0, <1>1 DEF Modes
  <2>4. st = NoRing => dma'.src # "ring"
    BY <1>0, <1>2 DEF Modes
  <2>. QED
    BY <1>0, <2>1, <2>2, <2>3, <2>4 DEF Modes
<1>5. FileWhere'
  <2>1. Got' = Got
    BY <1>0 DEF Got
  <2>2. file # NoFile /\ drive'.pc # "idle" =>
          /\ drive'.from = drive.from /\ drive'.side = drive.side /\ drive'.dest = drive.dest
          /\ drive'.asked = drive.asked
    BY <1>1 DEF SameRead
  <2>. QED
    BY <1>0, <2>1, <2>2 DEF FileWhere
<1>6. StreamWhere'
  <2>1. Ring' = Ring /\ Bank' = Bank /\ Fresh' = Fresh /\ Base' = Base /\ (Started' <=> Started)
    BY <1>0 DEF Ring, Bank, Fresh, Base, Started
  <2>2. dma'.src = "ring" => dma' = dma
    BY <1>2
  <2>. QED
    BY <1>0, <2>1, <2>2 DEF StreamWhere
<1>7. Filling'
  <2>1. Ring' = Ring /\ Bank' = Bank /\ Fresh' = Fresh /\ Base' = Base
    BY <1>0 DEF Ring, Bank, Fresh, Base
  <2>2. drive'.pc # "idle" =>
          /\ drive'.from = drive.from /\ drive'.dest = drive.dest /\ drive'.mis = drive.mis
          /\ drive'.asked = drive.asked
    BY <1>1 DEF SameRead
  <2>. QED
    BY <1>0, <2>1, <2>2 DEF Filling
<1>. QED
  BY <1>3, <1>4, <1>5, <1>6, <1>7 DEF Control

\* The positions of cdrom_read, as numbers.
LEMMA FileNumbers ==
  ASSUME FileWhere
  PROVE  /\ call.left \in Nat /\ call.got \in Nat /\ call.at \in Nat /\ call.sector \in Nat
         /\ call.skip \in 0 .. 3 /\ call.mis \in 0 .. 1 /\ call.from \in Nat
         /\ file.lsn \in Nat /\ file.size \in Nat /\ file.off \in Nat
         /\ Got \in Nat /\ Got <= call.got /\ call.got <= Unit * MaxRead
BY DEF FileWhere, FileType, CallType, Got

\* cdrom_read waits: what it has copied stays, and what it waits for comes.
LEMMA DriveFileData ==
  ASSUME Inv, StepOK, UNCHANGED fvars
  PROVE  FileData'
<1>0. /\ Modes /\ FileWhere /\ FileData /\ Types /\ drive.pc # "idle" /\ Beside
      /\ (slips' = {} => slips = {})
      /\ file' = file /\ call' = call /\ Got' = Got /\ Given' = Given
  BY DEF Inv, Control, ReadInv, StepOK, fvars, Got, Given
<1>1. /\ call.left \in Nat /\ call.got \in Nat /\ call.at \in Nat /\ call.sector \in Nat
      /\ call.mis \in 0 .. 1 /\ call.from \in Nat /\ file.lsn \in Nat
      /\ Got \in Nat /\ Got <= call.got /\ call.got <= Unit * MaxRead /\ MaxRead \in Nat
      /\ Got = call.got - call.left
  BY <1>0, FileNumbers, ReadAssumption DEF Got
<1>2. \A a \in Addr : a \in Int
  BY ReadAssumption DEF Addr, Unit, Line
<1>3. ASSUME NEW u \in 0 .. Got - 1 PROVE Line + call.mis + u \in Addr
  BY <1>1 DEF Addr, Unit, Line
<1>4. CASE drive.side # "file" /\ drive.side # "sec"
  <2>1. \A a \in Addr : mem'["file"][a] = mem["file"][a]
    BY <1>0, <1>4 DEF Beside, Side
  <2>2. file = NoFile
    BY <1>0, <1>4 DEF Modes
  <2>3. call.pc = "none"
    BY <1>0, <2>2 DEF Modes, NoCall
  <2>4. \A a \in Addr \ Given : mem'.file[a] = Old
    BY <2>1, <1>0 DEF FileData
  <2>5. slips' = {} => \A u \in 0 .. Got - 1 :
                         mem'.file[Line + call.mis + u] = Img(Unit * file.lsn + call.from + u)
    BY <2>1, <1>0, <1>3 DEF FileData
  <2>. QED
    BY <2>3, <2>4, <2>5, <1>0 DEF FileData
<1>5. CASE drive.side \in {"file", "sec"}
  <2>1. /\ file # NoFile /\ call.pc \in {"firstread", "wholeread", "lastread"}
    BY <1>0, <1>5 DEF Modes
  <2>2. /\ drive.from = call.sector /\ call.at = Line + call.mis + Got
        /\ call.pc = "wholeread" =>
             drive.side = "file" /\ drive.dest = call.at /\ drive.asked = call.left \div Unit
        /\ call.pc # "wholeread" => drive.side = "sec" /\ drive.dest = 0 /\ drive.asked = 1
    BY <2>1, <1>0 DEF FileWhere
  <2>3. /\ call.left \div Unit \in Nat
        /\ Unit * (call.left \div Unit) <= call.left
        /\ Unit * (call.left \div Unit) \in Nat
    BY <1>1 DEF Unit
  <2>. DEFINE whole == Unit * (call.left \div Unit)
  <2>4. ASSUME NEW a \in Addr, a \notin Given \/ a < Line + call.mis + Got
        PROVE  mem'.file[a] = mem.file[a]
    <3>1. CASE call.pc = "wholeread"
      <4>1. a \notin drive.dest .. drive.dest + Unit * drive.asked - 1
        <5>1. drive.dest = Line + call.mis + Got /\ Unit * drive.asked = whole
          BY <3>1, <2>2
        <5>2. drive.dest + whole <= Line + call.mis + call.got
          BY <5>1, <2>3, <1>1 DEF Line
        <5>3. a \notin Given => a < Line + call.mis \/ a > Line + call.mis + call.got - 1
          BY <1>1, <1>2 DEF Given, Line
        <5>. HIDE DEF whole
        <5>. QED
          BY <2>3, <2>4, <5>1, <5>2, <5>3, <1>1, <1>2 DEF Line, whole
      <4>. QED
        BY <4>1, <1>0 DEF Beside, Side
    <3>2. CASE call.pc # "wholeread"
      BY <3>2, <2>2, <1>0 DEF Beside, Side
    <3>. QED
      BY <3>1, <3>2
  <2>5. \A a \in Addr \ Given : mem'.file[a] = Old
    BY <2>4, <1>0 DEF FileData
  <2>6. ASSUME slips' = {}, NEW u \in 0 .. Got - 1
        PROVE  mem'.file[Line + call.mis + u] = Img(Unit * file.lsn + call.from + u)
    <3>1. Line + call.mis + u \in Addr /\ Line + call.mis + u < Line + call.mis + Got
      BY <1>1, <1>3 DEF Line
    <3>2. mem.file[Line + call.mis + u] = Img(Unit * file.lsn + call.from + u)
      BY <2>6, <1>0 DEF FileData
    <3>. QED
      BY <3>1, <3>2, <2>4
  <2>7. ASSUME slips' = {}, drive'.pc = "idle"
        PROVE  \A u \in 0 .. Unit * drive.asked - 1 :
                 mem'[drive.side][drive.dest + u] = Img(Unit * drive.from + u)
    BY <2>7, <1>5 DEF StepOK
  <2>8. ASSUME slips' = {}, drive'.pc = "idle", call.pc \in {"firstread", "lastread"},
               NEW u \in 0 .. Unit - 1
        PROVE  mem'.sec[u] = Img(Unit * call.sector + u)
    <3>1. drive.side = "sec" /\ drive.dest = 0 /\ drive.asked = 1 /\ drive.from = call.sector
      BY <2>2, <2>8
    <3>2. mem'[drive.side][drive.dest + u] = Img(Unit * drive.from + u)
      BY <3>1, <2>7, <2>8 DEF Unit
    <3>3. drive.dest + u = u
      BY <3>1 DEF Unit
    <3>. QED
      BY <3>1, <3>2, <3>3
  <2>9. ASSUME slips' = {}, drive'.pc = "idle", call.pc = "wholeread", NEW u \in 0 .. whole - 1
        PROVE  mem'.file[call.at + u] = Img(Unit * call.sector + u)
    <3>1. drive.side = "file" /\ drive.dest = call.at /\ Unit * drive.asked = whole
          /\ drive.from = call.sector
      BY <2>2, <2>9
    <3>2. mem'[drive.side][drive.dest + u] = Img(Unit * drive.from + u)
      BY <3>1, <2>7, <2>9
    <3>. QED
      BY <3>1, <3>2
  <2>. QED
    BY <2>5, <2>6, <2>8, <2>9, <1>0 DEF FileData
<1>. QED
  BY <1>4, <1>5

\* A product grows with its first factor.
LEMMA Grows ==
  ASSUME NEW a \in Nat, NEW b \in Nat, NEW s \in Nat, a <= b
  PROVE  a * s \in Nat /\ b * s \in Nat /\ a * s <= b * s
<1>1. a * s \in Nat /\ b * s \in Nat /\ (b - a) * s \in Nat
  <2>1. b - a \in Nat
    OBVIOUS
  <2>. QED
    BY <2>1
<1>2. b * s = a * s + (b - a) * s
  OBVIOUS
<1>. QED
  BY <1>1, <1>2

\* The banks of a ring lie behind each other.
LEMMA RingNumbers ==
  ASSUME StreamWhere, st # NoRing
  PROVE  /\ st.size \in Nat /\ st.size > 0 /\ st.banks \in Nat /\ st.bank \in Nat /\ st.off \in Nat
         /\ st.lsn \in Nat /\ want \in Nat
         /\ Ring \in Nat /\ Bank \in Nat /\ Fresh \in Nat /\ Ring <= MaxRead
         /\ Bank + st.size <= Ring
         /\ Fresh = IF st.bank % 2 = 1 THEN Bank - st.size ELSE Bank
         /\ st.bank = 0 => Bank = 0
         /\ st.bank > 0 => Bank >= st.size
         /\ st.bank = 1 => Bank = st.size
         /\ st.bank > 1 => Bank >= 2 * st.size
         /\ st.bank + 1 = st.banks => Bank + st.size = Ring
         /\ st.bank + 1 < st.banks => Bank + 2 * st.size <= Ring
         /\ st.banks > 2 => Ring >= 3 * st.size
         /\ st.banks > 3 => Ring >= 4 * st.size
         /\ Base \in Int /\ Base = want - (Bank + st.off)
         /\ Ring > 0
<1>1. /\ st.size \in Nat /\ st.size > 0 /\ st.banks \in Nat /\ st.bank \in Nat /\ st.off \in Nat
      /\ st.lsn \in Nat /\ want \in Nat /\ st.bank < st.banks /\ Ring <= MaxRead
  BY DEF StreamWhere, StType
<1>. DEFINE T == st.banks
            b == st.bank
            S == st.size
<1>2. Ring = T * S /\ Bank = b * S /\ Ring \in Nat /\ Bank \in Nat
  BY <1>1 DEF Ring, Bank
<1>3. \A k \in Nat : (k + 1) * S = k * S + S /\ (k + 2) * S = k * S + 2 * S
  BY <1>1
<1>4. /\ 0 * S = 0 /\ 1 * S = S /\ 2 * S \in Nat /\ 3 * S \in Nat /\ 4 * S \in Nat
  BY <1>1
<1>5. \A k, l \in Nat : k <= l => k * S <= l * S
  BY <1>1, Grows
<1>. HIDE DEF T, b, S
<1>6. Bank + S <= Ring
  <2>1. (b + 1) * S <= T * S /\ (b + 1) * S = Bank + S
    <3>1. b + 1 \in Nat /\ T \in Nat /\ b + 1 <= T
      BY <1>1 DEF b, T
    <3>. QED
      BY <3>1, <1>1, <1>2, <1>3, <1>5 DEF b
  <2>. QED
    BY <2>1, <1>2
<1>7. /\ st.bank = 0 => Bank = 0
      /\ st.bank = 1 => Bank = S
  BY <1>2, <1>4 DEF b
<1>8. st.bank > 0 => Bank >= S
  <2>1. st.bank > 0 => 1 * S <= b * S
    BY <1>1, <1>5 DEF b
  <2>. QED
    BY <2>1, <1>1, <1>2, <1>4 DEF S
<1>9. st.bank > 1 => Bank >= 2 * S
  <2>1. st.bank > 1 => 2 * S <= b * S
    BY <1>1, <1>5 DEF b
  <2>. QED
    BY <2>1, <1>1, <1>2, <1>4 DEF S
<1>10. st.bank + 1 = st.banks => Bank + S = Ring
  <2>1. st.bank + 1 = st.banks => T = b + 1
    BY DEF T, b
  <2>. QED
    BY <2>1, <1>1, <1>2, <1>3 DEF b
<1>11. st.bank + 1 < st.banks => Bank + 2 * S <= Ring
  <2>1. st.bank + 1 < st.banks => (b + 2) * S <= T * S
    BY <1>1, <1>5 DEF b, T
  <2>2. (b + 2) * S = Bank + 2 * S
    BY <1>1, <1>2, <1>3 DEF b
  <2>. QED
    BY <2>1, <2>2, <1>2
<1>12. /\ st.banks > 2 => Ring >= 3 * S
       /\ st.banks > 3 => Ring >= 4 * S
  <2>1. /\ st.banks > 2 => 3 * S <= T * S
        /\ st.banks > 3 => 4 * S <= T * S
    BY <1>1, <1>5 DEF T
  <2>. QED
    BY <2>1, <1>2, <1>4
<1>13. /\ Fresh = IF st.bank % 2 = 1 THEN Bank - st.size ELSE Bank
       /\ Fresh \in Nat
  <2>1. st.bank % 2 = 1 => st.bank > 0
    BY <1>1
  <2>. QED
    BY <2>1, <1>1, <1>2, <1>8 DEF Fresh, S
<1>14. Base \in Int /\ Base = want - (Bank + st.off) /\ Ring > 0
  BY <1>1, <1>2, <1>6 DEF Base, S
<1>. QED
  BY <1>1, <1>2, <1>6, <1>7, <1>8, <1>9, <1>10, <1>11, <1>12, <1>13, <1>14 DEF S

\* What the drive reads into a place of the ring is what belongs there.
LEMMA FilledPlace ==
  ASSUME Types, StreamWhere, Filling, st # NoRing, drive.pc # "idle", Started, NEW a \in Busy
  PROVE  Place(a) = Unit * drive.from + (a - drive.dest)
<1>1. /\ st.size \in Nat /\ Ring \in Nat /\ Fresh \in Nat /\ Base \in Int /\ Bank \in Nat /\ want \in Nat
      /\ Base = want - (Bank + st.off) /\ st.off \in Nat
      /\ st.bank = 0 => Bank = 0
      /\ Fresh = IF st.bank % 2 = 1 THEN Bank - st.size ELSE Bank
  BY RingNumbers
<1>2. a \in drive.dest .. drive.dest + Unit * drive.asked - 1
      /\ drive.dest \in Nat /\ drive.asked \in Nat /\ drive.from \in Nat
  BY Nats DEF Busy
<1>3. CASE game.pc = "sync"
  <2>1. drive.dest = 0 /\ drive.from = want /\ st.bank = 0 /\ st.off = 0
    BY <1>3 DEF Filling, StreamWhere
  <2>2. Fresh = 0 /\ Base = want
    BY <2>1, <1>1
  <2>. QED
    BY <2>1, <2>2, <1>1, <1>2 DEF Place, Unit
<1>4. CASE game.pc \in {"idle", "take", "refill"}
  <2>. DEFINE n == IF Fresh = 0 /\ st.banks % 2 = 1 THEN st.size ELSE 2 * st.size
              from == (IF Fresh = 0 THEN Ring ELSE Fresh) - n
  <2>1. /\ drive.dest = Unit * from /\ drive.asked = n
        /\ drive.from = Base + from + (IF Fresh = 0 THEN 0 ELSE Ring)
    BY <1>4 DEF Filling
  <2>2. n \in Nat /\ from = (IF Fresh = 0 THEN Ring ELSE Fresh) - n /\ from \in Int
    BY <1>1
  <2>. HIDE DEF n, from
  <2>3. CASE Fresh = 0
    <3>1. drive.from = Base + from
      BY <2>1, <2>2, <2>3, <1>1
    <3>. QED
      BY <2>1, <2>2, <2>3, <3>1, <1>1, <1>2 DEF Place, Unit
  <2>4. CASE Fresh # 0
    <3>1. drive.from = Base + from + Ring /\ from + n = Fresh
      BY <2>1, <2>2, <2>4, <1>1
    <3>2. a < Unit * Fresh
      BY <2>1, <2>2, <3>1, <1>1, <1>2 DEF Unit
    <3>. QED
      BY <2>1, <2>2, <3>1, <3>2, <1>1, <1>2 DEF Place, Unit
  <2>. QED
    BY <2>3, <2>4
<1>. QED
  BY <1>3, <1>4 DEF Started

\* The drive fills the ring, and leaves alone what is on its way to the EE.
LEMMA DriveStreamData ==
  ASSUME Inv, StepOK, Quiet
  PROVE  StreamData'
<1>0. /\ Modes /\ StreamWhere /\ Filling /\ StreamData /\ Types /\ drive.pc # "idle" /\ Beside
      /\ (slips' = {} => slips = {})
      /\ UNCHANGED <<st, game, want, out>>
  BY DEF Inv, Control, ReadInv, StepOK, Quiet
<1>1. CASE st = NoRing
  <2>1. ~Started' /\ dma'.src # "ring" /\ out'.came = <<>>
    <3>1. dma' = dma \/ dma'.src \in {"none", "cache"}
      BY DEF StepOK
    <3>. QED
      BY <3>1, <1>0, <1>1 DEF Modes, Started, Idle, NoRing, Nothing
  <2>. QED
    BY <2>1 DEF StreamData
<1>2. CASE st # NoRing
  <2>1. drive.side = "ring" /\ drive.mis = 0 /\ Direct /\ dma' = dma
    <3>1. drive.side = "ring" /\ drive.mis = 0
      BY <1>0, <1>2 DEF Modes, Filling
    <3>. QED
      BY <3>1 DEF Direct, StepOK
  <2>2. /\ Ring \in Nat /\ Fresh \in Nat /\ Base \in Int /\ Ring <= MaxRead /\ MaxRead \in Nat
    BY <1>0, <1>2, RingNumbers, ReadAssumption
  <2>3. /\ Ring' = Ring /\ Fresh' = Fresh /\ Base' = Base /\ (Started' <=> Started)
        /\ \A a : Place(a)' = Place(a)
    BY <1>0 DEF Ring, Fresh, Base, Bank, Started, Place
  <2>4. drive.dest \in Nat /\ drive.asked \in Nat /\ drive.from \in Nat
    BY <1>0, Nats
  <2>5. \A a \in 0 .. Unit * Ring - 1 : a \in Addr
    BY <2>2 DEF Addr, Unit, Line
  <2>6. ASSUME slips' = {}, st.banks # 2, Started, NEW a \in 0 .. Unit * Ring - 1,
               a \notin Busy', Place(a) < Unit * Sectors
        PROVE  mem'.ring[a] = Place(a)
    <3>1. CASE a \notin Busy
      <4>1. mem'.ring[a] = mem.ring[a]
        BY <3>1, <2>1, <2>5, <1>0 DEF Beside, Busy, Side
      <4>2. mem.ring[a] = Place(a)
        BY <3>1, <2>6, <1>0 DEF StreamData
      <4>. QED
        BY <4>1, <4>2
    <3>2. CASE a \in Busy
      <4>1. drive'.pc = "idle"
        <5>1. drive'.pc # "idle" => Busy' = Busy
          BY <1>0 DEF Busy, StepOK, SameRead
        <5>. QED
          BY <5>1, <3>2, <2>6
      <4>2. a - drive.dest \in 0 .. Unit * drive.asked - 1 /\ drive.dest + (a - drive.dest) = a
        BY <3>2, <2>4, <1>0 DEF Busy, Unit
      <4>3. mem'.ring[drive.dest + (a - drive.dest)] = Img(Unit * drive.from + (a - drive.dest))
        BY <4>1, <4>2, <2>1, <2>6 DEF StepOK
      <4>4. Place(a) = Unit * drive.from + (a - drive.dest)
        BY <3>2, <2>6, <1>0, <1>2, FilledPlace
      <4>. QED
        BY <4>2, <4>3, <4>4, <2>6 DEF Img
    <3>. QED
      BY <3>1, <3>2
  <2>7. ASSUME slips' = {}, st.banks # 2, dma.src = "ring", NEW u \in 0 .. dma.n - 1
        PROVE  mem'.ring[dma.from + u] = dma.to + u
    <3>1. dma.from \in Nat /\ dma.n \in Nat /\ dma.from + dma.n <= Unit * Ring
      BY <2>7, <1>0 DEF StreamWhere, Types, DmaType
    <3>2. dma.from + u \in Addr \cap (dma.from .. dma.from + dma.n - 1)
      BY <3>1, <2>2, <2>5 DEF Unit
    <3>3. mem'.ring[dma.from + u] = mem.ring[dma.from + u]
      BY <3>2, <2>1, <2>7 DEF StepOK
    <3>4. mem.ring[dma.from + u] = dma.to + u
      BY <2>7, <1>0 DEF StreamData
    <3>. QED
      BY <3>3, <3>4
  <2>8. slips' = {} /\ st.banks # 2 => \A i \in DOMAIN out.came : out.came[i] = out.due + i - 1
    BY <1>0 DEF StreamData
  <2>. QED
    BY <2>1, <2>3, <2>6, <2>7, <2>8, <1>0 DEF StreamData
<1>. QED
  BY <1>1, <1>2

\* Every step of the drive keeps the invariant, whoever it works for.
LEMMA DriveInv ==
  ASSUME Inv, DriveStep \/ DmaEnd \/ Break, UNCHANGED fvars, Quiet
  PROVE  Inv'
<1>0. ReadInv /\ OldBeside /\ Control /\ FileData /\ StreamData
  BY DEF Inv
<1>1. ASSUME StepOK PROVE Inv'
  <2>1. OldBeside' /\ Control'
    BY <1>0, <1>1, DriveControl
  <2>2. FileData' /\ StreamData'
    BY <1>1, DriveFileData, DriveStreamData
  <2>3. ReadInv'
    BY <1>1 DEF StepOK
  <2>. QED
    BY <2>1, <2>2, <2>3 DEF Inv
<1>2. DriveStep => StepOK
  BY <1>0, BlockStep, ChunkStep, PartStep, FinishStep DEF DriveStep
<1>3. Break => StepOK
  <2>. SUFFICES ASSUME Break PROVE StepOK
    OBVIOUS
  <2>1. ReadInv' /\ Beside /\ SameRead /\ UNCHANGED <<mem, cache, dma, slips>>
         /\ drive.pc # "idle" /\ drive'.pc = drive.pc
    BY <1>0, BreakStep
  <2>2. drive'.pc # "idle"
    BY <2>1
  <2>. QED
    BY <2>1, <2>2 DEF StepOK
<1>4. ASSUME DmaEnd PROVE Inv'
  <2>1. ReadInv' /\ Beside /\ dma' = NoDma /\ drive.side = "ee" /\ UNCHANGED <<drive, slips>>
    BY <1>0, <1>4, DmaEndStep
  <2>2. st = NoRing /\ file = NoFile /\ NoDma.src = "none"
    BY <1>0, <2>1, RestType DEF Control, Modes
  <2>3. UNCHANGED <<st, game, want, out, file, call>>
    BY DEF Quiet, fvars
  <2>4. OldBeside'
    BY <1>0, <2>1 DEF OldBeside, Beside, Asked, Side
  <2>5. Modes'
    BY <1>0, <2>1, <2>2, <2>3 DEF Control, Modes
  <2>6. FileWhere'
    BY <1>0, <2>1, <2>2, <2>3 DEF Control, FileWhere, Got
  <2>7. StreamWhere' /\ Filling'
    <3>1. Ring' = Ring /\ Bank' = Bank /\ Fresh' = Fresh /\ Base' = Base /\ (Started' <=> Started)
      BY <2>3 DEF Ring, Bank, Fresh, Base, Started
    <3>. QED
      BY <3>1, <1>0, <2>1, <2>2, <2>3 DEF Control, StreamWhere, Filling
  <2>8. FileData'
    <3>1. \A a \in Addr : mem'.file[a] = mem.file[a]
      BY <2>1 DEF Beside, Side
    <3>2. call.pc = "none" /\ \A u \in 0 .. Got - 1 : Line + call.mis + u \in Addr
      <4>1. call = NoCall
        BY <1>0, <2>2 DEF Control, Modes
      <4>2. call.pc = "none" /\ Got = 0
        BY <4>1 DEF NoCall, Got
      <4>. QED
        BY <4>2
    <3>. QED
      BY <1>0, <2>1, <2>3, <3>1, <3>2 DEF FileData, Got, Given
  <2>9. StreamData'
    <3>1. ~Started' /\ out'.came = <<>>
      BY <1>0, <2>2, <2>3 DEF Control, Modes, Started, Idle, NoRing, Nothing
    <3>. QED
      BY <2>1, <2>2, <3>1 DEF StreamData
  <2>. QED
    BY <2>1, <2>4, <2>5, <2>6, <2>7, <2>8, <2>9 DEF Inv, Control
<1>. QED
  BY <1>1, <1>2, <1>3, <1>4
-----------------------------------------------------------------------------
(* The initial states, and steps that leave parts of the state alone.       *)

\* A read that nobody touches.
LEMMA SameReadInv ==
  ASSUME ReadInv, UNCHANGED rvars
  PROVE  ReadInv'
<1>1. UNCHANGED <<dev, mem, cache, drive, dma, slips>>
  BY DEF rvars
<1>2. Types' /\ Where' /\ DmaOK'
  <2>1. Types' /\ DmaOK'
    BY <1>1 DEF ReadInv, Types, DmaOK
  <2>2. Slack' = Slack /\ Passed' = Passed /\ Read1' = Read1 /\ (Direct' <=> Direct)
        /\ (Skewed' <=> Skewed) /\ Source' = Source /\ ChunkSize' = ChunkSize
    BY <1>1 DEF Slack, Passed, Read1, Direct, Skewed, Source, ChunkSize, Room
  <2>3. Where'
    BY <1>1, <2>2 DEF ReadInv, Where
  <2>. QED
    BY <2>1, <2>3
<1>3. Data'
  <2>1. Read1' = Read1 /\ (Direct' <=> Direct) /\ (Skewed' <=> Skewed) /\ Source' = Source
    BY <1>1 DEF Read1, Direct, Skewed, Source
  <2>2. DmaRight' <=> DmaRight
    BY <1>1 DEF DmaRight
  <2>3. \A lo, hi : Right(lo, hi)' <=> Right(lo, hi)
    BY <1>1 DEF Right, Coming
  <2>4. Data
    BY DEF ReadInv
  <2>. HIDE DEF DmaRight, Right
  <2>. QED
    BY <1>1, <2>1, <2>2, <2>3, <2>4, Zenon DEF Data
<1>. QED
  BY <1>2, <1>3 DEF ReadInv

\* Nothing is in place before the first call.
LEMMA InitInv == Init => Inv
<1>. SUFFICES ASSUME Init PROVE Inv
  OBVIOUS
<1>1. /\ dev \in DevUnits
      /\ mem = [s \in Side |-> [a \in Addr |-> Old]]
      /\ cache = [a \in 0 .. Unit * Cache - 1 |-> Old]
      /\ drive = Rest /\ dma = NoDma /\ slips = {}
      /\ file = NoFile /\ call = NoCall
      /\ st = NoRing /\ game = Idle /\ want = 0 /\ out = Nothing
  BY DEF Init, ReadInit
<1>2. /\ drive \in DriveType /\ drive.pc = "idle" /\ drive.side = "iop" /\ drive.asked = 0
      /\ drive.from = 0 /\ dma \in DmaType /\ dma.src = "none"
  BY <1>1, RestType
<1>3. ReadInv
  <2>1. Types
    BY <1>1, <1>2 DEF Types, Old
  <2>2. Where /\ DmaOK
    BY <1>1, <1>2 DEF Where, DmaOK
  <2>3. Data
    BY <1>2 DEF Data, DmaRight, Right, Unit
  <2>. QED
    BY <2>1, <2>2, <2>3 DEF ReadInv
<1>4. OldBeside
  BY <1>1, <1>2, ReadAssumption DEF OldBeside, Side
<1>5. Modes
  BY <1>1, <1>2 DEF Modes
<1>6. FileWhere /\ Got = 0 /\ call.pc = "none"
  <2>1. /\ NoFile.size = 0 /\ NoFile.lsn = 0 /\ NoFile \in FileType
        /\ NoCall.left = 0 /\ NoCall.got = 0 /\ NoCall.pc = "none" /\ NoCall \in CallType
    BY DEF NoFile, NoCall, FileType, CallType
  <2>. QED
    BY <1>1, <1>2, <2>1, ReadAssumption DEF FileWhere, Got, Unit
<1>7. FileData
  <2>1. \A a \in Addr : mem.file[a] = Old
    BY <1>1 DEF Side
  <2>. QED
    BY <1>6, <2>1 DEF FileData
<1>8. ~Started /\ st \in StType /\ game \in GameType /\ game.pc = "idle"
  BY <1>1 DEF Started, Idle, NoRing, StType, GameType
<1>9. StreamWhere /\ Filling
  BY <1>1, <1>2, <1>8 DEF StreamWhere, Filling
<1>10. StreamData
  BY <1>1, <1>2, <1>8 DEF StreamData, Nothing
<1>. QED
  BY <1>3, <1>4, <1>5, <1>6, <1>7, <1>9, <1>10 DEF Inv, Control

\* What depends on some of the variables only.
LEMMA SameFile ==
  ASSUME FileWhere, UNCHANGED <<drive, fvars>>
  PROVE  FileWhere'
<1>1. UNCHANGED <<drive, file, call>> /\ Got' = Got
  BY DEF fvars, Got
<1>. QED
  BY <1>1 DEF FileWhere

\* Likewise.
LEMMA SameStream ==
  ASSUME UNCHANGED <<st, game, want, drive, dma>>
  PROVE  (StreamWhere => StreamWhere') /\ (Filling => Filling')
<1>1. Ring' = Ring /\ Bank' = Bank /\ Fresh' = Fresh /\ Base' = Base /\ (Started' <=> Started)
  BY DEF Ring, Bank, Fresh, Base, Started
<1>. QED
  BY <1>1 DEF StreamWhere, Filling

\* Nothing happens.
LEMMA StutterInv ==
  ASSUME Inv, UNCHANGED svars
  PROVE  Inv'
<1>1. UNCHANGED <<dev, mem, cache, drive, dma, slips, file, call, st, game, want, out>>
  BY DEF svars
<1>2. ReadInv' /\ FileWhere' /\ StreamWhere' /\ Filling'
  BY <1>1, SameReadInv, SameFile, SameStream DEF Inv, Control, rvars, fvars
<1>3. OldBeside'
  BY <1>1 DEF Inv, OldBeside, Asked
<1>4. Modes'
  BY <1>1 DEF Inv, Control, Modes
<1>5. FileData'
  BY <1>1 DEF Inv, FileData, Given, Got
<1>6. StreamData'
  <2>1. Ring' = Ring /\ Busy' = Busy /\ (Started' <=> Started) /\ \A a : Place(a)' = Place(a)
    BY <1>1 DEF Ring, Busy, Started, Place, Base, Bank, Fresh
  <2>2. StreamData
    BY DEF Inv
  <2>. QED
    BY <1>1, <2>1, <2>2, Zenon DEF StreamData
<1>. QED
  BY <1>2, <1>3, <1>4, <1>5, <1>6 DEF Inv, Control

\* Without a stream there is nothing to keep of one.
LEMMA NoStream ==
  ASSUME st' = NoRing, game' = Idle, out' = Nothing, want' \in Nat, dma'.src # "ring"
  PROVE  StreamWhere' /\ Filling' /\ StreamData'
<1>1. ~Started' /\ st' \in StType /\ game' \in GameType /\ game'.pc = "idle"
  BY DEF Started, Idle, NoRing, StType, GameType
<1>2. StreamWhere' /\ Filling'
  BY <1>1 DEF StreamWhere, Filling
<1>3. StreamData'
  BY <1>1 DEF StreamData, Nothing
<1>. QED
  BY <1>2, <1>3

\* Without a file there is nothing to keep of one.
LEMMA WithoutFile ==
  ASSUME file' = NoFile, call' = NoCall, \A a \in Addr : mem'.file[a] = Old
  PROVE  FileWhere' /\ FileData'
<1>1. /\ NoFile.size = 0 /\ NoFile.lsn = 0 /\ NoFile \in FileType
      /\ NoCall.left = 0 /\ NoCall.got = 0 /\ NoCall.pc = "none" /\ NoCall \in CallType
  BY DEF NoFile, NoCall, FileType, CallType
<1>2. Got' = 0 /\ call'.pc = "none"
  BY <1>1 DEF Got
<1>. QED
  BY <1>1, <1>2, ReadAssumption DEF FileWhere, FileData, Unit

\* The game reads sectors.
LEMMA ReadInvStep ==
  ASSUME Inv, NEW side \in {"iop", "ee"}, NEW mis \in 0 .. Line - 1, NEW lsn \in Lsns,
         NEW n \in 1 .. MaxRead, Read(side, mis, lsn, n), st = NoRing, file = NoFile,
         UNCHANGED fvars, Quiet
  PROVE  Inv'
<1>0. /\ Types /\ DmaOK /\ Modes /\ FileWhere /\ StreamWhere
      /\ UNCHANGED <<file, call, st, game, want, out>>
  BY DEF Inv, ReadInv, Control, fvars, Quiet
<1>1. /\ drive.pc = "idle" /\ dma = NoDma /\ lsn + n <= Sectors
      /\ mem' = [s \in Side |-> [a \in Addr |-> Old]] /\ cache' = [a \in DOMAIN cache |-> Old]
      /\ drive' = Command(side, Line + mis, lsn, n)
      /\ slips' = {} /\ UNCHANGED <<dev, dma>>
  BY DEF Read
<1>2. Told(side, Line + mis, lsn, n)
  <2>1. /\ side \in Side /\ Line + mis \in Nat /\ lsn \in Nat /\ n \in Nat /\ n > 0
        /\ (Line + mis) + Unit * n <= Unit * MaxRead + 2 * Line
    BY ReadAssumption DEF Side, Line, Unit
  <2>. QED
    BY <1>0, <1>1, <2>1, Cleared DEF Told
<1>3. dma'.src # "ring" /\ dma.src # "cache"
  BY <1>1, RestType
<1>4. /\ ReadInv' /\ drive'.pc = "chunk" /\ drive'.side = side
      /\ drive'.asked = n /\ drive'.from = lsn
  BY <1>0, <1>2, <1>3, CommandStep
<1>5. \A s \in Side, a \in Addr : mem'[s][a] = Old
  BY <1>1
<1>6. OldBeside'
  BY <1>1, <1>4, <1>5 DEF OldBeside, Side
<1>7. game' = Idle /\ out' = Nothing /\ call' = NoCall /\ want' \in Nat
  BY <1>0 DEF Modes, StreamWhere
<1>8. Modes'
  BY <1>0, <1>3, <1>4, <1>7 DEF Modes
<1>9. StreamWhere' /\ Filling' /\ StreamData'
  BY <1>0, <1>3, <1>7, NoStream
<1>10. FileWhere' /\ FileData'
  BY <1>0, <1>5, <1>7, WithoutFile DEF Side
<1>. QED
  BY <1>4, <1>6, <1>8, <1>9, <1>10 DEF Inv, Control

\* sceCdStInit gives the game a ring with nothing in it.
LEMMA StInitInv ==
  ASSUME Inv, NEW r \in Rings, StInit(r)
  PROVE  Inv'
<1>0. /\ Types /\ DmaOK /\ Modes
      /\ game.pc = "idle" /\ drive.pc = "idle" /\ dma = NoDma /\ file = NoFile
      /\ st' = [NoRing EXCEPT !.banks = r[2], !.size = r[1] \div r[2]]
      /\ mem' = [s \in Side |-> [a \in Addr |-> Old]] /\ cache' = [a \in DOMAIN cache |-> Old]
      /\ drive' = Rest /\ game' = Idle /\ want' = 0 /\ out' = Nothing /\ slips' = {}
      /\ UNCHANGED <<dev, dma, file, call>>
  BY DEF Inv, ReadInv, Control, StInit, fvars
<1>. DEFINE size == r[1] \div r[2]
<1>1. r[1] \in Nat /\ r[2] \in Nat /\ r[2] > 0 /\ r[2] <= r[1] /\ r[1] <= MaxRead /\ MaxRead \in Nat
  BY StreamAssumption, ReadAssumption
<1>2. size \in Nat /\ size > 0 /\ r[2] * size <= MaxRead
  <2>1. size \in Nat /\ r[1] % r[2] \in 0 .. r[2] - 1 /\ r[1] = r[2] * size + (r[1] % r[2])
    BY <1>1, Divided
  <2>2. r[2] * size \in Nat
    <3>. HIDE DEF size
    <3>. QED
      BY <1>1, <2>1, Grows
  <2>3. size # 0
    <3>1. size = 0 => r[2] * size = 0
      BY <1>1
    <3>. HIDE DEF size
    <3>. QED
      BY <1>1, <2>1, <3>1
  <2>. HIDE DEF size
  <2>. QED
    BY <1>1, <2>1, <2>2, <2>3
<1>. HIDE DEF size
<1>3. /\ st'.banks = r[2] /\ st'.size = size /\ st'.lsn = 0 /\ st'.off = 0 /\ st'.bank = 0
      /\ st' \in StType
  BY <1>0, <1>1, <1>2 DEF NoRing, StType, size
<1>4. st' # NoRing
  BY <1>1, <1>3 DEF NoRing
<1>5. \A s \in Side, a \in Addr : mem'[s][a] = Old
  BY <1>0
<1>6. ReadInv' /\ drive'.side = "iop" /\ drive'.from + drive'.asked <= Sectors
      /\ drive'.pc = "idle" /\ dma'.src = "none"
  <2>1. dma'.src = "none"
    BY <1>0, RestType
  <2>2. ReadInv'
    BY <1>0, <2>1, Cleared, RestStep
  <2>. QED
    BY <2>1, <2>2, <1>0, RestType, ReadAssumption
<1>7. OldBeside'
  BY <1>5, <1>6 DEF OldBeside, Side
<1>8. call' = NoCall
  BY <1>0 DEF Modes
<1>9. Modes'
  BY <1>0, <1>1, <1>3, <1>4, <1>6, <1>8 DEF Modes
<1>10. FileWhere' /\ FileData'
  BY <1>0, <1>5, <1>8, WithoutFile DEF Side
<1>11. ~Started' /\ game'.pc = "idle" /\ game' \in GameType
  BY <1>0, <1>3 DEF Started, Idle, GameType
<1>12. StreamWhere' /\ Filling'
  <2>1. Ring' <= MaxRead
    BY <1>2, <1>3 DEF Ring
  <2>. QED
    BY <1>0, <1>1, <1>2, <1>3, <1>6, <1>11, <2>1 DEF StreamWhere, Filling
<1>13. StreamData'
  BY <1>0, <1>6, <1>11 DEF StreamData, Nothing
<1>. QED
  BY <1>6, <1>7, <1>9, <1>10, <1>12, <1>13 DEF Inv, Control

\* While there is a ring, the drive works for it, and nothing else is written.
LEMMA RingOwns ==
  ASSUME Inv, st # NoRing
  PROVE  /\ file = NoFile /\ call = NoCall /\ dma.src # "cache"
         /\ IF drive.pc = "idle" THEN drive = Rest ELSE drive.side = "ring"
         /\ \A s \in {"iop", "ee", "file"}, a \in Addr : mem[s][a] = Old
<1>1. /\ file = NoFile /\ call = NoCall
      /\ IF drive.pc = "idle" THEN drive = Rest ELSE drive.side = "ring"
  BY DEF Inv, Control, Modes
<1>2. drive.side = "ring" \/ (drive.side = "iop" /\ drive.asked = 0 /\ drive.dest = 0)
  BY <1>1, RestType
<1>3. dma.src # "cache"
  BY <1>2 DEF Inv, ReadInv, DmaOK
<1>4. \A s \in {"iop", "ee"}, a \in Addr : mem[s][a] = Old
  <2>1. drive.side # "ring" => Asked = {}
    BY <1>2 DEF Asked, Unit
  <2>. QED
    BY <1>2, <2>1 DEF Inv, OldBeside
<1>5. \A a \in Addr : mem.file[a] = Old
  <2>1. call.got = 0 /\ call.mis = 0
    BY <1>1 DEF NoCall
  <2>2. Given = {}
    BY <2>1 DEF Given, Line
  <2>. QED
    BY <2>2 DEF Inv, FileData
<1>. QED
  BY <1>1, <1>3, <1>4, <1>5

\* What every step of a stream keeps.
LEMMA StreamKeeps ==
  ASSUME Inv, st # NoRing, UNCHANGED fvars, st'.banks = st.banks,
         drive' = drive \/ (drive'.pc = "chunk" /\ drive'.side = "ring"),
         \A s \in {"iop", "ee", "file"}, a \in Addr : mem'[s][a] = mem[s][a]
  PROVE  OldBeside' /\ Modes' /\ FileWhere' /\ FileData'
<1>1. /\ file = NoFile /\ call = NoCall /\ dma.src # "cache"
      /\ IF drive.pc = "idle" THEN drive = Rest ELSE drive.side = "ring"
      /\ \A s \in {"iop", "ee", "file"}, a \in Addr : mem[s][a] = Old
      /\ file' = file /\ call' = call
  BY RingOwns DEF fvars
<1>2. IF drive'.pc = "idle" THEN drive' = Rest ELSE drive'.side = "ring"
  BY <1>1
<1>3. drive'.side \in {"iop", "ee"} => drive'.from + drive'.asked <= Sectors
  BY <1>2, RestType, ReadAssumption
<1>4. OldBeside'
  BY <1>1, <1>3 DEF OldBeside
<1>5. st' # NoRing /\ st'.banks > 0
  <2>1. st.banks > 0
    BY DEF Inv, Control, Modes
  <2>. QED
    BY <2>1 DEF NoRing
<1>6. Modes'
  BY <1>1, <1>2, <1>5 DEF Modes
<1>7. FileWhere' /\ FileData'
  BY <1>1, WithoutFile
<1>. QED
  BY <1>4, <1>6, <1>7

\* A transfer from the ring that begins or ends does not touch a read.
LEMMA RingDma ==
  ASSUME ReadInv, dma.src # "cache", dma'.src # "cache", dma' \in DmaType,
         dma'.src = "none" => dma' = NoDma, UNCHANGED <<dev, mem, cache, drive, slips>>
  PROVE  ReadInv'
<1>1. Types' /\ DmaOK'
  BY DEF ReadInv, Types, DmaOK
<1>2. Slack' = Slack /\ Passed' = Passed /\ Read1' = Read1 /\ (Direct' <=> Direct)
      /\ (Skewed' <=> Skewed) /\ Source' = Source /\ ChunkSize' = ChunkSize
  BY DEF Slack, Passed, Read1, Direct, Skewed, Source, ChunkSize, Room
<1>3. Where'
  BY <1>2 DEF ReadInv, Where
<1>4. \A lo, hi : Right(lo, hi)' <=> Right(lo, hi)
  BY DEF Right, Coming
<1>5. DmaRight'
  BY DEF DmaRight
<1>6. Data'
  <2>1. Data
    BY DEF ReadInv
  <2>. HIDE DEF DmaRight, Right
  <2>. QED
    BY <1>2, <1>4, <1>5, <2>1, Zenon DEF Data
<1>. QED
  BY <1>1, <1>3, <1>6 DEF ReadInv

\* sceCdStStart forgets where the stream was, and the ring's content with it.
LEMMA StStartInv ==
  ASSUME Inv, NEW lsn \in Lsns, StStart(lsn)
  PROVE  Inv'
<1>0. /\ ReadInv /\ Modes /\ StreamWhere /\ Filling /\ StreamData
      /\ game.pc = "idle" /\ st.banks > 0
      /\ st' = [st EXCEPT !.lsn = lsn, !.off = 0, !.bank = 0]
      /\ game' = [Idle EXCEPT !.pc = "start"] /\ want' = lsn
      /\ UNCHANGED <<dev, mem, cache, drive, dma, slips, out, fvars>>
  BY DEF Inv, Control, StStart
<1>1. st # NoRing /\ st \in StType
  BY <1>0 DEF NoRing, StreamWhere
<1>2. lsn \in Nat /\ lsn <= Sectors
  BY ReadAssumption
<1>3. /\ st'.banks = st.banks /\ st'.size = st.size /\ st'.lsn = lsn /\ st'.off = 0 /\ st'.bank = 0
      /\ st' \in StType /\ game'.pc = "start" /\ game' \in GameType
  BY <1>0, <1>1, <1>2 DEF StType, Idle, GameType
<1>4. OldBeside' /\ Modes' /\ FileWhere' /\ FileData'
  BY <1>0, <1>1, <1>3, StreamKeeps
<1>5. ReadInv'
  BY <1>0, SameReadInv DEF rvars
<1>6. Ring' = Ring /\ ~Started' /\ Ring <= MaxRead
  BY <1>0, <1>1, <1>3 DEF Ring, Started, StreamWhere
<1>7. StreamWhere'
  BY <1>0, <1>1, <1>2, <1>3, <1>6 DEF StreamWhere
<1>8. Filling'
  BY <1>0, <1>1, <1>3 DEF Filling
<1>9. StreamData'
  BY <1>0, <1>3, <1>6 DEF StreamData
<1>. QED
  BY <1>4, <1>5, <1>7, <1>8, <1>9 DEF Inv, Control

\* sceCdStRead begins.
LEMMA StReadInv ==
  ASSUME Inv, NEW n \in 1 .. MaxTake, NEW mode \in {"iop", "ee"}, StRead(n, mode)
  PROVE  Inv'
<1>0. /\ ReadInv /\ Modes /\ StreamWhere /\ Filling /\ StreamData
      /\ game.pc = "idle" /\ st.lsn > 0 /\ want + n <= Sectors
      /\ game' = [pc |-> "take", left |-> n, mode |-> mode]
      /\ UNCHANGED <<dev, mem, cache, drive, dma, slips, st, want, out, fvars>>
  BY DEF Inv, Control, StRead
<1>1. st # NoRing /\ st \in StType
  BY <1>0 DEF NoRing, StreamWhere
<1>2. game'.pc = "take" /\ game'.left = n /\ game' \in GameType
  BY <1>0, StreamAssumption DEF GameType
<1>3. OldBeside' /\ Modes' /\ FileWhere' /\ FileData'
  BY <1>0, <1>1, StreamKeeps
<1>4. ReadInv'
  BY <1>0, SameReadInv DEF rvars
<1>5. Ring' = Ring /\ Bank' = Bank /\ Fresh' = Fresh /\ Base' = Base /\ Started' /\ Started
      /\ Busy' = Busy /\ \A a : Place(a)' = Place(a)
  BY <1>0, <1>2 DEF Ring, Bank, Fresh, Base, Started, Busy, Place
<1>6. StreamWhere'
  BY <1>0, <1>1, <1>2, <1>5 DEF StreamWhere
<1>7. Filling'
  BY <1>0, <1>1, <1>2, <1>5 DEF Filling
<1>8. StreamData'
  BY <1>0, <1>5 DEF StreamData
<1>. QED
  BY <1>3, <1>4, <1>6, <1>7, <1>8 DEF Inv, Control

\* sceCdSync returns.
LEMMA FilledInv ==
  ASSUME Inv, Filled
  PROVE  Inv'
<1>0. /\ ReadInv /\ Modes /\ StreamWhere /\ Filling /\ StreamData
      /\ game.pc = "sync" /\ drive.pc = "idle" /\ game' = Idle
      /\ UNCHANGED <<dev, mem, cache, drive, dma, slips, st, want, out, fvars>>
  BY DEF Inv, Control, Filled
<1>1. st # NoRing /\ st \in StType /\ game'.pc = "idle" /\ game' \in GameType /\ Started
  BY <1>0 DEF Modes, Idle, StreamWhere, GameType, Started
<1>2. st.lsn \in Nat
  BY <1>1 DEF StType
<1>3. OldBeside' /\ Modes' /\ FileWhere' /\ FileData'
  BY <1>0, <1>1, StreamKeeps
<1>4. ReadInv'
  BY <1>0, SameReadInv DEF rvars
<1>5. Ring' = Ring /\ Bank' = Bank /\ Fresh' = Fresh /\ Base' = Base
      /\ Busy' = Busy /\ \A a : Place(a)' = Place(a)
  BY <1>0, <1>1 DEF Ring, Bank, Fresh, Base, Busy, Place
<1>6. StreamWhere'
  BY <1>0, <1>1, <1>2, <1>5 DEF StreamWhere
<1>7. Filling'
  BY <1>0 DEF Filling
<1>8. StreamData'
  BY <1>0, <1>1, <1>5 DEF StreamData
<1>. QED
  BY <1>3, <1>4, <1>6, <1>7, <1>8 DEF Inv, Control

\* A DMA from the ring takes what is due.
LEMMA SentInv ==
  ASSUME Inv, Sent
  PROVE  Inv'
<1>0. /\ ReadInv /\ Types /\ Modes /\ StreamWhere /\ Filling /\ StreamData
      /\ dma.src = "ring"
      /\ out' = [due |-> dma.to, came |-> [i \in 1 .. dma.n |-> mem.ring[dma.from + i - 1]]]
      /\ dma' = NoDma
      /\ UNCHANGED <<dev, mem, cache, drive, slips, st, game, want, fvars>>
  BY DEF Inv, ReadInv, Control, Sent
<1>1. st # NoRing
  BY <1>0 DEF Modes
<1>2. dma' \in DmaType /\ dma'.src = "none" /\ dma.from \in Nat /\ dma.n \in Nat /\ dma.to \in Nat
  BY <1>0, RestType DEF Types, DmaType
<1>3. OldBeside' /\ Modes' /\ FileWhere' /\ FileData'
  BY <1>0, <1>1, StreamKeeps
<1>4. ReadInv'
  BY <1>0, <1>2, RingDma
<1>5. Ring' = Ring /\ Bank' = Bank /\ Fresh' = Fresh /\ Base' = Base /\ (Started' <=> Started)
      /\ Busy' = Busy /\ \A a : Place(a)' = Place(a)
  BY <1>0 DEF Ring, Bank, Fresh, Base, Started, Busy, Place
<1>6. StreamWhere' /\ Filling'
  BY <1>0, <1>2, <1>5 DEF StreamWhere, Filling
<1>7. StreamData'
  <2>1. ASSUME slips = {}, st.banks # 2, NEW i \in DOMAIN out'.came
        PROVE  out'.came[i] = out'.due + i - 1
    <3>1. i \in 1 .. dma.n /\ out'.came[i] = mem.ring[dma.from + i - 1] /\ out'.due = dma.to
      BY <1>0, <2>1
    <3>2. i - 1 \in 0 .. dma.n - 1 /\ dma.from + i - 1 = dma.from + (i - 1)
          /\ dma.to + i - 1 = dma.to + (i - 1)
      BY <3>1, <1>2
    <3>3. mem.ring[dma.from + (i - 1)] = dma.to + (i - 1)
      BY <3>2, <2>1, <1>0 DEF StreamData
    <3>. QED
      BY <3>1, <3>2, <3>3
  <2>. QED
    BY <2>1, <1>0, <1>2, <1>5 DEF StreamData
<1>. QED
  BY <1>3, <1>4, <1>6, <1>7 DEF Inv, Control

\* The whole ring is filled from the sector on that the game asked for.
LEMMA FillInv ==
  ASSUME Inv, Fill
  PROVE  Inv'
<1>0. /\ ReadInv /\ Types /\ DmaOK /\ Modes /\ StreamWhere /\ Filling /\ StreamData
      /\ game.pc = "start" /\ drive.pc = "idle"
      /\ drive' = IF st.lsn > Sectors THEN drive
                  ELSE Command("ring", 0 * st.size * Unit, st.lsn, st.banks * st.size)
      /\ mem' = IF dma = NoDma THEN [mem EXCEPT !.ring = [a \in Addr |-> Old]] ELSE mem
      /\ st' = [st EXCEPT !.lsn = @ + st.banks * st.size]
      /\ game' = [game EXCEPT !.pc = "sync"] /\ slips' = (IF dma = NoDma THEN {} ELSE slips) /\ out' = Nothing
      /\ UNCHANGED <<dev, cache, dma, want, fvars>>
  BY DEF Inv, ReadInv, Control, Fill, Order
<1>1. st # NoRing /\ st \in StType /\ game \in GameType
  BY <1>0 DEF Modes, Idle, StreamWhere
<1>2. /\ st.size \in Nat /\ st.lsn \in Nat /\ want \in Nat /\ st.lsn <= Sectors /\ want = st.lsn
      /\ Ring \in Nat /\ Ring > 0 /\ Ring <= MaxRead /\ MaxRead \in Nat /\ Sectors \in Nat
      /\ st.off = 0 /\ st.bank = 0
  BY <1>0, <1>1, RingNumbers, ReadAssumption DEF StreamWhere
<1>3. 0 * st.size * Unit = 0
  BY <1>2 DEF Unit
<1>4. drive' = Command("ring", 0, st.lsn, Ring)
  BY <1>0, <1>2, <1>3 DEF Ring
<1>5. dma.src # "cache"
  BY <1>1, RingOwns
<1>6. Told("ring", 0, st.lsn, Ring)
  <2>1. mem' \in [Side -> [Addr -> Int]]
    <3>1. mem \in [Side -> [Addr -> Int]] /\ [a \in Addr |-> Old] \in [Addr -> Int]
      BY <1>0 DEF Types, Old
    <3>. QED
      BY <1>0, <3>1
  <2>2. cache' \in [0 .. Unit * Cache - 1 -> Int] /\ slips' \in {slips, {}}
    BY <1>0 DEF Types
  <2>3. 0 + Unit * Ring <= Unit * MaxRead + 2 * Line /\ 0 \in Nat /\ "ring" \in Side
    BY <1>2 DEF Unit, Line, Side
  <2>. QED
    BY <1>0, <1>2, <1>4, <2>1, <2>2, <2>3 DEF Told
<1>7. /\ ReadInv' /\ drive'.pc = "chunk" /\ drive'.side = "ring" /\ drive'.dest = 0
      /\ drive'.asked = Ring /\ drive'.from = st.lsn /\ drive'.mis = 0
  <2>1. 0 % Line = 0
    BY DEF Line
  <2>. QED
    BY <1>0, <1>5, <1>6, <2>1, CommandStep
<1>8. /\ st'.banks = st.banks /\ st'.size = st.size /\ st'.lsn = st.lsn + Ring /\ st'.off = 0
      /\ st'.bank = 0 /\ st' \in StType
  BY <1>0, <1>1, <1>2 DEF StType, Ring
<1>9. game'.pc = "sync" /\ game' \in GameType
  BY <1>0, <1>1 DEF GameType
<1>10. OldBeside' /\ Modes' /\ FileWhere' /\ FileData'
  <2>1. \A s \in {"iop", "ee", "file"}, a \in Addr : mem'[s][a] = mem[s][a]
    <3>1. mem \in [Side -> [Addr -> Int]]
      BY <1>0 DEF Types
    <3>2. mem' = mem \/ mem' = [mem EXCEPT !.ring = [a \in Addr |-> Old]]
      BY <1>0
    <3>. QED
      BY <3>1, <3>2 DEF Side
  <2>. QED
    BY <1>0, <1>1, <1>7, <1>8, <2>1, StreamKeeps
<1>11. Ring' = Ring
  BY <1>8 DEF Ring
<1>12. StreamWhere'
  <2>1. Fresh' = 0 /\ Base' = want
    <3>1. Bank' = 0
      BY <1>2, <1>8 DEF Bank
    <3>. QED
      BY <3>1, <1>0, <1>2, <1>8 DEF Fresh, Base
  <2>2. st.size > 0 /\ st.banks > 0
    BY <1>0, <1>1 DEF StreamWhere, Modes
  <2>3. dma'.src = "ring" => dma'.from + dma'.n <= Unit * Ring'
    BY <1>0, <1>11 DEF StreamWhere
  <2>4. want' = want
    BY <1>0
  <2>5. /\ Base' >= 0 /\ st'.lsn = Base' + Ring' + Fresh' /\ st'.off < st'.size
        /\ st'.bank < st'.banks /\ want' \in Nat
    BY <1>2, <1>8, <1>11, <2>1, <2>2, <2>4
  <2>. QED
    BY <1>2, <1>8, <1>9, <1>11, <2>2, <2>3, <2>5 DEF StreamWhere
<1>13. Filling'
  BY <1>0, <1>2, <1>7, <1>9, <1>11 DEF Filling
<1>14. StreamData'
  <2>1. \A a \in 0 .. Unit * Ring' - 1 : a \in Busy'
    BY <1>2, <1>7, <1>11 DEF Busy, Unit
  <2>2. dma'.src = "ring" => dma' = dma /\ mem' = mem /\ slips' = slips
    BY <1>0, RestType
  <2>3. ASSUME slips' = {}, st'.banks # 2, dma'.src = "ring", NEW u \in 0 .. dma'.n - 1
        PROVE  mem'.ring[dma'.from + u] = dma'.to + u
    BY <2>2, <2>3, <1>0, <1>8 DEF StreamData
  <2>4. DOMAIN out'.came = {}
    BY <1>0 DEF Nothing
  <2>. QED
    BY <2>1, <2>3, <2>4 DEF StreamData
<1>. QED
  BY <1>7, <1>10, <1>12, <1>13, <1>14 DEF Inv, Control

\* What is taken is where the stream is, and the drive does not fill it at that time.
LEMMA TakenPlace ==
  ASSUME Types, Modes, StreamWhere, Filling, game.pc = "take", st # NoRing, st.banks # 2,
         st.banks < 2 => drive.pc = "idle", NEW j \in 0 .. Taken * Unit - 1
  PROVE  /\ From + j \in 0 .. Unit * Ring - 1 /\ From + j \notin Busy
         /\ Place(From + j) = want * Unit + j /\ Place(From + j) < Unit * Sectors
<1>1. /\ st.size \in Nat /\ st.size > 0 /\ st.banks \in Nat /\ st.bank \in Nat /\ st.off \in Nat
      /\ want \in Nat /\ Ring \in Nat /\ Bank \in Nat /\ Fresh \in Nat
      /\ Bank + st.size <= Ring
      /\ Fresh = IF st.bank % 2 = 1 THEN Bank - st.size ELSE Bank
      /\ st.bank = 0 => Bank = 0
      /\ st.bank = 1 => Bank = st.size
      /\ st.bank > 1 => Bank >= 2 * st.size
      /\ st.banks > 2 => Ring >= 3 * st.size
      /\ st.banks > 3 => Ring >= 4 * st.size
      /\ Base \in Int /\ Base = want - (Bank + st.off)
  BY RingNumbers
<1>2. /\ game.left \in Nat /\ want + game.left <= Sectors /\ st.off < st.size /\ st.bank < st.banks
  <2>1. game \in GameType /\ want + game.left <= Sectors /\ Started
    BY DEF StreamWhere, Started
  <2>. QED
    BY <2>1 DEF GameType, StreamWhere
<1>3. Taken \in Nat /\ Taken <= game.left /\ Taken <= st.size - st.off
  BY <1>1, <1>2 DEF Taken, Least
<1>4. From = 4 * (Bank + st.off) /\ j \in Nat /\ j < 4 * Taken
  <2>1. From = (Bank + st.off) * 4
    BY DEF From, Bank, Unit
  <2>. QED
    BY <2>1, <1>1, <1>3 DEF Unit
<1>5. From + j >= 4 * Bank /\ From + j < 4 * (Bank + st.size) /\ From + j >= 4 * Fresh
  BY <1>1, <1>3, <1>4
<1>6. From + j \in 0 .. Unit * Ring - 1
  BY <1>1, <1>4, <1>5 DEF Unit
<1>7. Place(From + j) = want * Unit + j
  BY <1>1, <1>4, <1>5 DEF Place, Unit
<1>8. want * Unit + j < Unit * Sectors
  BY <1>1, <1>2, <1>3, <1>4, ReadAssumption DEF Unit
<1>9. From + j \notin Busy
  <2>1. CASE drive.pc = "idle"
    BY <2>1 DEF Busy
  <2>2. CASE drive.pc # "idle"
    <3>. DEFINE n == IF Fresh = 0 /\ st.banks % 2 = 1 THEN st.size ELSE 2 * st.size
                from == (IF Fresh = 0 THEN Ring ELSE Fresh) - n
    <3>1. drive.dest = Unit * from /\ drive.asked = n
      BY <2>2 DEF Filling
    <3>2. st.banks > 2
      BY <2>2, <1>1
    <3>3. n \in Nat /\ from = (IF Fresh = 0 THEN Ring ELSE Fresh) - n /\ from \in Int
      BY <1>1
    <3>4. Fresh # 0 => from + n <= Bank
      BY <1>1, <3>3
    <3>5. Fresh = 0 => Bank + st.size <= from
      <4>1. CASE st.banks % 2 = 1
        <5>1. Fresh = 0 => st.bank <= 1 /\ n = st.size
          BY <1>1, <4>1
        <5>. HIDE DEF n, from
        <5>. QED
          BY <5>1, <1>1, <3>2, <3>3
      <4>2. CASE st.banks % 2 # 1
        <5>1. Fresh = 0 => st.bank <= 1 /\ n = 2 * st.size
          BY <1>1, <4>2
        <5>2. st.banks > 3
          BY <1>1, <3>2, <4>2
        <5>. HIDE DEF n, from
        <5>. QED
          BY <5>1, <5>2, <1>1, <3>2, <3>3
      <4>. QED
        BY <4>1, <4>2
    <3>6. Busy = 4 * from .. 4 * from + 4 * n - 1
      BY <2>2, <3>1 DEF Busy, Unit
    <3>. HIDE DEF n, from
    <3>. DEFINE x == From + j
    <3>7. x \in Nat /\ x >= 4 * Bank /\ x < 4 * (Bank + st.size)
      BY <1>1, <1>4, <1>5
    <3>. HIDE DEF x
    <3>8. x < 4 * from \/ x >= 4 * (from + n)
      <4>1. CASE Fresh = 0
        BY <4>1, <1>1, <3>3, <3>5, <3>7
      <4>2. CASE Fresh # 0
        BY <4>2, <1>1, <3>3, <3>4, <3>7
      <4>. QED
        BY <4>1, <4>2
    <3>9. x \notin Busy
      BY <3>3, <3>6, <3>7, <3>8
    <3>. QED
      BY <3>9 DEF x
  <2>. QED
    BY <2>1, <2>2
<1>. QED
  BY <1>6, <1>7, <1>8, <1>9

\* sceCdStRead takes from a bank what is due.
LEMMA TakeInv ==
  ASSUME Inv, Take
  PROVE  Inv'
<1>0. /\ ReadInv /\ Types /\ Modes /\ StreamWhere /\ Filling /\ StreamData
      /\ game.pc = "take"
      /\ st.banks < 2 => drive.pc = "idle"
      /\ st' = [st EXCEPT !.off = @ + Taken] /\ want' = want + Taken
      /\ game' = IF st.off + Taken >= st.size THEN [game EXCEPT !.pc = "refill", !.left = @ - Taken]
                 ELSE IF game.left = Taken THEN Idle ELSE [game EXCEPT !.left = @ - Taken]
      /\ UNCHANGED <<dev, mem, cache, drive, slips, fvars>>
  BY DEF Inv, ReadInv, Control, Take
<1>1. IF game.mode = "ee" THEN
        dma' = [src |-> "ring", from |-> From, to |-> want * Unit, n |-> Taken * Unit] /\ UNCHANGED out
      ELSE
        out' = [due |-> want * Unit, came |-> [i \in 1 .. Taken * Unit |-> mem.ring[From + i - 1]]]
             /\ UNCHANGED dma
  BY DEF Take
<1>2. st # NoRing /\ st \in StType /\ game \in GameType /\ Started
  BY <1>0 DEF Modes, Idle, StreamWhere, Started
<1>3. /\ st.size \in Nat /\ st.size > 0 /\ st.off \in Nat /\ st.lsn \in Nat /\ want \in Nat
      /\ Ring \in Nat /\ Ring > 0 /\ Ring <= MaxRead /\ Bank \in Nat /\ Fresh \in Nat /\ Base \in Int
      /\ Bank + st.size <= Ring /\ Base = want - (Bank + st.off)
  BY <1>0, <1>2, RingNumbers
<1>4. /\ game.left \in Nat /\ want + game.left <= Sectors /\ st.off < st.size
      /\ Base >= 0 /\ st.lsn = Base + Ring + Fresh /\ st.bank < st.banks
      /\ game.mode \in {"iop", "ee"}
  BY <1>0, <1>2 DEF StreamWhere, GameType
<1>5. Taken \in Nat /\ Taken <= game.left /\ Taken <= st.size - st.off
      /\ (Taken = game.left \/ Taken = st.size - st.off)
  BY <1>3, <1>4 DEF Taken, Least
<1>6. /\ st'.banks = st.banks /\ st'.size = st.size /\ st'.lsn = st.lsn /\ st'.bank = st.bank
      /\ st'.off = st.off + Taken /\ st' \in StType
  BY <1>0, <1>2, <1>3, <1>5 DEF StType
<1>7. /\ game' \in GameType /\ game'.pc \in {"idle", "take", "refill"}
      /\ game'.pc = "refill" <=> st.off + Taken >= st.size
      /\ game'.pc # "idle" => game'.left = game.left - Taken
  <2>1. game.left - Taken \in Nat
    BY <1>4, <1>5
  <2>2. CASE st.off + Taken >= st.size
    <3>1. game' = [game EXCEPT !.pc = "refill", !.left = game.left - Taken]
      BY <1>0, <2>2
    <3>. QED
      BY <1>2, <2>1, <2>2, <3>1 DEF GameType
  <2>3. CASE ~(st.off + Taken >= st.size) /\ game.left = Taken
    <3>1. game' = Idle
      BY <1>0, <2>3
    <3>. QED
      BY <2>3, <3>1 DEF GameType, Idle
  <2>4. CASE ~(st.off + Taken >= st.size) /\ game.left # Taken
    <3>1. game' = [game EXCEPT !.left = game.left - Taken]
      BY <1>0, <2>4
    <3>. QED
      BY <1>0, <1>2, <2>1, <2>4, <3>1 DEF GameType
  <2>. QED
    BY <2>2, <2>3, <2>4
<1>8. Ring' = Ring /\ Bank' = Bank /\ Fresh' = Fresh /\ Base' = Base /\ Busy' = Busy
      /\ \A a : Place(a)' = Place(a)
  <2>1. Ring' = Ring /\ Bank' = Bank
    BY <1>6 DEF Ring, Bank
  <2>2. Fresh' = Fresh
    BY <1>6, <2>1 DEF Fresh
  <2>3. Base' = (want + Taken) - (Bank + (st.off + Taken))
    BY <1>0, <1>6, <2>1 DEF Base
  <2>4. Base' = Base
    BY <2>3, <1>3, <1>5
  <2>5. Busy' = Busy
    BY <1>0 DEF Busy
  <2>. QED
    BY <2>1, <2>2, <2>4, <2>5 DEF Place
<1>9. dma.src # "cache" /\ dma \in DmaType
  BY <1>0, <1>2, RingOwns DEF Types
<1>10. From \in Nat /\ From + Taken * Unit <= Unit * Ring /\ Taken * Unit \in Nat /\ want * Unit \in Nat
  <2>1. From = (Bank + st.off) * 4
    BY DEF From, Bank, Unit
  <2>. QED
    BY <2>1, <1>3, <1>5 DEF Unit
<1>11. dma' \in DmaType /\ dma'.src # "cache" /\ (dma'.src = "none" => dma' = NoDma)
       /\ (dma'.src = "ring" => dma'.from + dma'.n <= Unit * Ring)
  <2>1. CASE game.mode = "ee"
    BY <1>1, <1>10, <2>1 DEF DmaType
  <2>2. CASE game.mode # "ee"
    BY <1>0, <1>1, <1>9, <2>2 DEF ReadInv, DmaOK, StreamWhere
  <2>. QED
    BY <2>1, <2>2
<1>12. ReadInv'
  BY <1>0, <1>9, <1>11, RingDma
<1>13. OldBeside' /\ Modes' /\ FileWhere' /\ FileData'
  BY <1>0, <1>2, <1>6, StreamKeeps
<1>14. StreamWhere'
  <2>1. want' \in Nat /\ (game'.pc \in {"take", "refill"} => want' + game'.left <= Sectors)
    BY <1>0, <1>3, <1>4, <1>5, <1>7, ReadAssumption
  <2>2. IF game'.pc = "refill" THEN st'.off = st'.size ELSE st'.off < st'.size
    BY <1>3, <1>4, <1>5, <1>6, <1>7
  <2>3. game'.pc # "start" /\ game'.pc # "sync"
    BY <1>7
  <2>4. st'.size > 0 /\ Ring' <= MaxRead /\ st'.bank < st'.banks
    BY <1>3, <1>4, <1>6, <1>8
  <2>5. Base' >= 0 /\ st'.lsn = Base' + Ring' + Fresh'
    BY <1>4, <1>6, <1>8
  <2>6. dma'.src = "ring" => dma'.from + dma'.n <= Unit * Ring'
    BY <1>8, <1>11
  <2>. QED
    BY <1>6, <1>7, <2>1, <2>2, <2>3, <2>4, <2>5, <2>6, Zenon DEF StreamWhere
<1>15. Filling'
  <2>1. st'.lsn > 0
    BY <1>3, <1>4, <1>6
  <2>2. game'.pc # "sync"
    BY <1>7
  <2>3. game.pc \in {"idle", "take", "refill"}
    BY <1>0
  <2>4. /\ drive' = drive /\ st'.size = st.size /\ st'.banks = st.banks
        /\ Ring' = Ring /\ Fresh' = Fresh /\ Base' = Base
    BY <1>0, <1>6, <1>8
  <2>5. Filling /\ st # NoRing
    BY <1>0, <1>2
  <2>. QED
    BY <2>1, <2>2, <2>3, <2>4, <2>5, Zenon DEF Filling
<1>16. StreamData'
  <2>1. ASSUME slips = {}, st.banks # 2, NEW j \in 0 .. Taken * Unit - 1
        PROVE  mem.ring[From + j] = want * Unit + j
    <3>1. /\ From + j \in 0 .. Unit * Ring - 1 /\ From + j \notin Busy
          /\ Place(From + j) = want * Unit + j /\ Place(From + j) < Unit * Sectors
      BY <1>0, <1>2, <2>1, TakenPlace
    <3>. HIDE DEF Place
    <3>. QED
      BY <3>1, <1>0, <1>2, <2>1 DEF StreamData
  <2>2. ASSUME slips = {}, st.banks # 2, NEW a \in 0 .. Unit * Ring - 1, a \notin Busy,
               Place(a) < Unit * Sectors
        PROVE  mem.ring[a] = Place(a)
    BY <1>0, <1>2, <2>2 DEF StreamData
  <2>3. ASSUME slips = {}, st.banks # 2, dma'.src = "ring", NEW u \in 0 .. dma'.n - 1
        PROVE  mem.ring[dma'.from + u] = dma'.to + u
    <3>1. CASE game.mode = "ee"
      <4>1. dma'.from = From /\ dma'.to = want * Unit /\ dma'.n = Taken * Unit
        BY <1>1, <3>1
      <4>. QED
        BY <2>1, <2>3, <4>1
    <3>2. CASE game.mode # "ee"
      <4>1. dma' = dma
        BY <1>1, <3>2
      <4>. QED
        BY <4>1, <2>3, <1>0 DEF StreamData
    <3>. QED
      BY <3>1, <3>2
  <2>4. ASSUME slips = {}, st.banks # 2, NEW i \in DOMAIN out'.came
        PROVE  out'.came[i] = out'.due + i - 1
    <3>1. CASE game.mode # "ee"
      <4>0. out' = [due |-> want * Unit, came |-> [k \in 1 .. Taken * Unit |-> mem.ring[From + k - 1]]]
        BY <1>1, <3>1
      <4>1. i \in 1 .. Taken * Unit /\ out'.came[i] = mem.ring[From + i - 1] /\ out'.due = want * Unit
        <5>1. out'.came = [k \in 1 .. Taken * Unit |-> mem.ring[From + k - 1]] /\ out'.due = want * Unit
          BY <4>0
        <5>. QED
          BY <5>1, <2>4
      <4>2. i - 1 \in 0 .. Taken * Unit - 1 /\ From + i - 1 = From + (i - 1)
            /\ want * Unit + i - 1 = want * Unit + (i - 1)
        BY <4>1, <1>10
      <4>3. mem.ring[From + (i - 1)] = want * Unit + (i - 1)
        BY <4>2, <2>1, <2>4
      <4>. QED
        BY <4>1, <4>2, <4>3
    <3>2. CASE game.mode = "ee"
      BY <1>0, <1>1, <2>4, <3>2 DEF StreamData
    <3>. QED
      BY <3>1, <3>2
  <2>5. slips' = slips /\ mem' = mem /\ st'.banks = st.banks
    BY <1>0, <1>6
  <2>. HIDE DEF Place
  <2>. QED
    BY <2>2, <2>3, <2>4, <2>5, <1>8, Zenon DEF StreamData
<1>. QED
  BY <1>12, <1>13, <1>14, <1>15, <1>16 DEF Inv, Control

\* The places of neighbouring banks, and which of the two is odd.
LEMMA Neighbours ==
  ASSUME NEW k \in Nat, NEW s \in Nat
  PROVE  /\ (k + 1) * s = k * s + s /\ (k - 1) * s = k * s - s
         /\ (k + 1) % 2 = 1 <=> k % 2 # 1
<1>1. (k + 1) * s = k * s + s
  OBVIOUS
<1>2. (k - 1) * s = k * s - s
  OBVIOUS
<1>3. (k + 1) % 2 = 1 <=> k % 2 # 1
  OBVIOUS
<1>. QED
  BY <1>1, <1>2, <1>3

\* What a refill does to the ring's state.
Filled1 == BanksToFill * st.size     \* sectors
Wraps == st.bank + 1 >= st.banks
Refilled == st' = [st EXCEPT !.lsn = @ + BanksToFill * st.size, !.off = 0,
                             !.bank = IF @ + 1 >= st.banks THEN 0 ELSE @ + 1]

\* Behind what is fresh come the banks that are filled, and when the last bank has been emptied
\* the ring begins with what the first one was filled with.
LEMMA RefillNumbers ==
  ASSUME StreamWhere, st # NoRing, game.pc = "refill", want' = want, Refilled
  PROVE  /\ BanksToFill \in 0 .. 2 /\ Filled1 \in Nat
         /\ BanksToFill > 0 => /\ (st.bank - (BanksToFill - 1)) * st.size = Fresh
                               /\ Filled1 = IF Wraps /\ st.banks % 2 = 1 THEN st.size ELSE 2 * st.size
                               /\ Fresh + Filled1 = Bank + st.size
         /\ BanksToFill = 0 => Filled1 = 0 /\ ~Wraps
         /\ st' \in StType /\ st'.banks = st.banks /\ st'.size = st.size /\ st'.off = 0
         /\ st'.lsn = st.lsn + Filled1 /\ st'.bank < st'.banks
         /\ Ring' = Ring
         /\ Wraps => Base' = Base + Ring /\ Fresh' = 0 /\ Fresh + Filled1 = Ring
         /\ ~Wraps => Base' = Base /\ Fresh' = Fresh + Filled1
<1>. DEFINE S == st.size
            b == st.bank
            n == BanksToFill
<1>1. /\ S \in Nat /\ S > 0 /\ st.banks \in Nat /\ b \in Nat /\ st.off \in Nat /\ st.lsn \in Nat
      /\ want \in Nat /\ Ring \in Nat /\ Bank \in Nat /\ Fresh \in Nat
      /\ Fresh = IF b % 2 = 1 THEN Bank - S ELSE Bank
      /\ b + 1 = st.banks => Bank + S = Ring
      /\ Base = want - (Bank + st.off)
  BY RingNumbers
<1>2. st \in StType /\ b < st.banks /\ st.off = S
  <2>1. Started
    BY DEF Started
  <2>. QED
    BY <2>1 DEF StreamWhere
<1>3. /\ n \in 0 .. 2
      /\ n = IF b % 2 = 1 THEN 2 ELSE IF st.banks - b = 1 THEN 1 ELSE 0
  <2>1. n = IF b % 2 = 1 THEN 2 ELSE IF st.banks - b = 1 THEN 1 ELSE 0
    BY DEF BanksToFill
  <2>. HIDE DEF n
  <2>. QED
    BY <2>1
<1>4. Wraps <=> b + 1 = st.banks
  BY <1>1, <1>2 DEF Wraps
<1>. DEFINE k == n * S
            nb == IF b + 1 >= st.banks THEN 0 ELSE b + 1
<1>5. k \in Nat /\ (n = 0 => k = 0) /\ (n = 1 => k = S) /\ (n = 2 => k = 2 * S)
  <2>. HIDE DEF n, S
  <2>. QED
    BY <1>1, <1>3
<1>6. nb \in Nat /\ nb < st.banks /\ (Wraps => nb = 0) /\ (~Wraps => nb = b + 1)
  BY <1>1, <1>2, <1>4
<1>7. st' = [st EXCEPT !.lsn = st.lsn + k, !.off = 0, !.bank = nb]
  BY DEF Refilled
<1>. HIDE DEF nb, k, n
<1>8. /\ st' \in StType /\ st'.banks = st.banks /\ st'.size = S /\ st'.off = 0
      /\ st'.lsn = st.lsn + k /\ st'.bank = nb
  <2>1. st.lsn + k \in Nat /\ nb \in Nat /\ st \in StType
    BY <1>1, <1>2, <1>5, <1>6
  <2>. QED
    BY <2>1, <1>7 DEF StType
<1>9. Ring' = Ring
  BY <1>8 DEF Ring
<1>10. n > 0 => (b - (n - 1)) * S = Fresh
  <2>1. CASE b % 2 = 1
    <3>1. n = 2 /\ (b - 1) * S = b * S - S /\ Bank = b * S /\ b - (n - 1) = b - 1
      BY <2>1, <1>1, <1>3, Neighbours DEF Bank
    <3>. QED
      BY <2>1, <3>1, <1>1
  <2>2. CASE b % 2 # 1 /\ st.banks - b = 1
    <3>1. n = 1 /\ Bank = b * S /\ b - (n - 1) = b
      BY <2>2, <1>1, <1>3 DEF Bank
    <3>. QED
      BY <2>2, <3>1, <1>1
  <2>. QED
    BY <2>1, <2>2, <1>3
<1>11. n > 0 => /\ k = IF Wraps /\ st.banks % 2 = 1 THEN S ELSE 2 * S
                /\ Fresh + k = Bank + S
  <2>. HIDE DEF S, b
  <2>1. CASE b % 2 = 1
    <3>1. ~(Wraps /\ st.banks % 2 = 1)
      BY <2>1, <1>1, <1>4, Neighbours
    <3>. QED
      BY <2>1, <3>1, <1>1, <1>3, <1>5
  <2>2. CASE b % 2 # 1 /\ st.banks - b = 1
    <3>1. Wraps /\ st.banks % 2 = 1
      <4>1. st.banks = b + 1
        BY <2>2, <1>1
      <4>. QED
        BY <2>2, <4>1, <1>1, <1>4, Neighbours
    <3>. QED
      BY <2>2, <3>1, <1>1, <1>3, <1>5
  <2>. QED
    BY <2>1, <2>2, <1>3
<1>12. n = 0 => ~Wraps /\ b % 2 # 1
  BY <1>1, <1>3, <1>4
<1>13. CASE Wraps
  <2>1. n > 0 /\ Bank + S = Ring /\ Fresh + k = Ring
    BY <1>1, <1>3, <1>4, <1>11, <1>12, <1>13
  <2>2. Bank' = 0 /\ Fresh' = 0
    <3>1. st'.bank = 0
      BY <1>6, <1>8, <1>13
    <3>2. Bank' = 0
      BY <3>1, <1>1, <1>8 DEF Bank
    <3>. QED
      BY <3>1, <3>2 DEF Fresh
  <2>3. Base' = want - (0 + 0)
    BY <2>2, <1>8 DEF Base
  <2>4. Base' = Base + Ring
    BY <2>1, <2>3, <1>1, <1>2
  <2>. QED
    BY <2>1, <2>2, <2>4, <1>3, <1>5, <1>6, <1>8, <1>9, <1>10, <1>11, <1>13 DEF Filled1, k, n
<1>14. CASE ~Wraps
  <2>1. st'.bank = b + 1
    BY <1>6, <1>8, <1>14
  <2>2. Bank' = Bank + S
    <3>1. Bank' = (b + 1) * S /\ Bank = b * S
      BY <2>1, <1>8 DEF Bank
    <3>. QED
      BY <3>1, <1>1, Neighbours
  <2>3. Base' = want - ((Bank + S) + 0)
    BY <2>2, <1>8 DEF Base
  <2>4. Base' = Base
    BY <2>3, <1>1, <1>2
  <2>5. Fresh' = Fresh + k
    <3>. HIDE DEF S, b
    <3>0. Fresh' = IF (b + 1) % 2 = 1 THEN (Bank + S) - S ELSE Bank + S
      BY <2>1, <2>2, <1>8 DEF Fresh
    <3>1. CASE b % 2 = 1
      <4>1. (b + 1) % 2 # 1 /\ n > 0
        BY <3>1, <1>1, <1>3, Neighbours
      <4>. QED
        BY <4>1, <3>0, <1>11
    <3>2. CASE b % 2 # 1
      <4>1. (b + 1) % 2 = 1 /\ n = 0
        BY <3>2, <1>1, <1>3, <1>4, <1>14, Neighbours
      <4>. QED
        BY <4>1, <3>0, <3>2, <1>1, <1>5
    <3>. QED
      BY <3>1, <3>2
  <2>. QED
    BY <2>4, <2>5, <1>3, <1>5, <1>6, <1>8, <1>9, <1>10, <1>11, <1>12, <1>14 DEF Filled1, k, n
<1>. QED
  BY <1>13, <1>14

\* The banks that were emptied are filled with what comes behind the ring.
LEMMA RefillInv ==
  ASSUME Inv, Refill
  PROVE  Inv'
<1>. DEFINE n == BanksToFill
<1>0. /\ ReadInv /\ Types /\ DmaOK /\ Modes /\ StreamWhere /\ Filling /\ StreamData
      /\ game.pc = "refill"
      /\ IF n > 0 THEN Order(st.bank - (n - 1), n * st.size) ELSE UNCHANGED drive
      /\ st' = [st EXCEPT !.lsn = @ + n * st.size, !.off = 0,
                          !.bank = IF @ + 1 >= st.banks THEN 0 ELSE @ + 1]
      /\ game' = IF game.left = 0 THEN Idle ELSE [game EXCEPT !.pc = "take"]
      /\ UNCHANGED <<dev, mem, cache, dma, slips, want, out, fvars>>
  BY DEF Inv, ReadInv, Control, Refill
<1>1. st # NoRing /\ st \in StType /\ game \in GameType /\ Started
  BY <1>0 DEF Modes, Idle, StreamWhere, Started
<1>2. /\ st.size \in Nat /\ st.size > 0 /\ st.lsn \in Nat /\ want \in Nat
      /\ Ring \in Nat /\ Ring > 0 /\ Ring <= MaxRead /\ Bank \in Nat /\ Fresh \in Nat /\ Base \in Int
      /\ Bank + st.size <= Ring
  BY <1>0, <1>1, RingNumbers
<1>3. /\ game.left \in Nat /\ want + game.left <= Sectors /\ Base >= 0
      /\ st.lsn = Base + Ring + Fresh /\ MaxRead \in Nat /\ Sectors \in Nat
  BY <1>0, <1>1, ReadAssumption DEF StreamWhere, GameType
<1>4. /\ n \in 0 .. 2 /\ Filled1 \in Nat
      /\ n > 0 => /\ (st.bank - (n - 1)) * st.size = Fresh
                  /\ Filled1 = IF Wraps /\ st.banks % 2 = 1 THEN st.size ELSE 2 * st.size
                  /\ Fresh + Filled1 = Bank + st.size
      /\ n = 0 => Filled1 = 0 /\ ~Wraps
      /\ st' \in StType /\ st'.banks = st.banks /\ st'.size = st.size /\ st'.off = 0
      /\ st'.lsn = st.lsn + Filled1 /\ st'.bank < st'.banks
      /\ Ring' = Ring
      /\ Wraps => Base' = Base + Ring /\ Fresh' = 0 /\ Fresh + Filled1 = Ring
      /\ ~Wraps => Base' = Base /\ Fresh' = Fresh + Filled1
  <2>1. Refilled /\ want' = want
    BY <1>0 DEF Refilled
  <2>. QED
    BY <1>0, <1>1, <2>1, RefillNumbers
<1>5. /\ game' \in GameType /\ game'.pc \in {"idle", "take"}
      /\ game'.pc = "take" => game'.left = game.left
  BY <1>0, <1>1 DEF Idle, GameType
<1>6. n > 0 => /\ drive.pc = "idle"
               /\ drive' = IF st.lsn > Sectors THEN drive
                           ELSE Command("ring", Fresh * Unit, st.lsn, Filled1)
  <2>1. n > 0 => /\ drive.pc = "idle"
                 /\ drive' = IF st.lsn > Sectors THEN drive
                             ELSE Command("ring", ((st.bank - (n - 1)) * st.size) * Unit, st.lsn, n * st.size)
    BY <1>0 DEF Order
  <2>. QED
    BY <2>1, <1>4 DEF Filled1
<1>7. dma.src # "cache" /\ UNCHANGED <<dev, mem, cache, dma, slips>>
  BY <1>0, <1>1, RingOwns
<1>8. CASE n > 0 /\ st.lsn <= Sectors
  <2>1. drive' = Command("ring", Fresh * Unit, st.lsn, Filled1)
    BY <1>2, <1>3, <1>6, <1>8
  <2>2. Told("ring", Fresh * Unit, st.lsn, Filled1)
    <3>1. Filled1 > 0 /\ Fresh * Unit \in Nat /\ Fresh * Unit + Unit * Filled1 <= Unit * MaxRead + 2 * Line
      BY <1>2, <1>3, <1>4, <1>8 DEF Unit, Line
    <3>2. mem' \in [Side -> [Addr -> Int]] /\ cache' \in [0 .. Unit * Cache - 1 -> Int]
      BY <1>0, <1>7 DEF Types
    <3>. QED
      BY <1>2, <1>4, <1>7, <2>1, <3>1, <3>2 DEF Told, Side
  <2>3. (Fresh * Unit) % Line = 0
    BY <1>2 DEF Unit, Line
  <2>4. /\ ReadInv' /\ drive'.pc = "chunk" /\ drive'.side = "ring" /\ drive'.dest = Unit * Fresh
        /\ drive'.asked = Filled1 /\ drive'.from = st.lsn /\ drive'.mis = 0
    <3>1. Fresh * Unit = Unit * Fresh
      BY <1>2 DEF Unit
    <3>. QED
      BY <1>0, <1>7, <2>2, <2>3, <3>1, CommandStep
  <2>. QED
    <3>1. OldBeside' /\ Modes' /\ FileWhere' /\ FileData'
      BY <1>0, <1>1, <1>4, <2>4, StreamKeeps
    <3>2. Base' >= 0 /\ st'.lsn = Base' + Ring' + Fresh' /\ st'.lsn > 0
      BY <1>2, <1>3, <1>4
    <3>3. StreamWhere'
      <4>1. dma'.src = "ring" => dma'.from + dma'.n <= Unit * Ring'
        BY <1>0, <1>4 DEF StreamWhere
      <4>2. game'.pc \in {"take", "refill"} => want' + game'.left <= Sectors
        BY <1>0, <1>3, <1>5
      <4>3. st'.size > 0 /\ Ring' <= MaxRead /\ st'.off < st'.size /\ want' \in Nat
        BY <1>0, <1>2, <1>4
      <4>. QED
        BY <1>4, <1>5, <3>2, <4>1, <4>2, <4>3 DEF StreamWhere
    <3>4. Filling'
      <4>. DEFINE k == IF Fresh' = 0 /\ st'.banks % 2 = 1 THEN st'.size ELSE 2 * st'.size
                  from == (IF Fresh' = 0 THEN Ring' ELSE Fresh') - k
      <4>1. Wraps <=> Fresh' = 0
        BY <1>2, <1>4, <1>8
      <4>2. k = Filled1 /\ from = Fresh
        <5>1. k = Filled1
          BY <1>4, <1>8, <4>1
        <5>2. (IF Fresh' = 0 THEN Ring' ELSE Fresh') = Fresh + Filled1
          BY <1>4, <4>1
        <5>3. from = (Fresh + Filled1) - Filled1
          BY <5>1, <5>2
        <5>. HIDE DEF k, from
        <5>. QED
          BY <5>1, <5>3, <1>2, <1>4
      <4>3. drive'.from = Base' + from + (IF Fresh' = 0 THEN 0 ELSE Ring')
        <5>. HIDE DEF from
        <5>1. CASE Wraps
          BY <5>1, <1>2, <1>3, <1>4, <2>4, <4>1, <4>2
        <5>2. CASE ~Wraps
          BY <5>2, <1>2, <1>3, <1>4, <2>4, <4>1, <4>2
        <5>. QED
          BY <5>1, <5>2
      <4>4. drive'.dest = Unit * from /\ drive'.asked = k
        BY <2>4, <4>2
      <4>. QED
        BY <1>5, <2>4, <3>2, <4>3, <4>4 DEF Filling
    <3>5. StreamData'
      <4>1. ASSUME slips = {}, st.banks # 2, NEW a \in 0 .. Unit * Ring - 1, a \notin Busy',
                   Place(a)' < Unit * Sectors
            PROVE  mem.ring[a] = Place(a)'
        <5>1. a \notin 4 * Fresh .. 4 * Fresh + 4 * Filled1 - 1
          BY <4>1, <2>4 DEF Busy, Unit
        <5>2. a \in Nat /\ a < 4 * Ring
          BY <1>2, <4>1 DEF Unit
        <5>3. a < 4 * Fresh \/ a >= 4 * (Fresh + Filled1)
          BY <5>1, <5>2, <1>2, <1>4
        <5>4. Place(a)' = Place(a)
          <6>1. Place(a)' = 4 * Base' + a + (IF a < 4 * Fresh' THEN 4 * Ring' ELSE 0)
            BY DEF Place, Unit
          <6>2. Place(a) = 4 * Base + a + (IF a < 4 * Fresh THEN 4 * Ring ELSE 0)
            BY DEF Place, Unit
          <6>3. CASE Wraps
            BY <6>1, <6>2, <6>3, <5>2, <5>3, <1>2, <1>4
          <6>4. CASE ~Wraps
            BY <6>1, <6>2, <6>4, <5>2, <5>3, <1>2, <1>4
          <6>. QED
            BY <6>3, <6>4
        <5>5. a \notin Busy
          BY <1>6, <1>8 DEF Busy
        <5>. HIDE DEF Place, Busy
        <5>. QED
          BY <5>4, <5>5, <4>1, <1>0, <1>1 DEF StreamData
      <4>. QED
        BY <4>1, <1>0, <1>4 DEF StreamData
    <3>. QED
      BY <2>4, <3>1, <3>3, <3>4, <3>5 DEF Inv, Control
<1>9. CASE n = 0 \/ st.lsn > Sectors
  <2>1. drive' = drive /\ (n > 0 => drive.pc = "idle")
    BY <1>0, <1>4, <1>6, <1>9
  <2>2. ReadInv'
    BY <1>0, <2>1, SameReadInv DEF rvars
  <2>3. OldBeside' /\ Modes' /\ FileWhere' /\ FileData'
    BY <1>0, <1>1, <1>4, <2>1, StreamKeeps
  <2>4. Base' >= 0 /\ st'.lsn = Base' + Ring' + Fresh' /\ st'.lsn > 0
    BY <1>2, <1>3, <1>4
  <2>5. StreamWhere'
    <3>1. dma'.src = "ring" => dma'.from + dma'.n <= Unit * Ring'
      BY <1>0, <1>4 DEF StreamWhere
    <3>2. game'.pc \in {"take", "refill"} => want' + game'.left <= Sectors
      BY <1>0, <1>3, <1>5
    <3>3. st'.size > 0 /\ Ring' <= MaxRead /\ st'.off < st'.size /\ want' \in Nat
      BY <1>0, <1>2, <1>4
    <3>. QED
      BY <1>4, <1>5, <2>4, <3>1, <3>2, <3>3 DEF StreamWhere
  <2>6. Filling'
    <3>1. CASE drive.pc = "idle"
      BY <3>1, <2>1 DEF Filling
    <3>2. CASE drive.pc # "idle"
      <4>1. n = 0 /\ Ring' = Ring /\ Fresh' = Fresh /\ Base' = Base
            /\ st'.size = st.size /\ st'.banks = st.banks
        BY <1>2, <1>4, <2>1, <3>2
      <4>2. Filling /\ game.pc \in {"idle", "take", "refill"} /\ st # NoRing
        BY <1>0, <1>1
      <4>3. game'.pc # "sync"
        BY <1>5
      <4>. QED
        BY <2>1, <2>4, <3>2, <4>1, <4>2, <4>3, Zenon DEF Filling
    <3>. QED
      BY <3>1, <3>2
  <2>7. StreamData'
    <3>1. ASSUME slips = {}, st.banks # 2, NEW a \in 0 .. Unit * Ring - 1, a \notin Busy',
                 Place(a)' < Unit * Sectors
          PROVE  mem.ring[a] = Place(a)'
      <4>1. Busy' = Busy
        BY <2>1 DEF Busy
      <4>2. a \in Nat /\ a < 4 * Ring
        BY <1>2, <3>1 DEF Unit
      <4>3. Place(a)' = Place(a)
        <5>1. Place(a)' = 4 * Base' + a + (IF a < 4 * Fresh' THEN 4 * Ring' ELSE 0)
          BY DEF Place, Unit
        <5>2. Place(a) = 4 * Base + a + (IF a < 4 * Fresh THEN 4 * Ring ELSE 0)
          BY DEF Place, Unit
        <5>3. CASE n = 0
          BY <5>1, <5>2, <5>3, <1>2, <1>4
        <5>4. CASE n > 0 /\ st.lsn > Sectors
          <6>0. Place(a)' < 4 * Sectors
            BY <3>1 DEF Unit
          <6>1. CASE Wraps
            BY <5>1, <5>2, <5>4, <6>0, <6>1, <4>2, <1>2, <1>3, <1>4
          <6>2. CASE ~Wraps
            BY <5>1, <5>2, <5>4, <6>0, <6>2, <4>2, <1>2, <1>3, <1>4
          <6>. QED
            BY <6>1, <6>2
        <5>. QED
          BY <5>3, <5>4, <1>4, <1>9
      <4>. HIDE DEF Place, Busy
      <4>. QED
        BY <4>1, <4>3, <3>1, <1>0, <1>1 DEF StreamData
    <3>. QED
      BY <3>1, <1>0, <1>4 DEF StreamData
  <2>. QED
    BY <2>2, <2>3, <2>5, <2>6, <2>7 DEF Inv, Control
<1>. QED
  BY <1>2, <1>3, <1>4, <1>8, <1>9

\* While a file is open, the drive works for cdrom_read only, and nothing is sent to the EE.
LEMMA FileOwns ==
  ASSUME Inv, st = NoRing, file # NoFile
  PROVE  /\ dma = NoDma /\ dma.src = "none"
         /\ IF drive.pc = "idle" THEN drive = Rest
            ELSE call.pc \in {"firstread", "wholeread", "lastread"}
         /\ drive.side \notin {"iop", "ee"} \/ (drive.asked = 0 /\ drive.dest = 0)
         /\ \A s \in {"iop", "ee"}, a \in Addr : mem[s][a] = Old
<1>1. /\ dma.src # "ring"
      /\ IF drive.pc = "idle" THEN drive = Rest
         ELSE /\ drive.side \in {"sec", "file"}
              /\ call.pc \in {"firstread", "wholeread", "lastread"}
  BY DEF Inv, Control, Modes
<1>2. drive.side \in {"sec", "file"} \/ (drive.side = "iop" /\ drive.asked = 0 /\ drive.dest = 0)
  BY <1>1, RestType
<1>3. dma = NoDma /\ dma.src = "none"
  <2>1. dma.src # "cache" /\ dma \in DmaType
    BY <1>2 DEF Inv, ReadInv, DmaOK, Types
  <2>. QED
    BY <1>1, <2>1 DEF Inv, ReadInv, DmaOK, DmaType
<1>4. \A s \in {"iop", "ee"}, a \in Addr : mem[s][a] = Old
  <2>1. drive.side \in {"iop", "ee"} => Asked = {}
    BY <1>2 DEF Asked, Unit
  <2>. QED
    BY <1>2, <2>1 DEF Inv, OldBeside
<1>. QED
  BY <1>1, <1>2, <1>3, <1>4

\* What every step with a file keeps.
LEMMA FileKeeps ==
  ASSUME Inv, st = NoRing, Quiet, file' # NoFile, dma' = NoDma,
         drive' = Rest \/ (/\ drive'.pc = "chunk" /\ drive'.side \in {"sec", "file"}
                           /\ call'.pc \in {"firstread", "wholeread", "lastread"}),
         \A s \in {"iop", "ee"}, a \in Addr : mem'[s][a] = Old
  PROVE  OldBeside' /\ Modes' /\ StreamWhere' /\ Filling' /\ StreamData'
<1>1. st' = NoRing /\ game' = Idle /\ out' = Nothing /\ want' \in Nat
  BY DEF Inv, Control, Modes, StreamWhere, Quiet
<1>2. OldBeside'
  <2>1. drive'.side \in {"iop", "ee"} => drive'.from + drive'.asked <= Sectors
    BY RestType, ReadAssumption
  <2>. QED
    BY <2>1 DEF OldBeside
<1>3. dma'.src # "ring" /\ Rest.pc = "idle"
  BY RestType
<1>4. Modes'
  BY <1>1, <1>3 DEF Modes
<1>. QED
  BY <1>1, <1>2, <1>3, <1>4, NoStream

\* cdrom_open.
LEMMA OpenInv ==
  ASSUME Inv, NEW f \in Files, Open(f), st = NoRing, Quiet
  PROVE  Inv'
<1>0. /\ ReadInv /\ FileData /\ file = NoFile /\ drive = Rest /\ call = NoCall
      /\ file' = [lsn |-> f[1], size |-> f[2], off |-> 0] /\ call' = call
      /\ UNCHANGED <<dev, mem, cache, drive, dma, slips>>
  BY DEF Inv, Control, Modes, Open, rvars
<1>1. /\ f[1] \in Nat /\ f[2] \in Nat /\ f[2] > 0 /\ f[2] <= Unit * MaxRead
      /\ Unit * f[1] + f[2] <= Unit * Sectors /\ MaxRead \in Nat /\ Sectors \in Nat
  BY FileAssumption, ReadAssumption DEF Unit
<1>2. /\ file'.lsn = f[1] /\ file'.size = f[2] /\ file' \in FileType
  BY <1>0, <1>1 DEF FileType
<1>3. file' # NoFile
  BY <1>1, <1>2 DEF NoFile
<1>4. ReadInv'
  BY <1>0, SameReadInv DEF rvars
<1>5. /\ drive.side = "iop" /\ drive.asked = 0 /\ drive.dest = 0 /\ drive.pc = "idle"
  BY <1>0, RestType
<1>6. dma' = NoDma /\ \A s \in {"iop", "ee"}, a \in Addr : mem'[s][a] = Old
  <2>1. dma.src # "ring" /\ dma.src # "cache" /\ dma \in DmaType
    BY <1>0, <1>5 DEF Inv, ReadInv, Control, Modes, DmaOK, Types
  <2>2. dma = NoDma
    BY <2>1 DEF Inv, ReadInv, DmaOK, DmaType
  <2>3. Asked = {}
    BY <1>5 DEF Asked, Unit
  <2>. QED
    BY <1>0, <2>2, <2>3 DEF Inv, OldBeside
<1>7. OldBeside' /\ Modes' /\ StreamWhere' /\ Filling' /\ StreamData'
  BY <1>0, <1>3, <1>6, FileKeeps
<1>8. /\ call.left = 0 /\ call.got = 0 /\ call.pc = "none" /\ call \in CallType /\ call.mis = 0
  BY <1>0 DEF NoCall, CallType
<1>9. FileWhere'
  BY <1>0, <1>1, <1>2, <1>3, <1>5, <1>8 DEF FileWhere, Unit
<1>10. FileData'
  <2>1. Given = {} /\ Given' = {} /\ Got' = 0
    BY <1>0, <1>8 DEF Given, Got, Line
  <2>. QED
    BY <1>0, <1>8, <2>1 DEF FileData
<1>. QED
  BY <1>4, <1>7, <1>9, <1>10 DEF Inv, Control

\* cdrom_close.
LEMMA CloseInv ==
  ASSUME Inv, Close, st = NoRing, Quiet
  PROVE  Inv'
<1>0. /\ Types /\ DmaOK /\ Modes /\ StreamWhere /\ file # NoFile /\ call.pc \in {"none", "end"}
      /\ file' = NoFile /\ call' = NoCall /\ slips' = {}
      /\ mem' = [s \in Side |-> [a \in Addr |-> Old]] /\ cache' = [a \in DOMAIN cache |-> Old]
      /\ UNCHANGED <<dev, drive, dma, st, game, want, out>>
  BY DEF Inv, ReadInv, Control, Close, Quiet
<1>1. drive = Rest /\ dma.src = "none"
  BY <1>0, FileOwns
<1>2. drive' = Rest /\ drive'.pc = "idle" /\ drive'.side = "iop" /\ drive'.from + drive'.asked <= Sectors
  BY <1>0, <1>1, RestType, ReadAssumption
<1>3. ReadInv'
  BY <1>0, <1>1, <1>2, Cleared, RestStep
<1>4. \A s \in Side, a \in Addr : mem'[s][a] = Old
  BY <1>0
<1>5. OldBeside'
  BY <1>2, <1>4 DEF OldBeside, Side
<1>6. Modes'
  BY <1>0, <1>1, <1>2 DEF Modes
<1>7. FileWhere' /\ FileData'
  BY <1>0, <1>4, WithoutFile DEF Side
<1>8. StreamWhere' /\ Filling' /\ StreamData'
  BY <1>0, <1>1, NoStream DEF Modes, StreamWhere
<1>. QED
  BY <1>3, <1>5, <1>6, <1>7, <1>8 DEF Inv, Control

\* cdrom_lseek.
LEMMA SeekInv ==
  ASSUME Inv, NEW whence \in {"set", "cur", "end"}, NEW o \in 0 .. file.size, Seek(whence, o),
         st = NoRing, Quiet
  PROVE  Inv'
<1>. DEFINE l == Least(o, file.size)
            off == CASE whence = "set" -> l [] whence = "cur" -> file.off + l
                     [] whence = "end" -> file.size - l
<1>0. /\ ReadInv /\ FileWhere /\ FileData /\ file # NoFile /\ call.pc \in {"none", "end"}
      /\ file' = [file EXCEPT !.off = off] /\ call' = call
      /\ UNCHANGED <<dev, mem, cache, drive, dma, slips>>
  BY DEF Inv, Control, Seek, rvars
<1>1. file.lsn \in Nat /\ file.size \in Nat /\ file.off \in Nat /\ file \in FileType /\ file.size > 0
  BY <1>0, FileNumbers DEF FileWhere
<1>2. off \in Nat
  <2>1. l \in Nat /\ file.size - l \in Nat
    BY <1>1 DEF Least
  <2>. HIDE DEF l
  <2>. QED
    BY <1>1, <2>1
<1>. HIDE DEF off
<1>3. file' \in FileType /\ file'.lsn = file.lsn /\ file'.size = file.size
  BY <1>0, <1>1, <1>2 DEF FileType
<1>4. file' # NoFile
  BY <1>1, <1>3 DEF NoFile
<1>5. dma' = NoDma /\ drive' = Rest /\ drive'.pc = "idle"
      /\ \A s \in {"iop", "ee"}, a \in Addr : mem'[s][a] = Old
  BY <1>0, FileOwns, RestType
<1>6. OldBeside' /\ Modes' /\ StreamWhere' /\ Filling' /\ StreamData'
  BY <1>0, <1>4, <1>5, FileKeeps
<1>7. ReadInv'
  BY <1>0, SameReadInv DEF rvars
<1>8. Got' = Got /\ Given' = Given
  BY <1>0 DEF Got, Given
<1>9. FileWhere'
  BY <1>0, <1>1, <1>3, <1>5, <1>8 DEF FileWhere
<1>10. FileData'
  BY <1>0, <1>3, <1>8 DEF FileData
<1>. QED
  BY <1>6, <1>7, <1>9, <1>10 DEF Inv, Control

\* cdrom_read begins.
LEMMA FileReadInv ==
  ASSUME Inv, NEW n \in 1 .. file.size, NEW mis \in 0 .. Line - 1, FileRead(n, mis), st = NoRing, Quiet
  PROVE  Inv'
<1>. DEFINE sector == file.lsn + (file.off \div Unit)
            skip == file.off % Unit
            len == Length(n)
<1>0. /\ Types /\ DmaOK /\ FileWhere /\ file # NoFile /\ call.pc \in {"none", "end"}
      /\ file.off <= file.size
      /\ call' = [NoCall EXCEPT !.pc = "first", !.left = len, !.sector = sector,
                                !.skip = skip, !.at = Line + mis, !.mis = mis,
                                !.from = file.off, !.got = len]
      /\ file' = [file EXCEPT !.off = @ + len]
      /\ mem' = [s \in Side |-> [a \in Addr |-> Old]] /\ cache' = [a \in DOMAIN cache |-> Old]
      /\ slips' = {} /\ UNCHANGED <<dev, drive, dma>>
  BY DEF Inv, ReadInv, Control, FileRead
<1>1. /\ file.lsn \in Nat /\ file.size \in Nat /\ file.off \in Nat /\ file \in FileType /\ file.size > 0
      /\ file.size <= Unit * MaxRead /\ Unit * file.lsn + file.size <= Unit * Sectors
      /\ MaxRead \in Nat /\ mis \in 0 .. 1 /\ n \in Nat
  BY <1>0, FileNumbers, ReadAssumption DEF FileWhere, Line
<1>2. len \in Nat /\ file.off + len <= file.size
  BY <1>0, <1>1 DEF Length
<1>3. sector \in Nat /\ skip \in 0 .. 3 /\ Unit * sector + skip = Unit * file.lsn + file.off
  BY <1>1 DEF Unit
<1>. HIDE DEF sector, skip, len
<1>4. /\ call'.pc = "first" /\ call'.left = len /\ call'.sector = sector /\ call'.skip = skip
      /\ call'.at = Line + mis /\ call'.mis = mis /\ call'.from = file.off /\ call'.got = len
      /\ call' \in CallType
  <2>1. NoCall \in CallType /\ Line + mis \in Nat
    BY <1>1 DEF NoCall, CallType, Line
  <2>. QED
    BY <1>0, <1>1, <1>2, <1>3, <2>1 DEF CallType
<1>5. file' \in FileType /\ file'.lsn = file.lsn /\ file'.size = file.size
  BY <1>0, <1>1, <1>2 DEF FileType
<1>6. file' # NoFile
  BY <1>1, <1>5 DEF NoFile
<1>7. dma' = NoDma /\ dma'.src # "cache" /\ drive' = Rest /\ drive'.pc = "idle"
  BY <1>0, FileOwns, RestType
<1>8. \A s \in Side, a \in Addr : mem'[s][a] = Old
  BY <1>0
<1>9. OldBeside' /\ Modes' /\ StreamWhere' /\ Filling' /\ StreamData'
  BY <1>6, <1>7, <1>8, FileKeeps DEF Side
<1>10. ReadInv'
  BY <1>0, <1>7, Cleared, RestStep
<1>11. Got' = 0
  BY <1>2, <1>4 DEF Got
<1>12. FileWhere'
  <2>1. call'.from + call'.got <= file'.size /\ call'.got <= Unit * MaxRead
    BY <1>1, <1>2, <1>4, <1>5 DEF Unit
  <2>2. call'.at = Line + call'.mis + Got'
    BY <1>1, <1>4, <1>11 DEF Line
  <2>3. Unit * call'.sector + call'.skip = Unit * file'.lsn + call'.from + Got'
    BY <1>1, <1>3, <1>4, <1>5, <1>11 DEF Unit
  <2>4. call'.left <= call'.got
    BY <1>2, <1>4
  <2>. QED
    BY <1>1, <1>4, <1>5, <1>7, <2>1, <2>2, <2>3, <2>4 DEF FileWhere
<1>13. FileData'
  BY <1>4, <1>8, <1>11 DEF FileData, Side
<1>. QED
  BY <1>9, <1>10, <1>12, <1>13 DEF Inv, Control

\* A step of cdrom_read that only says what comes next.
LEMMA TurnInv ==
  ASSUME Inv, st = NoRing, file # NoFile, Quiet, UNCHANGED file, UNCHANGED rvars, drive.pc = "idle",
         NEW pc \in {"whole", "last", "end"}, call' = [call EXCEPT !.pc = pc],
         call.pc \notin {"none", "end"}, call.skip = 0,
         pc = "last" => call.left < Unit, pc = "end" => call.left = 0
  PROVE  Inv'
<1>0. /\ FileWhere /\ FileData /\ UNCHANGED <<dev, mem, cache, drive, dma, slips>> /\ call \in CallType
  BY DEF Inv, Control, rvars, FileWhere
<1>1. /\ call'.pc = pc /\ call'.left = call.left /\ call'.sector = call.sector /\ call'.skip = call.skip
      /\ call'.at = call.at /\ call'.mis = call.mis /\ call'.from = call.from /\ call'.got = call.got
      /\ call' \in CallType
  BY <1>0 DEF CallType
<1>2. dma' = NoDma /\ drive' = Rest /\ drive'.pc = "idle"
      /\ \A s \in {"iop", "ee"}, a \in Addr : mem'[s][a] = Old
  BY <1>0, FileOwns, RestType
<1>3. OldBeside' /\ Modes' /\ StreamWhere' /\ Filling' /\ StreamData'
  BY <1>2, FileKeeps
<1>4. ReadInv'
  BY <1>0, SameReadInv DEF Inv
<1>5. Got' = Got /\ Given' = Given
  BY <1>1 DEF Got, Given
<1>6. FileWhere'
  BY <1>0, <1>1, <1>2, <1>5 DEF FileWhere
<1>7. FileData'
  BY <1>0, <1>1, <1>5 DEF FileData
<1>. QED
  BY <1>3, <1>4, <1>6, <1>7 DEF Inv, Control

\* A step of cdrom_read that has the drive read, and waits.
LEMMA SendInv ==
  ASSUME Inv, st = NoRing, file # NoFile, Quiet, UNCHANGED file, drive.pc = "idle",
         NEW pc \in {"firstread", "wholeread", "lastread"}, call' = [call EXCEPT !.pc = pc],
         call.pc \notin {"none", "end"}, NEW side, NEW at, NEW n, Send(side, at, n),
         IF pc = "wholeread" THEN side = "file" /\ at = call.at /\ n = call.left \div Unit /\ n > 0
                             ELSE side = "sec" /\ at = 0 /\ n = 1,
         pc # "firstread" => call.skip = 0, pc = "wholeread" => call.left >= Unit,
         pc = "lastread" => call.left < Unit
  PROVE  Inv'
<1>0. /\ Types /\ DmaOK /\ FileWhere /\ FileData /\ call \in CallType
      /\ drive' = Command(side, at, call.sector, n) /\ UNCHANGED <<dev, mem, cache, dma, slips>>
  BY DEF Inv, ReadInv, Control, FileWhere, Send
<1>1. /\ call'.pc = pc /\ call'.left = call.left /\ call'.sector = call.sector /\ call'.skip = call.skip
      /\ call'.at = call.at /\ call'.mis = call.mis /\ call'.from = call.from /\ call'.got = call.got
      /\ call' \in CallType
  BY <1>0 DEF CallType
<1>2. /\ call.left \in Nat /\ call.got \in Nat /\ call.at \in Nat /\ call.sector \in Nat
      /\ call.mis \in 0 .. 1 /\ Got \in Nat /\ Got = call.got - call.left
      /\ call.got <= Unit * MaxRead /\ MaxRead \in Nat \ {0}
      /\ call.at = Line + call.mis + Got
  BY <1>0, FileNumbers, ReadAssumption DEF FileWhere, Got
<1>3. Told(side, at, call.sector, n)
  <2>1. /\ side \in Side /\ at \in Nat /\ n \in Nat /\ n > 0
        /\ at + Unit * n <= Unit * MaxRead + 2 * Line
    <3>1. CASE pc = "wholeread"
      <4>. DEFINE whole == call.left \div Unit
      <4>1. whole \in Nat /\ Unit * whole <= call.left
        BY <1>2 DEF Unit
      <4>. HIDE DEF whole
      <4>2. side = "file" /\ at = call.at /\ n = whole /\ n > 0
        BY <3>1 DEF whole
      <4>. QED
        BY <4>1, <4>2, <1>2 DEF Unit, Line, Side
    <3>2. CASE pc # "wholeread"
      BY <3>2, <1>2 DEF Unit, Line, Side
    <3>. QED
      BY <3>1, <3>2
  <2>. QED
    BY <1>0, <1>2, <2>1 DEF Told, Types
<1>4. dma.src # "cache" /\ dma' = NoDma /\ \A s \in {"iop", "ee"}, a \in Addr : mem'[s][a] = Old
  BY <1>0, FileOwns
<1>5. /\ ReadInv' /\ drive'.pc = "chunk" /\ drive'.side = side /\ drive'.dest = at
      /\ drive'.asked = n /\ drive'.from = call.sector
  BY <1>0, <1>3, <1>4, CommandStep
<1>6. OldBeside' /\ Modes' /\ StreamWhere' /\ Filling' /\ StreamData'
  BY <1>1, <1>4, <1>5, FileKeeps
<1>7. Got' = Got /\ Given' = Given
  BY <1>1 DEF Got, Given
<1>8. FileWhere'
  BY <1>0, <1>1, <1>5, <1>7 DEF FileWhere
<1>9. FileData'
  BY <1>0, <1>1, <1>5, <1>7 DEF FileData
<1>. QED
  BY <1>5, <1>6, <1>8, <1>9 DEF Inv, Control

\* From the middle of a sector to its end.
LEMMA SectorSum ==
  \A s, k, l, f, g, n \in Nat :
    4 * s + k = 4 * l + f + g /\ k + n = 4 => 4 * s + 4 = 4 * l + f + (g + n)
OBVIOUS

\* What is copied out of the sector that was read: its conditions.
Copying(n, pc, sector) ==
  /\ st = NoRing /\ file # NoFile /\ Quiet /\ UNCHANGED <<file, dev, cache, drive, dma, slips>>
  /\ drive.pc = "idle" /\ call.pc \in {"firstread", "lastread"}
  /\ n \in Nat /\ call.skip + n <= Unit /\ n <= call.left /\ Copied(call.skip, n)
  /\ pc \in {"whole", "end"} /\ sector \in Nat
  /\ call' \in CallType /\ call'.pc = pc /\ call'.skip = 0 /\ call'.sector = sector
  /\ call'.left = call.left - n
  /\ pc = "whole" => call'.at = call.at + n /\ sector = call.sector + 1 /\ call.skip + n = Unit
  /\ pc = "end" => n = call.left
  /\ call'.mis = call.mis /\ call'.from = call.from /\ call'.got = call.got

\* The step.
LEMMA CopyInv ==
  ASSUME Inv, NEW n, NEW pc, NEW sector, Copying(n, pc, sector)
  PROVE  Inv'
<1>0. /\ st = NoRing /\ file # NoFile /\ Quiet /\ UNCHANGED <<file, dev, cache, drive, dma, slips>>
      /\ drive.pc = "idle" /\ call.pc \in {"firstread", "lastread"}
      /\ Types /\ DmaOK /\ FileWhere /\ FileData
      /\ mem' = [mem EXCEPT !.file = Put(@, call.at, n, LAMBDA u : mem.sec[call.skip + u])]
  BY DEF Inv, ReadInv, Control, Copied, Copying
<1>a. n \in Nat /\ call.skip + n <= 4 /\ n <= call.left
  BY DEF Copying, Unit
<1>b. /\ pc \in {"whole", "end"} /\ sector \in Nat
      /\ call' \in CallType /\ call'.pc = pc /\ call'.skip = 0 /\ call'.sector = sector
      /\ call'.left = call.left - n
      /\ pc = "whole" => call'.at = call.at + n /\ sector = call.sector + 1 /\ call.skip + n = 4
      /\ pc = "end" => n = call.left
      /\ call'.mis = call.mis /\ call'.from = call.from /\ call'.got = call.got
  BY DEF Copying, Unit
<1>1. /\ call.left \in Nat /\ call.got \in Nat /\ call.at \in Nat /\ call.sector \in Nat
      /\ call.skip \in 0 .. 3 /\ call.mis \in 0 .. 1 /\ call.from \in Nat
      /\ file.lsn \in Nat /\ file.size \in Nat
      /\ Got \in Nat /\ Got = call.got - call.left
      /\ call.got <= Unit * MaxRead /\ MaxRead \in Nat \ {0}
      /\ call.at = Line + call.mis + Got
      /\ Unit * call.sector + call.skip = Unit * file.lsn + call.from + Got
  BY <1>0, FileNumbers, ReadAssumption DEF FileWhere, Got
<1>2. drive = Rest /\ dma = NoDma /\ dma.src = "none" /\ Rest.pc = "idle"
      /\ \A s \in {"iop", "ee"}, a \in Addr : mem[s][a] = Old
  BY <1>0, FileOwns, RestType
<1>3. mem \in [Side -> [Addr -> Int]] /\ \A u \in 0 .. 3 : u \in Addr
  <2>1. mem \in [Side -> [Addr -> Int]]
    BY <1>0 DEF Types
  <2>2. \A u \in 0 .. 3 : u \in Addr
    BY ReadAssumption DEF Addr, Unit, Line
  <2>. QED
    BY <2>1, <2>2
<1>4. mem'.file = [a \in Addr |-> IF a \in call.at .. call.at + n - 1
                                 THEN mem.sec[call.skip + (a - call.at)] ELSE mem.file[a]]
      /\ \A s \in Side : s # "file" => mem'[s] = mem[s]
  <2>1. DOMAIN mem.file = Addr
    BY <1>3 DEF Side
  <2>. QED
    BY <1>0, <1>3, <2>1 DEF Put, Side
<1>5. mem' \in [Side -> [Addr -> Int]]
  <2>1. ASSUME NEW a \in Addr
        PROVE  (IF a \in call.at .. call.at + n - 1
                THEN mem.sec[call.skip + (a - call.at)] ELSE mem.file[a]) \in Int
    <3>1. CASE a \in call.at .. call.at + n - 1
      <4>1. call.skip + (a - call.at) \in 0 .. 3
        BY <1>1, <1>a, <3>1
      <4>2. \A x \in 0 .. 3 : mem.sec[x] \in Int
        BY <1>3 DEF Side
      <4>. QED
        BY <3>1, <4>1, <4>2
    <3>2. CASE a \notin call.at .. call.at + n - 1
      BY <1>3, <3>2 DEF Side
    <3>. QED
      BY <3>1, <3>2
  <2>2. mem'.file \in [Addr -> Int]
    BY <1>4, <2>1
  <2>3. mem' = [mem EXCEPT !.file = mem'.file]
    BY <1>0, <1>3 DEF Side
  <2>. QED
    BY <1>3, <2>2, <2>3
<1>6. ReadInv'
  BY <1>0, <1>2, <1>5, RestStep DEF Types
<1>7. OldBeside' /\ Modes' /\ StreamWhere' /\ Filling' /\ StreamData'
  <2>1. \A s \in {"iop", "ee"}, a \in Addr : mem'[s][a] = Old
    BY <1>2, <1>4 DEF Side
  <2>. QED
    BY <1>0, <1>2, <2>1, FileKeeps
<1>8. Got' = Got + n /\ Given' = Given
  BY <1>1, <1>a, <1>b DEF Got, Given
<1>9. FileWhere'
  <2>1. call'.left \in Nat /\ call'.left <= call'.got
    BY <1>1, <1>a, <1>b
  <2>2. pc = "whole" => /\ call'.at = Line + call'.mis + Got'
                        /\ Unit * call'.sector + call'.skip = Unit * file'.lsn + call'.from + Got'
    <3>. SUFFICES ASSUME pc = "whole"
                  PROVE  /\ call'.at = Line + call'.mis + Got'
                         /\ Unit * call'.sector + call'.skip = Unit * file'.lsn + call'.from + Got'
      OBVIOUS
    <3>1. /\ call'.at = call.at + n /\ call'.mis = call.mis /\ call'.sector = call.sector + 1
          /\ call'.skip = 0 /\ call'.from = call.from /\ file'.lsn = file.lsn /\ call.skip + n = 4
      BY <1>0, <1>b
    <3>2. call'.at = Line + call'.mis + Got'
      BY <3>1, <1>1, <1>a, <1>8 DEF Line
    <3>3. Unit * call'.sector + call'.skip = 4 * call.sector + 4
      BY <3>1, <1>1 DEF Unit
    <3>4. 4 * call.sector + 4 = 4 * file.lsn + call.from + (Got + n)
      <4>1. 4 * call.sector + call.skip = 4 * file.lsn + call.from + Got
        BY <1>1 DEF Unit
      <4>2. /\ call.sector \in Nat /\ call.skip \in Nat /\ call.from \in Nat
            /\ file.lsn \in Nat /\ Got \in Nat /\ n \in Nat /\ call.skip + n = 4
        BY <3>1, <1>1, <1>a
      <4>. QED
        BY <4>1, <4>2, SectorSum
    <3>. QED
      BY <3>1, <3>2, <3>3, <3>4, <1>8 DEF Unit
  <2>3. pc = "end" => call'.left = 0
    BY <1>1, <1>b
  <2>4. call'.from + call'.got <= file'.size
    BY <1>0, <1>b DEF FileWhere
  <2>. QED
    BY <1>0, <1>b, <1>2, <2>1, <2>2, <2>3, <2>4 DEF FileWhere
<1>10. FileData'
  <2>1. ASSUME NEW a \in Addr \ Given PROVE mem'.file[a] = Old
    <3>1. a \notin call.at .. call.at + n - 1
      BY <1>1, <1>a, <2>1 DEF Given, Line, Addr, Unit
    <3>. QED
      BY <1>0, <1>4, <2>1, <3>1 DEF FileData
  <2>2. ASSUME slips = {}, NEW u \in 0 .. (Got + n) - 1
        PROVE  mem'.file[Line + call.mis + u] = Img(Unit * file.lsn + call.from + u)
    <3>. DEFINE a == Line + call.mis + u
    <3>1. a \in Addr
      BY <1>1, <1>a, <2>2 DEF Addr, Line, Unit
    <3>2. CASE u < Got
      <4>1. a \notin call.at .. call.at + n - 1 /\ u \in 0 .. Got - 1
        BY <1>1, <2>2, <3>2 DEF Line
      <4>2. mem.file[a] = Img(Unit * file.lsn + call.from + u)
        BY <1>0, <2>2, <4>1 DEF FileData
      <4>. HIDE DEF a
      <4>3. mem'.file[a] = mem.file[a]
        BY <1>4, <3>1, <4>1
      <4>. QED
        BY <4>2, <4>3 DEF a
    <3>3. CASE u >= Got
      <4>. DEFINE x == call.skip + (a - call.at)
      <4>0. a = call.at + (u - Got) /\ u - Got \in 0 .. n - 1 /\ a \in Int
        BY <1>1, <1>a, <2>2, <3>3 DEF Line
      <4>1. a \in call.at .. call.at + n - 1 /\ x \in 0 .. 3 /\ x = call.skip + (u - Got)
        <5>. HIDE DEF a
        <5>1. a - call.at = u - Got
          BY <4>0, <1>1
        <5>2. x = call.skip + (u - Got)
          BY <5>1
        <5>. HIDE DEF x
        <5>3. x \in 0 .. 3
          BY <5>2, <4>0, <1>1, <1>a
        <5>4. a \in call.at .. call.at + n - 1
          BY <4>0, <1>1, <1>a
        <5>. QED
          BY <5>2, <5>3, <5>4
      <4>2. Unit * call.sector + x = Unit * file.lsn + call.from + u
        <5>. HIDE DEF x
        <5>1. Unit * call.sector + x = (4 * call.sector + call.skip) + (u - Got)
          BY <4>0, <4>1, <1>1 DEF Unit
        <5>2. 4 * call.sector + call.skip = 4 * file.lsn + call.from + Got
          BY <1>1 DEF Unit
        <5>. QED
          BY <5>1, <5>2, <4>0, <1>1, <2>2 DEF Unit
      <4>. HIDE DEF a, x
      <4>3. mem'.file[a] = mem.sec[x]
        BY <1>4, <3>1, <4>1 DEF x
      <4>4. mem.sec[x] = Img(Unit * call.sector + x)
        BY <1>0, <1>2, <2>2, <4>1 DEF FileData, Unit
      <4>. QED
        BY <4>2, <4>3, <4>4 DEF a
    <3>. QED
      BY <1>1, <1>a, <2>2, <3>2, <3>3
  <2>3. call'.pc \notin {"firstread", "wholeread", "lastread"}
    BY <1>b
  <2>4. file' = file /\ slips' = slips /\ call'.mis = call.mis /\ call'.from = call.from
    BY <1>0, <1>b
  <2>. QED
    BY <1>8, <2>1, <2>2, <2>3, <2>4 DEF FileData
<1>. QED
  BY <1>6, <1>7, <1>9, <1>10 DEF Inv, Control

\* Every step of cdrom_read.
LEMMA FileStepInv ==
  ASSUME Inv, FileStep, st = NoRing, Quiet
  PROVE  Inv'
<1>0. FileWhere /\ call \in CallType /\ (file = NoFile => call = NoCall)
  BY DEF Inv, Control, FileWhere, Modes
<1>1. /\ call.left \in Nat /\ call.got \in Nat /\ call.at \in Nat /\ call.sector \in Nat
      /\ call.skip \in 0 .. 3 /\ Unit = 4
  BY <1>0, FileNumbers DEF Unit
<1>2. call.pc # "none" => file # NoFile
  BY <1>0 DEF NoCall
<1>3. First => Inv'
  <2>. SUFFICES ASSUME First PROVE Inv'
    OBVIOUS
  <2>1. call.pc = "first" /\ drive.pc = "idle" /\ UNCHANGED file /\ file # NoFile
    BY <1>2 DEF First, Call
  <2>2. CASE call.skip = 0
    <3>1. call' = [call EXCEPT !.pc = "whole"] /\ UNCHANGED rvars
      BY <2>2 DEF First
    <3>. QED
      BY <2>1, <2>2, <3>1, TurnInv
  <2>3. CASE call.skip # 0
    <3>1. call' = [call EXCEPT !.pc = "firstread"] /\ Send("sec", 0, 1)
      BY <2>3 DEF First
    <3>. QED
      BY <2>1, <2>3, <3>1, SendInv
  <2>. QED
    BY <2>2, <2>3
<1>4. Whole => Inv'
  <2>. SUFFICES ASSUME Whole PROVE Inv'
    OBVIOUS
  <2>1. call.pc = "whole" /\ drive.pc = "idle" /\ UNCHANGED file /\ file # NoFile
    BY <1>2 DEF Whole, Call
  <2>2. call.skip = 0
    BY <1>0, <2>1 DEF FileWhere
  <2>3. CASE call.left < Unit
    <3>1. call' = [call EXCEPT !.pc = "last"] /\ UNCHANGED rvars
      BY <2>3 DEF Whole
    <3>. QED
      BY <2>1, <2>2, <2>3, <3>1, TurnInv
  <2>4. CASE ~(call.left < Unit)
    <3>1. call' = [call EXCEPT !.pc = "wholeread"] /\ Send("file", call.at, call.left \div Unit)
      BY <2>4 DEF Whole
    <3>2. call.left >= Unit /\ call.left \div Unit > 0
      BY <1>1, <2>4
    <3>. QED
      BY <2>1, <2>2, <3>1, <3>2, SendInv
  <2>. QED
    BY <2>3, <2>4
<1>5. Last => Inv'
  <2>. SUFFICES ASSUME Last PROVE Inv'
    OBVIOUS
  <2>1. call.pc = "last" /\ drive.pc = "idle" /\ UNCHANGED file /\ file # NoFile
    BY <1>2 DEF Last, Call
  <2>2. call.skip = 0 /\ call.left < Unit
    BY <1>0, <2>1 DEF FileWhere
  <2>3. CASE call.left = 0
    <3>1. call' = [call EXCEPT !.pc = "end"] /\ UNCHANGED rvars
      BY <2>3 DEF Last
    <3>. QED
      BY <2>1, <2>2, <2>3, <3>1, TurnInv
  <2>4. CASE call.left # 0
    <3>1. call' = [call EXCEPT !.pc = "lastread"] /\ Send("sec", 0, 1)
      BY <2>4 DEF Last
    <3>. QED
      BY <2>1, <2>2, <3>1, SendInv
  <2>. QED
    BY <2>3, <2>4
<1>6. WholeRead => Inv'
  <2>. SUFFICES ASSUME WholeRead PROVE Inv'
    OBVIOUS
  <2>. DEFINE k == call.left \div Unit
  <2>1. /\ call.pc = "wholeread" /\ drive.pc = "idle" /\ UNCHANGED <<file, rvars>> /\ file # NoFile
        /\ call' = [call EXCEPT !.pc = "last", !.sector = @ + k, !.at = @ + k * Unit, !.left = @ - k * Unit]
    BY <1>2 DEF WholeRead, Call
  <2>2. /\ k \in Nat /\ 4 * k <= call.left /\ call.left - 4 * k < 4
        /\ k * Unit = 4 * k
    BY <1>1
  <2>. HIDE DEF k
  <2>3. call.sector + k \in Nat /\ call.at + k * Unit \in Nat /\ call.left - k * Unit \in Nat
    BY <1>1, <2>2
  <2>4. /\ call'.pc = "last" /\ call'.sector = call.sector + k /\ call'.at = call.at + 4 * k
        /\ call'.left = call.left - 4 * k /\ call'.mis = call.mis /\ call'.from = call.from
        /\ call'.got = call.got /\ call'.skip = call.skip /\ call' \in CallType
    BY <1>0, <2>1, <2>2, <2>3 DEF CallType
  <2>5. /\ FileData /\ UNCHANGED <<dev, mem, cache, drive, dma, slips, file>>
        /\ call.skip = 0 /\ call.at = Line + call.mis + Got
        /\ 4 * call.sector = 4 * file.lsn + call.from + Got
        /\ call.from \in Nat /\ file.lsn \in Nat /\ Got \in Nat /\ call.mis \in 0 .. 1
    <3>1. /\ FileData /\ UNCHANGED <<dev, mem, cache, drive, dma, slips, file>>
          /\ call.skip = 0 /\ call.at = Line + call.mis + Got
          /\ Unit * call.sector + call.skip = Unit * file.lsn + call.from + Got
      BY <1>0, <2>1 DEF FileWhere, Inv, rvars
    <3>2. call.from \in Nat /\ file.lsn \in Nat /\ Got \in Nat /\ call.mis \in 0 .. 1
      BY <1>0, FileNumbers
    <3>. QED
      BY <1>1, <3>1, <3>2
  <2>6. Got' = Got + 4 * k /\ Given' = Given
    BY <1>1, <2>2, <2>4 DEF Got, Given
  <2>7. dma' = NoDma /\ drive' = Rest /\ drive'.pc = "idle"
        /\ \A s \in {"iop", "ee"}, a \in Addr : mem'[s][a] = Old
    BY <2>1, <2>5, FileOwns, RestType
  <2>8. OldBeside' /\ Modes' /\ StreamWhere' /\ Filling' /\ StreamData'
    BY <2>1, <2>5, <2>7, FileKeeps
  <2>9. ReadInv'
    BY <2>1, SameReadInv DEF Inv
  <2>10. FileWhere'
    <3>1. call'.at = Line + call'.mis + Got'
      BY <1>1, <2>2, <2>4, <2>5, <2>6 DEF Line
    <3>2. Unit * call'.sector + call'.skip = Unit * file'.lsn + call'.from + Got'
      BY <1>1, <2>2, <2>4, <2>5, <2>6
    <3>3. call'.left <= call'.got /\ call'.left < Unit
      <4>1. call.left <= call.got
        BY <1>0 DEF FileWhere
      <4>. QED
        BY <4>1, <1>1, <2>2, <2>4
    <3>4. call'.from + call'.got <= file'.size
      BY <1>0, <2>1, <2>4, <2>5 DEF FileWhere
    <3>. QED
      BY <1>0, <2>4, <2>5, <2>7, <3>1, <3>2, <3>3, <3>4 DEF FileWhere
  <2>11. FileData'
    <3>1. ASSUME slips = {}, NEW u \in 0 .. (Got + 4 * k) - 1
          PROVE  mem.file[Line + call.mis + u] = Img(Unit * file.lsn + call.from + u)
      <4>1. CASE u < Got
        <5>1. u \in 0 .. Got - 1
          BY <3>1, <4>1, <2>5
        <5>. QED
          BY <5>1, <3>1, <2>5 DEF FileData
      <4>2. CASE u >= Got
        <5>. DEFINE x == u - Got
        <5>1. x \in 0 .. Unit * k - 1
          BY <3>1, <4>2, <2>2, <2>5, <1>1
        <5>2. /\ call.at + x = Line + call.mis + u
              /\ Unit * call.sector + x = Unit * file.lsn + call.from + u
          BY <3>1, <4>2, <2>2, <2>5, <1>1 DEF Line
        <5>. HIDE DEF x
        <5>3. mem.file[call.at + x] = Img(Unit * call.sector + x)
          BY <5>1, <3>1, <2>1, <2>5 DEF FileData, k
        <5>. QED
          BY <5>2, <5>3
      <4>. QED
        BY <3>1, <4>1, <4>2, <2>5
    <3>. QED
      BY <2>4, <2>5, <2>6, <3>1 DEF FileData
  <2>. QED
    BY <2>8, <2>9, <2>10, <2>11 DEF Inv, Control
<1>7. FirstRead => Inv'
  <2>. SUFFICES ASSUME FirstRead PROVE Inv'
    OBVIOUS
  <2>. DEFINE n == FirstPart
              pc == IF call.skip + call.left > Unit THEN "whole" ELSE "end"
  <2>1. /\ call.pc = "firstread" /\ drive.pc = "idle" /\ file # NoFile /\ Copied(call.skip, n)
        /\ UNCHANGED <<file, dev, cache, drive, dma, slips>>
        /\ call' = [call EXCEPT !.pc = pc, !.skip = 0, !.sector = call.sector + 1, !.at = @ + n, !.left = @ - n]
    BY <1>2 DEF FirstRead, Call, NextSector
  <2>2. /\ n \in Nat /\ call.skip + n <= Unit /\ n <= call.left
        /\ pc = "whole" => call.skip + n = Unit
        /\ pc = "end" => n = call.left
    <3>1. CASE call.skip + call.left > Unit
      <4>1. n = Unit - call.skip /\ pc = "whole"
        BY <1>1, <3>1 DEF FirstPart, Least
      <4>. QED
        BY <1>1, <3>1, <4>1
    <3>2. CASE ~(call.skip + call.left > Unit)
      <4>1. n = call.left /\ pc = "end"
        BY <1>1, <3>2 DEF FirstPart, Least
      <4>. QED
        BY <1>1, <3>2, <4>1
    <3>. QED
      BY <3>1, <3>2
  <2>. HIDE DEF n
  <2>3. call.at + n \in Nat /\ call.left - n \in Nat /\ call.sector + 1 \in Nat /\ pc \in {"whole", "end"}
    BY <1>1, <2>2
  <2>. HIDE DEF pc
  <2>4. /\ call'.pc = pc /\ call'.sector = call.sector + 1 /\ call'.at = call.at + n
        /\ call'.left = call.left - n /\ call'.mis = call.mis /\ call'.from = call.from
        /\ call'.got = call.got /\ call'.skip = 0 /\ call' \in CallType
    <3>0. PICK none \in 0 .. 3 : none = 0
      OBVIOUS
    <3>1. call' = [call EXCEPT !.pc = pc, !.skip = none, !.sector = call.sector + 1,
                               !.at = call.at + n, !.left = call.left - n]
      BY <2>1, <3>0
    <3>2. pc \in {"none", "first", "firstread", "whole", "wholeread", "last", "lastread", "end"}
      BY <2>3
    <3>3. call \in CallType
      BY <1>0
    <3>4. call' \in CallType
      BY <2>3, <3>1, <3>2, <3>3 DEF CallType
    <3>5. /\ call'.pc = pc /\ call'.sector = call.sector + 1 /\ call'.at = call.at + n
          /\ call'.left = call.left - n
      BY <3>1, <3>3 DEF CallType
    <3>6. /\ call'.mis = call.mis /\ call'.from = call.from
          /\ call'.got = call.got /\ call'.skip = 0
      BY <3>0, <3>1, <3>3 DEF CallType
    <3>. QED
      BY <3>4, <3>5, <3>6
  <2>5. Copying(n, pc, call.sector + 1)
    BY <2>1, <2>2, <2>3, <2>4 DEF Copying
  <2>. QED
    BY <2>5, CopyInv
<1>8. LastRead => Inv'
  <2>. SUFFICES ASSUME LastRead PROVE Inv'
    OBVIOUS
  <2>1. /\ call.pc = "lastread" /\ drive.pc = "idle" /\ file # NoFile /\ Copied(0, call.left)
        /\ UNCHANGED <<file, dev, cache, drive, dma, slips>>
        /\ call' = [call EXCEPT !.pc = "end", !.left = 0]
    BY <1>2 DEF LastRead, Call
  <2>2. call.skip = 0 /\ call.left < Unit
    BY <1>0, <2>1 DEF FileWhere
  <2>3. /\ call'.pc = "end" /\ call'.sector = call.sector
        /\ call'.left = 0 /\ call'.mis = call.mis /\ call'.from = call.from
        /\ call'.got = call.got /\ call'.skip = 0 /\ call' \in CallType
    BY <1>0, <2>1, <2>2 DEF CallType
  <2>4. Copying(call.left, "end", call.sector)
    BY <1>1, <2>1, <2>2, <2>3 DEF Copying
  <2>. QED
    BY <2>4, CopyInv
<1>. QED
  BY <1>3, <1>4, <1>5, <1>6, <1>7, <1>8 DEF FileStep
-----------------------------------------------------------------------------
(* Every step, and what the invariant says.                                 *)

\* Every step keeps the invariant.
LEMMA NextInv ==
  ASSUME Inv, [Next]_svars
  PROVE  Inv'
<1>1. CASE UNCHANGED svars
  BY <1>1, StutterInv
<1>2. StreamStep \/ Sent => Inv'
  BY FillInv, FilledInv, TakeInv, RefillInv, SentInv DEF StreamStep
<1>3. /\ (\E r \in Rings : StInit(r)) => Inv'
      /\ (\E lsn \in Lsns : StStart(lsn)) => Inv'
      /\ (\E n \in 1 .. MaxTake, mode \in {"iop", "ee"} : StRead(n, mode)) => Inv'
  BY StInitInv, StStartInv, StReadInv
<1>4. (DriveStep \/ DmaEnd \/ Break) /\ UNCHANGED fvars /\ Quiet => Inv'
  BY DriveInv
<1>5. (\E side \in {"iop", "ee"}, mis \in 0 .. Line - 1, lsn \in Lsns, n \in 1 .. MaxRead :
         Read(side, mis, lsn, n) /\ st = NoRing /\ file = NoFile /\ UNCHANGED fvars /\ Quiet) => Inv'
  BY ReadInvStep
<1>6. ASSUME st = NoRing, Quiet,
             \/ \E f \in Files : Open(f)
             \/ Close \/ FileStep
             \/ \E whence \in {"set", "cur", "end"}, o \in 0 .. file.size : Seek(whence, o)
             \/ \E n \in 1 .. file.size, mis \in 0 .. Line - 1 : FileRead(n, mis)
      PROVE  Inv'
  BY <1>6, OpenInv, CloseInv, FileStepInv, SeekInv, FileReadInv
<1>. QED
  BY <1>1, <1>2, <1>3, <1>4, <1>5, <1>6, Zenon DEF Next

\* A read that has ended is exact.
LEMMA InvReadExact == Inv => ReadExact
<1>. SUFFICES ASSUME Inv PROVE ReadExact
  OBVIOUS
<1>0. Types /\ Data /\ OldBeside
  BY DEF Inv, ReadInv
<1>1. ASSUME Ended, slips = {}, NEW a \in Asked
      PROVE  mem[drive.side][a] = Unit * drive.from + (a - drive.dest)
  <2>1. /\ drive.pc = "idle" /\ dma.src # "cache" /\ drive.side \in {"iop", "ee"}
        /\ drive.from + drive.asked <= Sectors /\ Sectors \in Nat
    BY <1>0, <1>1, RestType, ReadAssumption DEF Ended, OldBeside
  <2>2. drive.dest \in Nat /\ drive.asked \in Nat /\ drive.from \in Nat
    BY <1>0, Nats
  <2>. DEFINE u == a - drive.dest
  <2>3. u \in 0 .. Unit * drive.asked - 1 /\ drive.dest + u = a
    BY <1>1, <2>2 DEF Asked, Unit
  <2>4. Right(0, Unit * drive.asked)
    BY <1>0, <1>1, <2>1 DEF Data
  <2>. HIDE DEF u
  <2>5. mem[drive.side][a] = Img(Unit * drive.from + u)
    BY <2>1, <2>3, <2>4 DEF Right, Coming
  <2>6. Unit * drive.from + u < Unit * Sectors
    BY <2>1, <2>2, <2>3 DEF Unit
  <2>. QED
    BY <2>5, <2>6 DEF Img, u
<1>. QED
  BY <1>0, <1>1 DEF ReadExact, OldBeside

\* A read of a file that has ended is exact.
LEMMA InvFileExact == Inv => FileExact
<1>. SUFFICES ASSUME Inv PROVE FileExact
  OBVIOUS
<1>0. FileWhere /\ FileData
  BY DEF Inv, Control
<1>1. ASSUME call.pc = "end", slips = {}, NEW a \in Given
      PROVE  mem.file[a] = Unit * file.lsn + call.from + (a - Line - call.mis)
  <2>1. /\ call.left = 0 /\ Got = call.got /\ call.from + call.got <= file.size
        /\ Unit * file.lsn + file.size <= Unit * Sectors
        /\ call.mis \in 0 .. 1 /\ call.got \in Nat /\ call.from \in Nat /\ file.lsn \in Nat
        /\ file.size \in Nat /\ Sectors \in Nat
    BY <1>0, <1>1, FileNumbers, ReadAssumption DEF FileWhere, Got
  <2>. DEFINE u == a - Line - call.mis
  <2>2. u \in 0 .. Got - 1 /\ (Line + call.mis) + u = a
    BY <1>1, <2>1 DEF Given, Line
  <2>. HIDE DEF u
  <2>3. mem.file[Line + call.mis + u] = Img(Unit * file.lsn + call.from + u)
    BY <1>0, <1>1, <2>2 DEF FileData
  <2>4. (Unit * file.lsn + call.from) + u < Unit * Sectors
    BY <2>1, <2>2 DEF Unit
  <2>. QED
    BY <2>1, <2>2, <2>3, <2>4 DEF Img, u
<1>2. call.pc = "end" => call.from + call.got <= file.size
  BY <1>0 DEF FileWhere
<1>3. \A a \in Addr \ Given : mem.file[a] = Old
  BY <1>0 DEF FileData
<1>. QED
  BY <1>1, <1>2, <1>3 DEF FileExact

\* The places of the drive, of cdrom_read and of the stream, and what is in every buffer,
\* belong together at all times: a read that is split into parts and turns, a file that is
\* read in three pieces and a ring that is filled while it is emptied.
THEOREM BuffersRight == Spec => []Inv
<1>1. Init => Inv
  BY InitInv
<1>2. Inv /\ [Next]_svars => Inv'
  BY NextInv
<1>. QED
  BY <1>1, <1>2, PTL DEF Spec

\* A read that has ended has put every unit in its place, and never one beside its buffer,
\* for every image, slice, sector of the device, buffer of the drive and request
\* (async_read, read_sector).
THEOREM ReadsExact == Spec => []ReadExact
<1>1. Inv => ReadExact
  BY InvReadExact
<1>. QED
  BY <1>1, BuffersRight, PTL

\* A read of a file gives what is in the file from its position on, wherever in a sector it
\* begins and ends, and writes nothing beside it (cdrom_read).
THEOREM FilesExact == Spec => []FileExact
<1>1. Inv => FileExact
  BY InvFileExact
<1>. QED
  BY <1>1, BuffersRight, PTL

\* A stream comes out of its ring in order and without a gap, for every number of banks but
\* two and every size of them, though the drive and the DMA work on other banks meanwhile
\* (sceCdStRead, stReadRingBuffer).
THEOREM StreamsInOrder == Spec => []StreamInOrder
<1>1. Inv => StreamInOrder
  BY DEF Inv, StreamData, StreamInOrder
<1>. QED
  BY <1>1, BuffersRight, PTL
=============================================================================
