----------------------------- MODULE CdvdStream -----------------------------
(***************************************************************************)
(* Streaming: sceCdStStart fills a ring of banks, sceCdStRead takes from   *)
(* it and has the drive fill the banks it has emptied, two at a time,      *)
(* while the game goes on.                                                 *)
(***************************************************************************)
EXTENDS CdvdFile, Sequences

CONSTANTS
  Rings,    \* <<bufmax, bankmax>>: what games ask of sceCdStInit
  MaxTake   \* bound: sectors of one sceCdStRead

ASSUME StreamAssumption ==
  /\ \A r \in Rings : r[1] \in 1 .. MaxRead /\ r[2] \in 1 .. r[1]
  /\ MaxTake \in Nat \ {0}

VARIABLES
  st,     \* async_config: the ring, stLSN and where sceCdStRead is in the ring
  game,   \* the thread of the game that streams
  want,   \* the sector that comes next in the stream
  out     \* what was taken last: the unit that was due, and those that came

svars == <<dev, mem, cache, drive, dma, slips, file, call, st, game, want, out>>

NoRing == [banks |-> 0, size |-> 0, lsn |-> 0, off |-> 0, bank |-> 0]
Idle == [pc |-> "idle", left |-> 0, mode |-> "iop"]
Nothing == [due |-> 0, came |-> <<>>]

\* The domains of the variables.
TypeOK ==
  /\ ReadTypeOK /\ FileTypeOK
  /\ DOMAIN st = DOMAIN NoRing
  /\ st.banks \in 0 .. MaxRead /\ st.size \in 0 .. MaxRead /\ st.banks * st.size <= MaxRead
  /\ st.off \in 0 .. MaxRead /\ st.bank \in 0 .. MaxRead /\ st.lsn \in 0 .. 2 * Sectors
  /\ game.pc \in {"idle", "start", "sync", "take", "refill"}
  /\ game.left \in 0 .. MaxTake /\ game.mode \in {"iop", "ee"}
  /\ want \in 0 .. Sectors /\ out.came \in Seq(Val) /\ out.due \in Nat

\* sceCdStInit: as many banks as the game says, of whole sectors
StInit(r) ==
  /\ game.pc = "idle" /\ drive.pc = "idle" /\ dma = NoDma /\ file = NoFile
  /\ st' = [NoRing EXCEPT !.banks = r[2], !.size = r[1] \div r[2]]
  /\ mem' = [s \in Side |-> [a \in Addr |-> Old]] /\ cache' = [a \in DOMAIN cache |-> Old]
  /\ drive' = Rest /\ game' = Idle /\ want' = 0 /\ out' = Nothing /\ slips' = {}
  /\ UNCHANGED <<dev, dma, fvars>>

\* sceCdStStart and sceCdStSeekF: stInit, then the whole ring is filled
StStart(lsn) ==
  /\ game.pc = "idle" /\ st.banks > 0
  /\ st' = [st EXCEPT !.lsn = lsn, !.off = 0, !.bank = 0]
  /\ game' = [Idle EXCEPT !.pc = "start"] /\ want' = lsn
  /\ UNCHANGED <<dev, mem, cache, drive, dma, slips, out, fvars>>

\* cdvdman_read_noCB for a free drive, which refuses what is behind the image
Order(bank, n) ==
  /\ drive.pc = "idle"
  /\ drive' = IF st.lsn > Sectors THEN drive
              ELSE Command("ring", bank * st.size * Unit, st.lsn, n)

\* The first read of a stream.  What an earlier one left in the ring is forgotten.
Fill ==
  /\ game.pc = "start" /\ Order(0, st.banks * st.size)
  /\ mem' = IF dma = NoDma THEN [mem EXCEPT !.ring = [a \in Addr |-> Old]] ELSE mem
  /\ st' = [st EXCEPT !.lsn = @ + st.banks * st.size]
  /\ game' = [game EXCEPT !.pc = "sync"] /\ slips' = (IF dma = NoDma THEN {} ELSE slips) /\ out' = Nothing
  /\ UNCHANGED <<dev, cache, dma, want, fvars>>

\* sceCdSync(0)
Filled ==
  /\ game.pc = "sync" /\ drive.pc = "idle" /\ game' = Idle
  /\ UNCHANGED <<dev, mem, cache, drive, dma, slips, st, want, out, fvars>>

\* sceCdStRead.  Bound: within the image, and not from a stream that has gone wrong.
StRead(n, mode) ==
  /\ game.pc = "idle" /\ st.lsn > 0 /\ want + n <= Sectors /\ slips = {}
  /\ game' = [pc |-> "take", left |-> n, mode |-> mode]
  /\ UNCHANGED <<dev, mem, cache, drive, dma, slips, st, want, out, fvars>>

\* a mutant: the last sector of a bank is not taken
TakenShort == Least(game.left, st.size - st.off - 1)

\* How many sectors come from the bank that is being emptied
Taken == Least(game.left, st.size - st.off)
From == (st.bank * st.size + st.off) * Unit

\* With one bank the drive is waited for; EE_memcpy waits for the transfer before.
Take ==
  /\ game.pc = "take"
  /\ st.banks < 2 => drive.pc = "idle"
  /\ game.mode = "ee" => dma = NoDma
  /\ IF game.mode = "ee" THEN
       dma' = [src |-> "ring", from |-> From, to |-> want * Unit, n |-> Taken * Unit] /\ UNCHANGED out
     ELSE
       out' = [due |-> want * Unit, came |-> [i \in 1 .. Taken * Unit |-> mem.ring[From + i - 1]]]
            /\ UNCHANGED dma
  /\ st' = [st EXCEPT !.off = @ + Taken] /\ want' = want + Taken
  /\ game' = IF st.off + Taken >= st.size THEN [game EXCEPT !.pc = "refill", !.left = @ - Taken]
             ELSE IF game.left = Taken THEN Idle ELSE [game EXCEPT !.left = @ - Taken]
  /\ UNCHANGED <<dev, mem, cache, drive, slips, fvars>>

\* The DMA to the EE reads the ring when it does
Sent ==
  /\ dma.src = "ring"
  /\ out' = [due |-> dma.to, came |-> [i \in 1 .. dma.n |-> mem.ring[dma.from + i - 1]]]
  /\ dma' = NoDma
  /\ UNCHANGED <<dev, mem, cache, drive, slips, st, game, want, fvars>>

\* a mutant: the bank before an odd one is not filled
BanksToFillOne == IF st.bank % 2 = 1 \/ st.banks - st.bank = 1 THEN 1 ELSE 0

\* Two banks after an odd one, one after the last of an odd number, none else
BanksToFill == IF st.bank % 2 = 1 THEN 2 ELSE IF st.banks - st.bank = 1 THEN 1 ELSE 0

Refill ==
  LET n == BanksToFill
  IN /\ game.pc = "refill"
     /\ IF n > 0 THEN Order(st.bank - (n - 1), n * st.size) ELSE UNCHANGED drive
     /\ st' = [st EXCEPT !.lsn = @ + n * st.size, !.off = 0,
                         !.bank = IF @ + 1 >= st.banks THEN 0 ELSE @ + 1]
     /\ game' = IF game.left = 0 THEN Idle ELSE [game EXCEPT !.pc = "take"]
     /\ UNCHANGED <<dev, mem, cache, dma, slips, want, out, fvars>>

Init ==
  /\ ReadInit /\ file = NoFile /\ call = NoCall
  /\ st = NoRing /\ game = Idle /\ want = 0 /\ out = Nothing

StreamStep == Fill \/ Filled \/ Take \/ Refill
Quiet == UNCHANGED <<st, game, want, out>>     \* nothing streams

\* Bound: the game reads sectors, or files, or streams.
Next ==
  \/ StreamStep \/ Sent
  \/ \E r \in Rings : StInit(r)
  \/ \E lsn \in Lsns : StStart(lsn)
  \/ \E n \in 1 .. MaxTake, mode \in {"iop", "ee"} : StRead(n, mode)
  \/ (DriveStep \/ DmaEnd \/ Break) /\ UNCHANGED fvars /\ Quiet
  \/ \E side \in {"iop", "ee"}, mis \in 0 .. Line - 1, lsn \in Lsns, n \in 1 .. MaxRead :
       Read(side, mis, lsn, n) /\ st = NoRing /\ file = NoFile /\ UNCHANGED fvars /\ Quiet
  \/ /\ st = NoRing /\ Quiet
     /\ \/ \E f \in Files : Open(f)
        \/ Close \/ FileStep
        \/ \E whence \in {"set", "cur", "end"}, o \in 0 .. file.size : Seek(whence, o)
        \/ \E n \in 1 .. file.size, mis \in 0 .. Line - 1 : FileRead(n, mis)

Spec == Init /\ [][Next]_svars

\* USB and DMA transfers end; the game's thread goes on.
FairSpec == Spec /\ WF_svars(DriveStep /\ UNCHANGED fvars /\ Quiet)
                 /\ WF_svars(DmaEnd /\ UNCHANGED fvars /\ Quiet) /\ WF_svars(Sent)
                 /\ SF_svars(StreamStep) /\ SF_svars(FileStep /\ Quiet)

-----------------------------------------------------------------------------
(* Properties *)

\* What comes out of the ring is the image from the sector on that streaming was started at,
\* in order and without a gap, though the drive fills banks while others are emptied: for
\* any number of banks but two, where a bank is emptied while it is being filled
\* (sceCdStRead, stReadRingBuffer).
StreamInOrder ==
  slips = {} /\ st.banks # 2 => \A i \in DOMAIN out.came : out.came[i] = out.due + i - 1

\* A call of the game returns in the end, and the drive is free again, whatever it was asked
\* for.
AtRest == game.pc = "idle" /\ call.pc \in {"none", "end"}
CallsEnd == (drive.pc # "idle" ~> drive.pc = "idle") /\ (~AtRest ~> AtRest)

=============================================================================
