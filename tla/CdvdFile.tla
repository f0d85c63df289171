------------------------------ MODULE CdvdFile ------------------------------
(***************************************************************************)
(* Reading files of the disc: cdrom_read makes up to three reads of the    *)
(* drive, of a sector the file's position is in the middle of, of whole    *)
(* sectors into the caller's buffer, and of the sector the read ends in.   *)
(* Positions and sizes are in units of CdvdRead.                           *)
(***************************************************************************)
EXTENDS CdvdRead

CONSTANTS Files  \* <<first sector, size>> of the files

ASSUME FileAssumption ==
  \A f \in Files : /\ f[1] \in 0 .. Sectors - 1 /\ f[2] \in 1 .. Unit * MaxRead
                   /\ Unit * f[1] + f[2] <= Unit * Sectors     \* files lie in the image

VARIABLES
  file,   \* cdvdman_fhandle
  call    \* cdrom_read: where it is, and its locals

fvars == <<file, call>>

NoFile == [lsn |-> 0, size |-> 0, off |-> 0]
NoCall == [pc |-> "none", left |-> 0, sector |-> 0, skip |-> 0, at |-> 0, mis |-> 0, from |-> 0, got |-> 0]

FileTypeOK ==
  /\ file.lsn \in 0 .. Sectors /\ file.size \in 0 .. Unit * MaxRead /\ file.off \in 0 .. 2 * Unit * MaxRead
  /\ call.pc \in {"none", "first", "firstread", "whole", "wholeread", "last", "lastread", "end"}
  /\ call.left \in 0 .. Unit * MaxRead /\ call.got \in 0 .. Unit * MaxRead
  /\ call.skip \in 0 .. Unit - 1 /\ call.at \in Addr \cup {Unit * MaxRead + 2 * Line}

\* cdrom_open, after the search
Open(f) ==
  /\ file = NoFile /\ drive = Rest
  /\ file' = [lsn |-> f[1], size |-> f[2], off |-> 0] /\ UNCHANGED <<rvars, call>>

\* cdrom_close.  What was read is forgotten.
Close ==
  /\ file # NoFile /\ call.pc \in {"none", "end"}
  /\ file' = NoFile /\ call' = NoCall /\ slips' = {}
  /\ mem' = [s \in Side |-> [a \in Addr |-> Old]] /\ cache' = [a \in DOMAIN cache |-> Old]
  /\ UNCHANGED <<dev, drive, dma>>

\* cdrom_lseek: an offset is cut to the file's size, whatever it is counted from, so that the
\* position may come to lie behind the end.  Bound: it is not moved on from there.
Seek(whence, offset) ==
  LET o == Least(offset, file.size)
  IN /\ file # NoFile /\ call.pc \in {"none", "end"} /\ (whence = "cur" => file.off <= file.size)
     /\ file' = [file EXCEPT !.off = CASE whence = "set" -> o [] whence = "cur" -> file.off + o
                                       [] whence = "end" -> file.size - o]
     /\ UNCHANGED <<rvars, call>>

\* nbyte, cut to the end of the file
Length(n) == IF file.off + n > file.size THEN file.size - file.off ELSE n

\* cdrom_read.  Bound: not from behind the end of the file, where the length would be
\* negative, and a copy of that many bytes does not end.
FileRead(n, mis) ==
  /\ file # NoFile /\ call.pc \in {"none", "end"} /\ file.off <= file.size
  /\ call' = [NoCall EXCEPT !.pc = "first", !.left = Length(n), !.sector = file.lsn + (file.off \div Unit),
                            !.skip = file.off % Unit, !.at = Line + mis, !.mis = mis,
                            !.from = file.off, !.got = Length(n)]
  /\ file' = [file EXCEPT !.off = @ + Length(n)]
  /\ mem' = [s \in Side |-> [a \in Addr |-> Old]] /\ cache' = [a \in DOMAIN cache |-> Old]
  /\ slips' = {} /\ UNCHANGED <<dev, drive, dma>>

Call(step) == call.pc = step /\ drive.pc = "idle"
Send(side, at, n) == drive' = Command(side, at, call.sector, n) /\ UNCHANGED <<dev, mem, cache, dma, slips>>
Copied(from, n) == mem' = [mem EXCEPT !.file = Put(@, call.at, n, LAMBDA u : mem.sec[from + u])]

NextSector == call.sector + 1

First ==
  /\ Call("first") /\ UNCHANGED file
  /\ IF call.skip = 0 THEN call' = [call EXCEPT !.pc = "whole"] /\ UNCHANGED rvars
     ELSE call' = [call EXCEPT !.pc = "firstread"] /\ Send("sec", 0, 1)

\* a mutant: always the rest of the sector
FirstPartAll == Unit - call.skip

\* What is copied of the first sector
FirstPart == Least(Unit - call.skip, call.left)

FirstRead ==
  LET n == FirstPart
  IN /\ Call("firstread") /\ Copied(call.skip, n)
     /\ call' = [call EXCEPT !.pc = IF call.skip + call.left > Unit THEN "whole" ELSE "end",
                             !.skip = 0, !.sector = NextSector, !.at = @ + n, !.left = @ - n]
     /\ UNCHANGED <<file, dev, cache, drive, dma, slips>>

Whole ==
  /\ Call("whole") /\ UNCHANGED file
  /\ IF call.left < Unit THEN call' = [call EXCEPT !.pc = "last"] /\ UNCHANGED rvars
     ELSE call' = [call EXCEPT !.pc = "wholeread"] /\ Send("file", call.at, call.left \div Unit)

WholeRead ==
  LET k == call.left \div Unit
  IN /\ Call("wholeread")
     /\ call' = [call EXCEPT !.pc = "last", !.sector = @ + k, !.at = @ + k * Unit, !.left = @ - k * Unit]
     /\ UNCHANGED <<file, rvars>>

Last ==
  /\ Call("last") /\ UNCHANGED file
  /\ IF call.left = 0 THEN call' = [call EXCEPT !.pc = "end"] /\ UNCHANGED rvars
     ELSE call' = [call EXCEPT !.pc = "lastread"] /\ Send("sec", 0, 1)

LastRead ==
  /\ Call("lastread") /\ Copied(0, call.left)
  /\ call' = [call EXCEPT !.pc = "end", !.left = 0]
  /\ UNCHANGED <<file, dev, cache, drive, dma, slips>>

FileStep == First \/ FirstRead \/ Whole \/ WholeRead \/ Last \/ LastRead

-----------------------------------------------------------------------------
(* Properties *)

\* A read of a file gives what is in the file from its position on, as much as is asked for
\* or left, wherever in a sector it starts and ends, however the buffer is aligned, though
\* the drive is told to break; unless that cut a read, or the image crossed a slice
\* (cdrom_read ignores the drive's error).  Nothing is ever written beside it.
Given == Line + call.mis .. Line + call.mis + call.got - 1
FileExact ==
  /\ call.pc = "end" /\ slips = {} =>
       /\ call.from + call.got <= file.size
       /\ \A a \in Given : mem.file[a] = Unit * file.lsn + call.from + (a - Line - call.mis)
  /\ \A a \in Addr \ Given : mem.file[a] = Old

=============================================================================
