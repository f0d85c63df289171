----------------------------- MODULE CdvdSearch -----------------------------
(***************************************************************************)
(* The file search of CDVDMAN (cdvdman_CdSearchFile, cdvdman_CdReturn-     *)
(* FileInfo) and the calls that use it: sceCdSearchFile, and open, dopen,  *)
(* dread, getstat and close of the cdrom device.  All searches read the    *)
(* directories of the disc image through one static buffer, "databuf",     *)
(* which "srch_sema" protects; the cdrom device also holds "fio_sema".     *)
(*                                                                         *)
(* A sector of a directory or of the path table is a sequence of records;  *)
(* past its end the rest of the sector reads as a blank record.  Every     *)
(* record has length 1, so lengths of directories count records, with      *)
(* SectorLen of them to a sector.  A name is a string; Self stands for the *)
(* identifier of a directory's own record, which the empty name matches.   *)
(***************************************************************************)
EXTENDS Integers, SequencesExt

CONSTANTS
  Threads,
  FileNames,    \* the names on the disc and in paths
  Requests,     \* Requests[t]: the [op, path, layer] thread t may call with
  Disc,         \* Disc[lsn]: the records [name, loc, size, dir] of a sector
  SectorLen,    \* records that fit a sector
  Root,         \* Root[layer]: LSN of the root directory
  PathTable,    \* PathTable[layer]: LSN of the path table
  PathTableLen, \* PathTableLen[layer]: its length
  LayerBreak,   \* first LSN of layer 1, 0 on a disc of one layer
  Dotted,       \* the names that contain a '.'
  Banned        \* the modules that are replaced by a dummy

Self == "self"
ByName == {"search", "open", "dopen", "getstat"}
LastLsn == Len(Disc)
NotFound == [name |-> "none", loc |-> 0, size |-> 0, dir |-> FALSE]
NoHandle == [lsn |-> 0, size |-> 0, offset |-> 0, dir |-> FALSE, layer |-> 0,
             banned |-> FALSE, listed |-> <<>>, ended |-> FALSE]
Dread(layer) == [op |-> "dread", path |-> <<>>, layer |-> layer]
NoRequest == [op |-> "none", path |-> <<>>, layer |-> 0]

AllNames == FileNames \cup {"", "none", Self}
DirRec == [name : AllNames, loc : Nat, size : Nat, dir : BOOLEAN]
Layers == {0, 1}

ASSUME DiscAssumption ==
  /\ Disc \in Seq(Seq(DirRec)) /\ SectorLen \in Nat
  /\ \A n \in 1..Len(Disc) : Len(Disc[n]) < SectorLen
  /\ LayerBreak \in Nat
  /\ \A l \in Layers : Root[l] \in Nat /\ PathTable[l] \in Nat /\ PathTableLen[l] \in Nat

ASSUME RequestsAssumption ==
  \A t \in Threads : \A r \in Requests[t] :
    /\ r \in [op : ByName, path : Seq(AllNames), layer : Nat]
    /\ r.path # <<>>

VARIABLES
  fio_sema, srch_sema,   \* 1 when free
  databuf,               \* the sector databuf holds, 0 before the first read
  pc,
  req,                   \* the call of each thread
  scan,                  \* its locals: sector, record, offset, length, segment
  out,                   \* what the search gave
  handle                 \* the file or directory each thread has open

vars == <<fio_sema, srch_sema, databuf, pc, req, scan, out, handle>>

\* A scan from the first record of a sector.
ScanFrom(lsn, size, seg, left) ==
  [lsn |-> lsn, idx |-> 1, off |-> 0, size |-> size, seg |-> seg, left |-> left]
NoScan == ScanFrom(0, 0, 1, 0)

Init ==
  /\ fio_sema = 1 /\ srch_sema = 1 /\ databuf = 0
  /\ pc = [t \in Threads |-> "idle"]
  /\ req = [t \in Threads |-> NoRequest]
  /\ scan = [t \in Threads |-> NoScan]
  /\ out = [t \in Threads |-> NotFound]
  /\ handle = [t \in Threads |-> NoHandle]

-----------------------------------------------------------------------------
(* Records and sectors.                                                    *)

Records(buf) == IF buf = 0 THEN <<>> ELSE Disc[buf]
AtBlank(s) == s.idx > Len(Records(databuf))
Rec(s) == Records(databuf)[s.idx]
Named(s, name) == IF AtBlank(s) THEN FALSE ELSE Rec(s).name = name

\* What databuf holds after a read: an invalid LSN leaves it alone.
Loaded(lsn) == IF lsn \in 1..LastLsn THEN lsn ELSE databuf

\* The length of a directory is that of its first record, its own.
DirLen(buf) == IF Records(buf) = <<>> THEN 0 ELSE Records(buf)[1].size

\* The sectors past the end of the image are all alike.
NextLsn(lsn) == IF lsn > LastLsn THEN lsn ELSE lsn + 1

\* On layer 1 the location of an extent counts from the layer break.
ExtentOf(rec, layer) ==
  IF layer = 0 THEN rec.loc ELSE rec.loc + LayerBreak

Located(rec, layer) == [rec EXCEPT !.loc = ExtentOf(rec, layer)]

\* isfilename: the last segment, or one with a '.' in it.
IsFileName(path, i) == i >= Len(path) \/ path[i] \in Dotted

ValidLayer(layer) == layer \in IF LayerBreak = 0 THEN {0} ELSE {0, 1}

\* One turn of a loop: on to the next record, or from a blank to the next
\* sector.
Turn(s) ==
  IF AtBlank(s) THEN [s EXCEPT !.lsn = NextLsn(@), !.idx = 1]
                ELSE [s EXCEPT !.idx = @ + 1, !.off = @ + 1]
\* Fault: the sector that follows is not read.
TurnBufUnread(s) == databuf

TurnBuf(s) == IF AtBlank(s) THEN Loaded(NextLsn(s.lsn)) ELSE databuf

-----------------------------------------------------------------------------
(* Calls.                                                                  *)

\* A thread with no handle makes one of its requests; one with a handle
\* closes it or, on a directory, reads entries until a read returns 0.
Call(t) ==
  /\ pc[t] = "idle"
  /\ \/ /\ handle[t] = NoHandle
        /\ \E r \in Requests[t] :
             /\ req' = [req EXCEPT ![t] = r]
             /\ pc' = [pc EXCEPT ![t] = IF r.op = "search" THEN "srch" ELSE "fio"]
     \/ /\ handle[t].dir /\ ~handle[t].ended
        /\ req' = [req EXCEPT ![t] = Dread(handle[t].layer)]
        /\ pc' = [pc EXCEPT ![t] = "fio"]
  /\ UNCHANGED <<fio_sema, srch_sema, databuf, scan, out, handle>>

Close(t) ==
  /\ pc[t] = "idle" /\ handle[t] # NoHandle
  /\ fio_sema = 1
  /\ handle' = [handle EXCEPT ![t] = NoHandle]
  /\ UNCHANGED <<fio_sema, srch_sema, databuf, pc, req, scan, out>>

TakeFio(t) ==
  /\ pc[t] = "fio" /\ fio_sema = 1
  /\ fio_sema' = 0
  /\ IF req[t].op = "dread"
     THEN /\ pc' = [pc EXCEPT ![t] = "again"]
          /\ scan' = [scan EXCEPT ![t].lsn = handle[t].lsn]
     ELSE /\ pc' = [pc EXCEPT ![t] = "srch"]
          /\ UNCHANGED scan
  /\ UNCHANGED <<srch_sema, databuf, req, out, handle>>

-----------------------------------------------------------------------------
(* cdvdman_CdSearchFile.                                                   *)

\* Start looking in the directory (or the path table) at lsn for segment seg.
LookIn(t, lsn, size, seg) ==
  /\ pc' = [pc EXCEPT ![t] = "dirs"]
  /\ databuf' = Loaded(lsn)
  /\ scan' = [scan EXCEPT ![t] = ScanFrom(lsn, size, seg, 0)]
  /\ srch_sema' = 0

\* The outer loop: a directory to look in while the segment is not a file's
\* name; then SignalSema and cdvdman_CdReturnFileInfo.
Descend(t, lsn, seg) ==
  \/ /\ ~IsFileName(req[t].path, seg)
     /\ LookIn(t, lsn, DirLen(Loaded(lsn)), seg)
  \/ /\ IsFileName(req[t].path, seg)
     /\ pc' = [pc EXCEPT ![t] = "again"]
     /\ scan' = [scan EXCEPT ![t] = ScanFrom(lsn, 0, seg, 0)]
     /\ srch_sema' = 1
     /\ UNCHANGED databuf

\* "return 0" and "return -1": the semaphore is not signalled.
NotHere(t) ==
  /\ pc' = [pc EXCEPT ![t] = "ret"]
  /\ out' = [out EXCEPT ![t] = NotFound]
  /\ srch_sema' = 0
  /\ UNCHANGED <<databuf, scan>>

TakeSrch(t) ==
  /\ pc[t] = "srch" /\ srch_sema = 1
  /\ LET layer == req[t].layer IN
     \/ /\ ~ValidLayer(layer)
        /\ NotHere(t)
     \/ /\ ValidLayer(layer) /\ IsFileName(req[t].path, 1)
        /\ Descend(t, Root[layer], 1)
        /\ UNCHANGED out
     \/ /\ ValidLayer(layer) /\ ~IsFileName(req[t].path, 1)
        /\ LookIn(t, PathTable[layer], PathTableLen[layer], 1)
        /\ UNCHANGED out
  /\ UNCHANGED <<fio_sema, req, handle>>

\* A turn of the loop over the path table or over a directory's records.
DirTurn(t) ==
  /\ pc[t] = "dirs"
  /\ LET s == scan[t] IN
     \/ /\ s.off > s.size
        /\ NotHere(t)
     \/ /\ s.off <= s.size
        /\ Named(s, req[t].path[s.seg])
        /\ Descend(t, ExtentOf(Rec(s), req[t].layer), s.seg + 1)
        /\ UNCHANGED out
     \/ /\ s.off <= s.size
        /\ ~Named(s, req[t].path[s.seg])
        /\ scan' = [scan EXCEPT ![t] = Turn(s)]
        /\ databuf' = TurnBuf(s)
        /\ UNCHANGED <<pc, srch_sema, out>>
  /\ UNCHANGED <<fio_sema, req, handle>>

-----------------------------------------------------------------------------
(* cdvdman_CdReturnFileInfo.                                               *)

\* Fault: the record of the parent directory is listed.
FileIdWithParent(t) == IF req[t].op = "dread" THEN handle[t].offset + 2 ELSE 0

\* An entry is found by its number, after the records of the directory and
\* of its parent, or by the name in the path's segment.
FileId(t) == IF req[t].op = "dread" THEN handle[t].offset + 3 ELSE 0

\* Fault: cdvdman_CdReturnFileInfo does not wait for srch_sema again.
TakeSrchAgainNoWait(t) ==
  /\ pc[t] = "again"
  /\ srch_sema' = 0
  /\ databuf' = Loaded(scan[t].lsn)
  /\ scan' = [scan EXCEPT ![t] = ScanFrom(@.lsn, DirLen(databuf'), @.seg, FileId(t))]
  /\ pc' = [pc EXCEPT ![t] = "info"]
  /\ UNCHANGED <<fio_sema, req, out, handle>>

TakeSrchAgain(t) ==
  /\ pc[t] = "again" /\ srch_sema = 1
  /\ srch_sema' = 0
  /\ databuf' = Loaded(scan[t].lsn)
  /\ scan' = [scan EXCEPT ![t] = ScanFrom(@.lsn, DirLen(databuf'), @.seg, FileId(t))]
  /\ pc' = [pc EXCEPT ![t] = "info"]
  /\ UNCHANGED <<fio_sema, req, out, handle>>

\* The record this turn ends on; a blank one has the empty name.
Wanted(t) ==
  IF req[t].op = "dread" THEN scan[t].left = 1
  ELSE Named(scan[t], req[t].path[scan[t].seg])

Entry(t) ==
  IF AtBlank(scan[t]) THEN [NotFound EXCEPT !.name = ""]
  ELSE Located(Rec(scan[t]), req[t].layer)

InfoTurn(t) ==
  /\ pc[t] = "info"
  /\ LET s == scan[t] IN
     \/ /\ s.off >= s.size
        /\ NotHere(t)
     \/ /\ s.off < s.size
        /\ scan' = [scan EXCEPT ![t] = [Turn(s) EXCEPT !.left =
                      IF req[t].op = "dread" THEN @ - 1 ELSE @]]
        /\ databuf' = TurnBuf(s)
        /\ IF Wanted(t)
           THEN /\ out' = [out EXCEPT ![t] = Entry(t)]
                /\ pc' = [pc EXCEPT ![t] = "ret"]
                /\ srch_sema' = 1
           ELSE UNCHANGED <<out, pc, srch_sema>>
  /\ UNCHANGED <<fio_sema, req, handle>>

-----------------------------------------------------------------------------
(* The end of a call.                                                      *)

Found(t) == out[t] # NotFound

\* cdvdman_open fills a handle; a banned module is replaced by a copy of the
\* dummy, in memory (of size 1 here).
IsBanned(t) ==
  req[t].op = "open" /\ \E i \in DOMAIN req[t].path : req[t].path[i] \in Banned
Opened(t) ==
  IF IsBanned(t)
  THEN [NoHandle EXCEPT !.size = 1, !.layer = req[t].layer, !.banned = TRUE]
  ELSE [NoHandle EXCEPT !.lsn = out[t].loc, !.size = out[t].size, !.dir = out[t].dir,
                        !.layer = req[t].layer]

\* A dread that found an entry moves on; "listed" is what it returned so far,
\* "ended" that it returned 0, the length of an empty name or a failure.
AfterDread(t) ==
  LET h == handle[t] IN
  [h EXCEPT !.offset = IF Found(t) THEN @ + 1 ELSE @,
            !.listed = IF Found(t) /\ out[t].name # "" THEN Append(@, out[t].name) ELSE @,
            !.ended = ~Found(t) \/ out[t].name = ""]

\* Fault: the dread that finds no more entries does not signal fio_sema.
ReturnKeepingFio(t) ==
  /\ pc[t] = "ret"
  /\ pc' = [pc EXCEPT ![t] = "idle"]
  /\ fio_sema' = IF req[t].op = "search" \/ AfterDread(t).ended THEN fio_sema ELSE 1
  /\ handle' = [handle EXCEPT ![t] =
       IF req[t].op \in {"open", "dopen"} /\ Found(t) THEN Opened(t)
       ELSE IF req[t].op = "dread" THEN AfterDread(t) ELSE @]
  /\ req' = [req EXCEPT ![t] = NoRequest]
  /\ scan' = [scan EXCEPT ![t] = NoScan]
  /\ out' = [out EXCEPT ![t] = NotFound]
  /\ UNCHANGED <<srch_sema, databuf>>

Return(t) ==
  /\ pc[t] = "ret"
  /\ pc' = [pc EXCEPT ![t] = "idle"]
  /\ fio_sema' = IF req[t].op = "search" THEN fio_sema ELSE 1
  /\ handle' = [handle EXCEPT ![t] =
       IF req[t].op \in {"open", "dopen"} /\ Found(t) THEN Opened(t)
       ELSE IF req[t].op = "dread" THEN AfterDread(t) ELSE @]
  /\ req' = [req EXCEPT ![t] = NoRequest]
  /\ scan' = [scan EXCEPT ![t] = NoScan]
  /\ out' = [out EXCEPT ![t] = NotFound]
  /\ UNCHANGED <<srch_sema, databuf>>

Step(t) ==
  \/ TakeFio(t) \/ TakeSrch(t) \/ DirTurn(t)
  \/ TakeSrchAgain(t) \/ InfoTurn(t) \/ Return(t)

Next == \E t \in Threads : Call(t) \/ Close(t) \/ Step(t)

\* Semaphores with attribute 0 wake their waiters in the order they came.
Fairness ==
  \A t \in Threads : /\ SF_vars(TakeFio(t)) /\ SF_vars(TakeSrch(t))
                     /\ SF_vars(TakeSrchAgain(t))
                     /\ WF_vars(DirTurn(t)) /\ WF_vars(InfoTurn(t)) /\ WF_vars(Return(t))

Spec == Init /\ [][Next]_vars
FairSpec == Spec /\ Fairness

-----------------------------------------------------------------------------
(* What a search promises, from the disc alone.                            *)

\* The records of n sectors, and of a directory: those of all its sectors.
Span(lsn, n) == FlattenSeq([i \in 1..n |-> Records(lsn + i - 1)])
Sectors(d) == d.size \div SectorLen
Entries(d) == IF ~d.dir THEN <<>> ELSE Span(d.loc, Sectors(d))

EntryNamed(d, name, layer) ==
  LET hits == {i \in DOMAIN Entries(d) : Entries(d)[i].name = name} IN
  IF hits = {} THEN NotFound
  ELSE Located(Entries(d)[CHOOSE i \in hits : TRUE], layer)

\* The records along a path, one segment after the other from the root.
RootDir(layer) ==
  [NotFound EXCEPT !.loc = Root[layer], !.size = DirLen(Root[layer]), !.dir = TRUE]
Along(path, layer) ==
  LET at[i \in 0..Len(path)] ==
        IF i = 0 THEN RootDir(layer) ELSE EntryNamed(at[i - 1], path[i], layer)
  IN at

\* The record a path leads to.
Lookup(path, layer) ==
  IF layer = 0 \/ (layer = 1 /\ LayerBreak > 0) THEN Along(path, layer)[Len(path)] ELSE NotFound

\* The record of the directory a handle is open on.
DirOf(h) == [NotFound EXCEPT !.loc = h.lsn, !.size = h.size, !.dir = TRUE]
Names(entries) == [i \in DOMAIN entries |-> entries[i].name]

-----------------------------------------------------------------------------
(* The requests that the search does serve: see the README for the others.  *)

\* Is d a directory in the image, and its own record the one that leads to it?
Sound(d) ==
  /\ d.dir /\ d.loc \in 1..LastLsn /\ Sectors(d) >= 1 /\ d.loc + Sectors(d) - 1 <= LastLsn
  /\ DirLen(d.loc) = d.size

Nowhere(name) == \A n \in 1..LastLsn : \A i \in DOMAIN Disc[n] : Disc[n][i].name # name
FirstNamed(recs, j, name) ==
  j \in DOMAIN recs /\ recs[j].name = name /\ \A i \in 1..(j - 1) : recs[i].name # name
OneNamed(recs, name) ==
  \E j \in DOMAIN recs : \A i \in DOMAIN recs : recs[i].name = name <=> i = j

\* The path table leads to the directory of the root that has the name.
TableLeads(layer, name, loc) ==
  LET lsn == PathTable[layer]
      n == PathTableLen[layer] \div SectorLen + 1
      recs == Span(lsn, n)
  IN /\ lsn \in 1..LastLsn /\ lsn + n - 1 <= LastLsn
     /\ \E j \in 1..(PathTableLen[layer] + 1) :
          FirstNamed(recs, j, name) /\ ExtentOf(recs[j], layer) = loc

\* Each segment of the path is in the directory before it, once, or nowhere on the disc; and
\* only the last has a '.'.
Served(path, layer) ==
  LET at == Along(path, layer)
      Ends(i) == \E k \in 1..i : Nowhere(path[k])
  IN /\ \A i \in 1..Len(path) :
          \/ Ends(i - 1)
          \/ Nowhere(path[i]) /\ ~at[i - 1].dir
          \/ Sound(at[i - 1]) /\ (Nowhere(path[i]) \/ OneNamed(Entries(at[i - 1]), path[i]))
     /\ \A i \in 1..(Len(path) - 1) : path[i] \notin Dotted
     /\ Len(path) > 1 => Nowhere(path[1]) \/ TableLeads(layer, path[1], at[1].loc)

\* A directory of one sector that begins with its own record and its parent's.
Listable(d) ==
  /\ Sound(d) /\ Sectors(d) = 1 /\ Len(Disc[d.loc]) >= 2
  /\ \A i \in DOMAIN Disc[d.loc] : Disc[d.loc][i].name \notin {"", "none"}

RequestsServed ==
  \A t \in Threads : \A r \in Requests[t] : ValidLayer(r.layer) =>
    /\ Served(r.path, r.layer)
    /\ LET d == Lookup(r.path, r.layer) IN r.op \in {"open", "dopen"} /\ d.dir => Listable(d)

-----------------------------------------------------------------------------
(* Properties.                                                             *)

Searching == {"dirs", "info"}
Pcs == {"idle", "fio", "srch", "again", "ret"} \cup Searching
Scans == [lsn : Nat, idx : Nat, off : Nat, size : Nat, seg : Nat, left : Int]
Handles == [lsn : Nat, size : Nat, offset : Nat, dir : BOOLEAN, layer : Nat,
            banned : BOOLEAN, listed : Seq(AllNames), ended : BOOLEAN]

\* The search: an entry looked for by its number is not passed.
SearchOK ==
  /\ srch_sema \in {0, 1} /\ databuf \in 0..LastLsn
  /\ pc \in [Threads -> Pcs] /\ scan \in [Threads -> Scans]
  /\ \A t \in Threads : /\ scan[t].idx >= 1
                        /\ pc[t] = "info" /\ req[t].op = "dread" => scan[t].left >= 1

\* The calls.
CallsOK ==
  /\ fio_sema \in {0, 1}
  /\ req \in [Threads -> [op : ByName \cup {"none", "dread"}, path : Seq(AllNames), layer : Nat]]
  /\ out \in [Threads -> DirRec]
  /\ handle \in [Threads -> Handles]

\* Types of the variables of the search and of the calls (cdvdman_CdReturn-
\* FileInfo never counts past the entry it is asked for).
TypeOK == SearchOK /\ CallsOK

\* What a call of cdvdman_CdSearchFile returns is what the path leads to on
\* the disc, whichever thread used databuf and the semaphores meanwhile.
SearchIsLookup ==
  \A t \in Threads : pc[t] = "ret" /\ req[t].op \in ByName =>
    out[t] = Lookup(req[t].path, req[t].layer)

\* While a search reads records, databuf holds the sector it read: nobody
\* else searches, though a search of sceCdSearchFile takes no fio_sema and
\* the search of a path lets go of srch_sema half way (line 800).
BufferMine ==
  \A t \in Threads : pc[t] \in Searching =>
    /\ srch_sema = 0
    /\ scan[t].lsn \in 1..LastLsn => databuf = scan[t].lsn
    /\ \A u \in Threads \ {t} : pc[u] \notin Searching

\* dread, called until it returns 0, gives the directory's entries after its
\* own record and its parent's, in order, each once, all of them.
ListingExact ==
  \A t \in Threads : LET h == handle[t] IN h.dir =>
    LET entries == Entries(DirOf(h))
        all == SubSeq(Names(entries), 3, Len(entries))
    IN IsPrefix(h.listed, all) /\ (h.ended => h.listed = all)

\* A search failed: it has kept srch_sema, and nobody searches.
SemaLost == srch_sema = 0 /\ \A t \in Threads : pc[t] \notin Searching

\* Every call of a search function or of the cdrom device returns, unless a
\* search has failed: through srch_sema inside fio_sema, through the two waits
\* of a search by path and through the loops over records.
SearchesReturn ==
  \A t \in Threads : pc[t] # "idle" ~> pc[t] = "idle" \/ SemaLost

=============================================================================
