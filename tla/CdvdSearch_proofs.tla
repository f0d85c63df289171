------------------------ MODULE CdvdSearch_proofs ------------------------
(***************************************************************************)
(* Proofs about the file search: types; that the static buffer is used by  *)
(* one search at a time; and that a search finds what its path leads to    *)
(* and a listing lists the directory, for the requests it serves.          *)
(* The one fact a step of a search rests on is that a search past TakeSrch *)
(* or TakeSrchAgain holds the semaphore, so nobody else can pass there:    *)
(* errors keep it taken, which is safe.  What a search finds is the first  *)
(* record with the name in what it has still to pass.                      *)
(***************************************************************************)
EXTENDS CdvdSearch, SequenceTheorems, WellFoundedInduction, TLAPS

\* What the buffer holds is a sequence of well-formed records.
LEMMA RecordsTyping ==
  ASSUME NEW buf \in 0..LastLsn
  PROVE  /\ Records(buf) \in Seq(DirRec)
         /\ DirLen(buf) \in Nat
<1>1. Records(buf) \in Seq(DirRec)
  BY DiscAssumption DEF Records, LastLsn
<1>2. Records(buf) # <<>> => Records(buf)[1] \in DirRec
  BY <1>1
<1>. QED
  BY <1>1, <1>2 DEF DirLen, DirRec

\* A read leaves a sector in the buffer, or the one that was there.
LEMMA LoadedTyping ==
  ASSUME databuf \in 0..LastLsn, NEW lsn \in Nat
  PROVE  /\ Loaded(lsn) \in 0..LastLsn
         /\ lsn \in 1..LastLsn => Loaded(lsn) = lsn
  BY DiscAssumption DEF Loaded, LastLsn

\* The record a search looks at, and the entry it makes of it.
LEMMA RecTyping ==
  ASSUME databuf \in 0..LastLsn, NEW s \in Scans, s.idx >= 1, ~AtBlank(s)
  PROVE  Rec(s) \in DirRec
  BY RecordsTyping DEF AtBlank, Rec, Scans

\* The LSN of an extent is a natural number on either layer.
LEMMA ExtentTyping ==
  ASSUME NEW rec \in DirRec, NEW layer \in Nat
  PROVE  ExtentOf(rec, layer) \in Nat
  BY DiscAssumption DEF ExtentOf, DirRec

\* A turn of a loop keeps the types of its locals and of the buffer.
LEMMA TurnTyping ==
  ASSUME databuf \in 0..LastLsn, NEW s \in Scans, s.idx >= 1
  PROVE  /\ Turn(s) \in Scans /\ Turn(s).idx >= 1
         /\ TurnBuf(s) \in 0..LastLsn
         /\ Turn(s).left = s.left
         /\ ~AtBlank(s) => Turn(s).lsn = s.lsn
         /\ Turn(s).lsn \in 1..LastLsn => \/ TurnBuf(s) = Turn(s).lsn
                                          \/ ~AtBlank(s) /\ TurnBuf(s) = databuf
<1>1. NextLsn(s.lsn) \in Nat
  BY DiscAssumption DEF NextLsn, Scans, LastLsn
<1>2. Loaded(NextLsn(s.lsn)) \in 0..LastLsn
       /\ (NextLsn(s.lsn) \in 1..LastLsn => Loaded(NextLsn(s.lsn)) = NextLsn(s.lsn))
  BY <1>1, LoadedTyping
<1>3. CASE AtBlank(s)
  <2>1. Turn(s) = [s EXCEPT !.lsn = NextLsn(s.lsn), !.idx = 1]
         /\ TurnBuf(s) = Loaded(NextLsn(s.lsn))
    BY <1>3 DEF Turn, TurnBuf
  <2>2. Turn(s) \in Scans
    <3>1. ASSUME NEW n \in Nat PROVE [s EXCEPT !.lsn = n, !.idx = 1] \in Scans
      BY DEF Scans
    <3>. QED
      BY <1>1, <2>1, <3>1
  <2>3. Turn(s).idx = 1 /\ Turn(s).left = s.left /\ Turn(s).lsn = NextLsn(s.lsn)
    BY <2>1 DEF Scans
  <2>. QED
    BY <1>2, <1>3, <2>1, <2>2, <2>3
<1>4. CASE ~AtBlank(s)
  <2>1. Turn(s) = [s EXCEPT !.idx = s.idx + 1, !.off = s.off + 1] /\ TurnBuf(s) = databuf
    BY <1>4 DEF Turn, TurnBuf
  <2>2. Turn(s) \in Scans
    <3>1. s.idx + 1 \in Nat /\ s.off + 1 \in Nat
      BY DEF Scans
    <3>. QED
      BY <2>1, <3>1 DEF Scans
  <2>3. Turn(s).idx = s.idx + 1 /\ Turn(s).left = s.left /\ Turn(s).lsn = s.lsn
    BY <2>1 DEF Scans
  <2>4. s.idx + 1 >= 1
    BY DEF Scans
  <2>. QED
    BY <1>4, <2>1, <2>2, <2>3, <2>4
<1>. QED
  BY <1>3, <1>4

-----------------------------------------------------------------------------
(* Types.                                                                  *)

\* Moving to a new sector.
LEMMA NewScan ==
  ASSUME NEW lsn \in Nat, NEW size \in Nat, NEW seg \in Nat, NEW left \in Int
  PROVE  /\ ScanFrom(lsn, size, seg, left) \in Scans
         /\ ScanFrom(lsn, size, seg, left).idx >= 1
         /\ ScanFrom(lsn, size, seg, left).lsn = lsn
         /\ ScanFrom(lsn, size, seg, left).left = left
  BY DEF ScanFrom, Scans

\* A thread's own part of scan and pc changes, the others' stay.
LEMMA OneThread ==
  ASSUME SearchOK, NEW t \in Threads, NEW p \in Pcs, NEW s \in Scans, s.idx >= 1,
         req' = req,
         p = "info" /\ req[t].op = "dread" => s.left >= 1,
         pc' = [pc EXCEPT ![t] = p], scan' = [scan EXCEPT ![t] = s],
         srch_sema' \in {0, 1}, databuf' \in 0..LastLsn
  PROVE  SearchOK'
<1>1. pc' \in [Threads -> Pcs] /\ scan' \in [Threads -> Scans]
  BY DEF SearchOK
<1>2. ASSUME NEW u \in Threads
      PROVE  scan'[u].idx >= 1 /\ (pc'[u] = "info" /\ req'[u].op = "dread" => scan'[u].left >= 1)
  <2>1. CASE u = t
    BY <2>1 DEF SearchOK
  <2>2. CASE u # t
    BY <2>2 DEF SearchOK
  <2>. QED
    BY <2>1, <2>2
<1>. QED
  BY <1>1, <1>2 DEF SearchOK

\* Opening a directory or the path table keeps the types.
LEMMA LookInTyping ==
  ASSUME SearchOK, req' = req, NEW t \in Threads,
         NEW lsn \in Nat, NEW size \in Nat, NEW seg \in Nat, LookIn(t, lsn, size, seg)
  PROVE  SearchOK'
<1>1. databuf' \in 0..LastLsn
  BY LoadedTyping DEF LookIn, SearchOK
<1>. DEFINE s == ScanFrom(lsn, size, seg, 0)
<1>2. s \in Scans /\ s.idx >= 1
  BY NewScan
<1>3. pc' = [pc EXCEPT ![t] = "dirs"] /\ scan' = [scan EXCEPT ![t] = s] /\ srch_sema' \in {0, 1}
  BY DEF LookIn
<1>4. "dirs" \in Pcs
  BY DEF Pcs, Searching
<1>. HIDE DEF s
<1>. QED
  BY <1>1, <1>2, <1>3, <1>4, OneThread

\* Going on to the next segment of the path keeps the types.
LEMMA DescendTyping ==
  ASSUME SearchOK, req' = req, NEW t \in Threads,
         NEW lsn \in Nat, NEW seg \in Nat, Descend(t, lsn, seg)
  PROVE  SearchOK'
<1>1. CASE LookIn(t, lsn, DirLen(Loaded(lsn)), seg)
  <2>1. DirLen(Loaded(lsn)) \in Nat
    BY LoadedTyping, RecordsTyping DEF SearchOK
  <2>. QED
    BY <1>1, <2>1, LookInTyping
<1>2. CASE IsFileName(req[t].path, seg) /\ ~LookIn(t, lsn, DirLen(Loaded(lsn)), seg)
  <2>. DEFINE s == ScanFrom(lsn, 0, seg, 0)
  <2>1. s \in Scans /\ s.idx >= 1
    BY NewScan
  <2>2. /\ pc' = [pc EXCEPT ![t] = "again"] /\ scan' = [scan EXCEPT ![t] = s]
        /\ srch_sema' \in {0, 1} /\ databuf' \in 0..LastLsn
    BY <1>2 DEF Descend, SearchOK
  <2>3. "again" \in Pcs
    BY DEF Pcs
  <2>. HIDE DEF s
  <2>. QED
    BY <2>1, <2>2, <2>3, OneThread
<1>. QED
  BY <1>1, <1>2 DEF Descend

\* A search that fails keeps the types.
LEMMA NotHereTyping ==
  ASSUME SearchOK, req' = req, NEW t \in Threads, NotHere(t)
  PROVE  SearchOK'
<1>1. "ret" \in Pcs
  BY DEF Pcs
<1>. QED
  BY <1>1 DEF SearchOK, NotHere

\* Every step keeps the types of the search's own variables.
LEMMA SearchTyping == SearchOK /\ CallsOK /\ Next => SearchOK'
<1>. SUFFICES ASSUME SearchOK, CallsOK, NEW t \in Threads, Call(t) \/ Close(t) \/ Step(t)
              PROVE  SearchOK'
  BY DEF Next
<1>1. CASE Call(t)
  <2>1. pc' \in [Threads -> Pcs] /\ \A u \in Threads : pc'[u] = "info" => u # t /\ pc[u] = "info"
    BY <1>1 DEF Call, SearchOK, Pcs
  <2>2. \A u \in Threads : u # t => req'[u] = req[u]
    BY <1>1 DEF Call, CallsOK
  <2>. QED
    BY <1>1, <2>1, <2>2 DEF Call, SearchOK
<1>2. CASE Close(t)
  BY <1>2 DEF Close, SearchOK
<1>3. CASE TakeFio(t)
  <2>1. CASE req[t].op = "dread"
    <3>. DEFINE s == [scan[t] EXCEPT !.lsn = handle[t].lsn]
    <3>1. handle[t].lsn \in Nat /\ scan[t] \in Scans
      BY DEF CallsOK, Handles, SearchOK
    <3>2. s \in Scans /\ s.idx >= 1
      BY <3>1 DEF Scans, SearchOK
    <3>3. scan' = [scan EXCEPT ![t] = s] /\ pc' = [pc EXCEPT ![t] = "again"]
      BY <1>3, <2>1 DEF TakeFio, SearchOK
    <3>4. "again" \in Pcs /\ req' = req /\ srch_sema' \in {0, 1} /\ databuf' \in 0..LastLsn
      BY <1>3 DEF TakeFio, SearchOK, Pcs
    <3>. HIDE DEF s
    <3>. QED
      BY <3>2, <3>3, <3>4, OneThread
  <2>2. CASE req[t].op # "dread"
    BY <1>3, <2>2 DEF TakeFio, SearchOK, Pcs
  <2>. QED
    BY <2>1, <2>2
<1>4. CASE TakeSrch(t)
  <2>. req' = req
    BY <1>4 DEF TakeSrch
  <2>1. CASE NotHere(t)
    BY <2>1, NotHereTyping
  <2>2. CASE ValidLayer(req[t].layer) /\ ~NotHere(t)
    <3>1. req[t].layer \in Layers
      BY <2>2 DEF ValidLayer, Layers
    <3>2. /\ Root[req[t].layer] \in Nat /\ PathTable[req[t].layer] \in Nat
          /\ PathTableLen[req[t].layer] \in Nat
      BY <3>1, DiscAssumption
    <3>3. \/ Descend(t, Root[req[t].layer], 1)
          \/ LookIn(t, PathTable[req[t].layer], PathTableLen[req[t].layer], 1)
      BY <1>4, <2>2 DEF TakeSrch
    <3>. QED
      BY <3>2, <3>3, DescendTyping, LookInTyping
  <2>. QED
    BY <1>4, <2>1, <2>2 DEF TakeSrch
<1>5. CASE DirTurn(t)
  <2>. DEFINE s == scan[t]
  <2>. req' = req
    BY <1>5 DEF DirTurn
  <2>1. s \in Scans /\ s.idx >= 1 /\ s.seg + 1 \in Nat /\ req[t].layer \in Nat
    BY DEF SearchOK, Scans, CallsOK
  <2>2. CASE NotHere(t)
    BY <2>2, NotHereTyping
  <2>3. CASE Named(s, req[t].path[s.seg]) /\ Descend(t, ExtentOf(Rec(s), req[t].layer), s.seg + 1)
    <3>1. Rec(s) \in DirRec
      BY <2>1, <2>3, RecTyping DEF Named, SearchOK
    <3>. QED
      BY <2>1, <2>3, <3>1, ExtentTyping, DescendTyping
  <2>4. CASE scan' = [scan EXCEPT ![t] = Turn(s)] /\ databuf' = TurnBuf(s) /\ pc' = pc /\ srch_sema' = srch_sema
    <3>1. Turn(s) \in Scans /\ Turn(s).idx >= 1 /\ databuf' \in 0..LastLsn
      BY <2>1, <2>4, TurnTyping DEF SearchOK
    <3>2. pc[t] = "dirs" /\ pc' = [pc EXCEPT ![t] = "dirs"] /\ "dirs" \in Pcs /\ srch_sema' \in {0, 1}
      BY <1>5, <2>4 DEF DirTurn, SearchOK, Pcs, Searching
    <3>. QED
      BY <2>4, <3>1, <3>2, OneThread
  <2>5. \/ NotHere(t)
        \/ Named(s, req[t].path[s.seg]) /\ Descend(t, ExtentOf(Rec(s), req[t].layer), s.seg + 1)
        \/ scan' = [scan EXCEPT ![t] = Turn(s)] /\ databuf' = TurnBuf(s) /\ pc' = pc /\ srch_sema' = srch_sema
    BY <1>5, Zenon DEF DirTurn
  <2>. QED
    BY <2>2, <2>3, <2>4, <2>5
<1>6. CASE TakeSrchAgain(t)
  <2>1. databuf' \in 0..LastLsn
    BY <1>6, LoadedTyping DEF TakeSrchAgain, SearchOK, Scans
  <2>2. DirLen(databuf') \in Nat
    BY <2>1, RecordsTyping
  <2>3. FileId(t) \in Int /\ (req[t].op = "dread" => FileId(t) >= 1)
    BY DEF FileId, CallsOK, Handles
  <2>. DEFINE s == ScanFrom(scan[t].lsn, DirLen(databuf'), scan[t].seg, FileId(t))
  <2>4. scan[t].lsn \in Nat /\ scan[t].seg \in Nat
    BY DEF SearchOK, Scans
  <2>5. s \in Scans /\ s.idx >= 1 /\ s.left = FileId(t)
    <3>1. PICK lsn \in Nat, seg \in Nat, size \in Nat, left \in Int :
            lsn = scan[t].lsn /\ seg = scan[t].seg /\ size = DirLen(databuf') /\ left = FileId(t)
      BY <2>2, <2>3, <2>4
    <3>2. s = ScanFrom(lsn, size, seg, left)
      BY <3>1
    <3>. QED
      BY <3>1, <3>2 DEF ScanFrom, Scans
  <2>6. /\ pc' = [pc EXCEPT ![t] = "info"] /\ scan' = [scan EXCEPT ![t] = s]
        /\ srch_sema' \in {0, 1} /\ req' = req /\ "info" \in Pcs
    BY <1>6 DEF TakeSrchAgain, Pcs, Searching, SearchOK
  <2>. HIDE DEF s
  <2>. QED
    BY <2>1, <2>3, <2>5, <2>6, OneThread
<1>7. CASE InfoTurn(t)
  <2>. req' = req
    BY <1>7 DEF InfoTurn
  <2>1. CASE NotHere(t)
    BY <2>1, NotHereTyping
  <2>2. CASE ~NotHere(t)
    <3>. DEFINE turn == Turn(scan[t])
    <3>. DEFINE s == [turn EXCEPT !.left = IF req[t].op = "dread" THEN turn.left - 1 ELSE turn.left]
    <3>1. scan[t] \in Scans /\ scan[t].idx >= 1
      BY DEF SearchOK
    <3>2. turn \in Scans /\ turn.idx >= 1 /\ turn.left = scan[t].left /\ TurnBuf(scan[t]) \in 0..LastLsn
      BY <3>1, TurnTyping DEF SearchOK
    <3>3. turn.left \in Int
      BY <3>2 DEF Scans
    <3>. HIDE DEF turn
    <3>4. s \in Scans
      BY <3>2, <3>3 DEF Scans
    <3>5. s.idx >= 1 /\ (req[t].op = "dread" => s.left = scan[t].left - 1)
      BY <3>2, <3>3 DEF Scans
    <3>6. scan' = [scan EXCEPT ![t] = s] /\ databuf' = TurnBuf(scan[t])
      BY <1>7, <2>2 DEF InfoTurn, turn
    <3>7. \/ pc' = [pc EXCEPT ![t] = "ret"] /\ srch_sema' = 1
          \/ pc' = pc /\ srch_sema' = srch_sema /\ (req[t].op = "dread" => scan[t].left # 1)
      BY <1>7, <2>2 DEF InfoTurn, Wanted
    <3>. HIDE DEF s
    <3>8. CASE pc' = [pc EXCEPT ![t] = "ret"] /\ srch_sema' = 1
      <4>1. "ret" \in Pcs
        BY DEF Pcs
      <4>. QED
        BY <3>2, <3>4, <3>5, <3>6, <3>8, <4>1, OneThread
    <3>9. CASE pc' = pc /\ srch_sema' = srch_sema /\ (req[t].op = "dread" => scan[t].left # 1)
      <4>1. pc[t] = "info" /\ pc' = [pc EXCEPT ![t] = "info"] /\ "info" \in Pcs
        BY <1>7, <3>9 DEF InfoTurn, SearchOK, Pcs, Searching
      <4>2. req[t].op = "dread" => scan[t].left >= 1 /\ scan[t].left \in Int
        BY <1>7 DEF InfoTurn, SearchOK, Scans
      <4>3. req[t].op = "dread" => s.left >= 1
        BY <3>5, <3>9, <4>2
      <4>4. srch_sema' \in {0, 1}
        BY <3>9 DEF SearchOK
      <4>. QED
        BY <3>2, <3>4, <3>5, <3>6, <4>1, <4>3, <4>4, OneThread
    <3>. QED
      BY <3>7, <3>8, <3>9
  <2>. QED
    BY <2>1, <2>2
<1>8. CASE Return(t)
  <2>1. pc' = [pc EXCEPT ![t] = "idle"] /\ scan' = [scan EXCEPT ![t] = NoScan]
    BY <1>8 DEF Return
  <2>2. NoScan \in Scans /\ NoScan.idx >= 1
    BY NewScan DEF NoScan
  <2>3. \A u \in Threads : u # t => req'[u] = req[u]
    BY <1>8 DEF Return, CallsOK
  <2>. QED
    BY <1>8, <2>1, <2>2, <2>3 DEF Return, SearchOK, Pcs
<1>. QED
  BY <1>1, <1>2, <1>3, <1>4, <1>5, <1>6, <1>7, <1>8 DEF Step

\* Every step keeps the types of the calls and of the handles.
LEMMA CallsTyping == SearchOK /\ CallsOK /\ Next => CallsOK'
<1>. SUFFICES ASSUME SearchOK, CallsOK, NEW t \in Threads, Call(t) \/ Close(t) \/ Step(t)
              PROVE  CallsOK'
  BY DEF Next
<1>0. NotFound \in DirRec /\ NoHandle \in Handles
      /\ NoRequest \in [op : ByName \cup {"none", "dread"}, path : Seq(AllNames), layer : Nat]
  <2>1. NotFound \in DirRec
    BY DEF NotFound, DirRec, AllNames
  <2>2. NoHandle \in Handles
    BY DEF NoHandle, Handles
  <2>3. NoRequest \in [op : ByName \cup {"none", "dread"}, path : Seq(AllNames), layer : Nat]
    BY DEF NoRequest
  <2>. QED
    BY <2>1, <2>2, <2>3
<1>1. CASE Call(t)
  <2>1. CASE \E r \in Requests[t] : req' = [req EXCEPT ![t] = r]
    BY <1>1, <2>1, RequestsAssumption DEF Call, CallsOK
  <2>2. CASE req' = [req EXCEPT ![t] = Dread(handle[t].layer)]
    <3>1. Dread(handle[t].layer)
            \in [op : ByName \cup {"none", "dread"}, path : Seq(AllNames), layer : Nat]
      BY DEF Dread, CallsOK, Handles
    <3>. QED
      BY <1>1, <2>2, <3>1 DEF Call, CallsOK
  <2>. QED
    BY <1>1, <2>1, <2>2 DEF Call
<1>2. CASE Close(t)
  BY <1>0, <1>2 DEF Close, CallsOK
<1>3. CASE TakeFio(t)
  BY <1>3 DEF TakeFio, CallsOK
<1>4. CASE TakeSrch(t)
  BY <1>0, <1>4 DEF TakeSrch, NotHere, CallsOK
<1>5. CASE DirTurn(t)
  BY <1>0, <1>5 DEF DirTurn, NotHere, CallsOK
<1>6. CASE TakeSrchAgain(t)
  BY <1>6 DEF TakeSrchAgain, CallsOK
<1>7. CASE InfoTurn(t)
  <2>1. scan[t] \in Scans /\ scan[t].idx >= 1 /\ req[t].layer \in Nat
    BY DEF SearchOK, CallsOK
  <2>2. Entry(t) \in DirRec
    <3>1. CASE AtBlank(scan[t])
      BY <1>0, <3>1 DEF Entry, NotFound, DirRec, AllNames
    <3>2. CASE ~AtBlank(scan[t])
      <4>1. Rec(scan[t]) \in DirRec
        BY <2>1, <3>2, RecTyping DEF SearchOK
      <4>2. ExtentOf(Rec(scan[t]), req[t].layer) \in Nat
        BY <2>1, <4>1, ExtentTyping
      <4>. QED
        BY <3>2, <4>1, <4>2 DEF Entry, Located, DirRec
    <3>. QED
      BY <3>1, <3>2
  <2>. QED
    BY <1>0, <1>7, <2>2, ZenonT(30) DEF InfoTurn, NotHere, CallsOK
<1>8. CASE Return(t)
  <2>1. out[t] \in DirRec /\ handle[t] \in Handles /\ req[t].layer \in Nat
    BY DEF CallsOK
  <2>2. Opened(t) \in Handles
    BY <1>0, <2>1 DEF Opened, Handles, DirRec
  <2>3. AfterDread(t) \in Handles
    <3>. DEFINE h == handle[t]
                o == IF Found(t) THEN h.offset + 1 ELSE h.offset
                l == IF Found(t) /\ out[t].name # "" THEN Append(h.listed, out[t].name) ELSE h.listed
                e == ~Found(t) \/ out[t].name = ""
    <3>0. h.offset \in Nat /\ h.listed \in Seq(AllNames) /\ out[t].name \in AllNames
      BY <2>1 DEF Handles, DirRec
    <3>1. o \in Nat /\ l \in Seq(AllNames) /\ e \in BOOLEAN
      <4>1. o \in Nat
        BY <3>0
      <4>2. l \in Seq(AllNames)
        <5>1. Append(h.listed, out[t].name) \in Seq(AllNames)
          BY <3>0
        <5>. QED
          BY <3>0, <5>1, Zenon
      <4>3. e \in BOOLEAN
        <5>1. CASE Found(t) /\ out[t].name # ""
          BY <5>1
        <5>2. CASE ~(Found(t) /\ out[t].name # "")
          BY <5>2
        <5>. QED
          BY <5>1, <5>2
      <4>. QED
        BY <4>1, <4>2, <4>3
    <3>2. AfterDread(t) = [h EXCEPT !.offset = o, !.listed = l, !.ended = e]
      BY Zenon DEF AfterDread
    <3>. HIDE DEF o, l, e
    <3>. QED
      BY <2>1, <3>1, <3>2 DEF Handles
  <2>. QED
    BY <1>0, <1>8, <2>2, <2>3 DEF Return, CallsOK
<1>. QED
  BY <1>1, <1>2, <1>3, <1>4, <1>5, <1>6, <1>7, <1>8 DEF Step

\* The variables keep their types, and a search by number does not pass its
\* entry, on every disc and for every client of the search functions.
THEOREM SearchTypes == Spec => []TypeOK
<1>1. Init => TypeOK
  <2>1. NoScan \in Scans /\ NoScan.idx >= 1
    BY NewScan DEF NoScan
  <2>2. Init => SearchOK
    BY <2>1, DiscAssumption DEF Init, SearchOK, Pcs, LastLsn
  <2>3. NotFound \in DirRec /\ NoHandle \in Handles
    BY DEF NotFound, DirRec, AllNames, NoHandle, Handles
  <2>4. NoRequest \in [op : ByName \cup {"none", "dread"}, path : Seq(AllNames), layer : Nat]
    BY DEF NoRequest
  <2>5. Init => CallsOK
    BY <2>3, <2>4 DEF Init, CallsOK
  <2>. QED
    BY <2>2, <2>5 DEF TypeOK
<1>2. TypeOK /\ [Next]_vars => TypeOK'
  <2>1. CASE Next
    BY <2>1, SearchTyping, CallsTyping DEF TypeOK
  <2>2. CASE UNCHANGED vars
    BY <2>2 DEF vars, TypeOK, SearchOK, CallsOK
  <2>. QED
    BY <2>1, <2>2
<1>. QED
  BY <1>1, <1>2, PTL DEF Spec

-----------------------------------------------------------------------------
(* One search at a time.                                                   *)

\* A thread that starts or goes on reading records has the semaphore and the
\* buffer; the others, which do not read, do not either afterwards.
LEMMA Reads ==
  ASSUME TypeOK, NEW t \in Threads, NEW p \in Pcs, NEW s,
         \A u \in Threads \ {t} : pc[u] \notin Searching,
         srch_sema' = 0, pc' = [pc EXCEPT ![t] = p], scan' = [scan EXCEPT ![t] = s],
         s.lsn \in 1..LastLsn => databuf' = s.lsn
  PROVE  BufferMine'
<1>1. /\ \A u \in Threads : u # t => pc'[u] = pc[u]
      /\ scan'[t] = s
  BY DEF TypeOK, SearchOK
<1>2. \A u \in Threads : pc'[u] \in Searching => u = t
  BY <1>1
<1>3. ASSUME NEW u \in Threads, pc'[u] \in Searching
      PROVE  /\ scan'[u].lsn \in 1..LastLsn => databuf' = scan'[u].lsn
             /\ \A v \in Threads \ {u} : pc'[v] \notin Searching
  BY <1>1, <1>2, <1>3
<1>. QED
  BY <1>3 DEF BufferMine

\* A thread that stops reading, when nobody else is.
LEMMA Stops ==
  ASSUME TypeOK, NEW t \in Threads, NEW p \in Pcs \ Searching,
         \A u \in Threads \ {t} : pc[u] \notin Searching,
         pc' = [pc EXCEPT ![t] = p]
  PROVE  BufferMine'
<1>1. \A u \in Threads : pc'[u] \notin Searching
  BY DEF TypeOK, SearchOK
<1>. QED
  BY <1>1 DEF BufferMine

\* A step that leaves the search alone.
LEMMA Outside ==
  ASSUME BufferMine, srch_sema' = srch_sema, databuf' = databuf,
         \A u \in Threads : pc'[u] \in Searching => pc[u] \in Searching /\ scan'[u] = scan[u]
  PROVE  BufferMine'
  BY DEF BufferMine

\* The static buffer is used by one search at a time, on every disc, and while
\* a search reads records it holds the sector the search read: whatever the
\* calls, their failures included, and although cdvdman_CdSearchFile lets go
\* of srch_sema before it calls cdvdman_CdReturnFileInfo.
THEOREM OneSearch == Spec => []BufferMine
<1>1. Init => BufferMine
  BY DEF Init, BufferMine, Searching
<1>2. TypeOK /\ BufferMine /\ [Next]_vars => BufferMine'
  <2>. SUFFICES ASSUME TypeOK, BufferMine, [Next]_vars PROVE BufferMine'
    OBVIOUS
  <2>0. /\ "idle" \in Pcs \ Searching /\ "fio" \in Pcs \ Searching /\ "srch" \in Pcs \ Searching
        /\ "again" \in Pcs \ Searching /\ "ret" \in Pcs \ Searching
        /\ "dirs" \in Pcs /\ "info" \in Pcs /\ "dirs" \in Searching /\ "info" \in Searching
    BY DEF Pcs, Searching
  <2>1. CASE UNCHANGED vars
    BY <2>1 DEF vars, BufferMine
  <2>2. ASSUME NEW t \in Threads, Call(t) \/ Close(t) \/ TakeFio(t) \/ Return(t)
        PROVE  BufferMine'
    <3>1. srch_sema' = srch_sema /\ databuf' = databuf
      BY <2>2 DEF Call, Close, TakeFio, Return
    <3>2. \A u \in Threads : pc'[u] \in Searching => pc'[u] = pc[u] /\ scan'[u] = scan[u]
      BY <2>2 DEF Call, Close, TakeFio, Return, TypeOK, SearchOK, Searching
    <3>. QED
      BY <3>1, <3>2, Outside
  <2>3. ASSUME NEW t \in Threads, srch_sema = 1 \/ pc[t] \in Searching
        PROVE  \A u \in Threads \ {t} : pc[u] \notin Searching
    BY <2>3 DEF BufferMine
  <2>4. ASSUME NEW t \in Threads, NEW lsn \in Nat, NEW size \in Nat, NEW seg \in Nat,
               LookIn(t, lsn, size, seg), srch_sema = 1 \/ pc[t] \in Searching
        PROVE  BufferMine'
    <3>1. ScanFrom(lsn, size, seg, 0).lsn = lsn /\ (lsn \in 1..LastLsn => databuf' = lsn)
      <4>1. databuf \in 0..LastLsn /\ databuf' = Loaded(lsn)
        BY <2>4 DEF LookIn, TypeOK, SearchOK
      <4>2. ScanFrom(lsn, size, seg, 0).lsn = lsn
        BY DEF ScanFrom
      <4>. QED
        BY <4>1, <4>2, LoadedTyping
    <3>. DEFINE s == ScanFrom(lsn, size, seg, 0)
    <3>2. /\ srch_sema' = 0 /\ pc' = [pc EXCEPT ![t] = "dirs"]
          /\ scan' = [scan EXCEPT ![t] = s]
      BY <2>4 DEF LookIn
    <3>3. \A u \in Threads \ {t} : pc[u] \notin Searching
      BY <2>3, <2>4
    <3>. HIDE DEF s
    <3>4. s.lsn \in 1..LastLsn => databuf' = s.lsn
      BY <3>1 DEF s
    <3>. QED
      BY <2>0, <3>2, <3>3, <3>4, Reads
  <2>5. ASSUME NEW t \in Threads, NEW lsn \in Nat, NEW seg \in Nat,
               Descend(t, lsn, seg), srch_sema = 1 \/ pc[t] \in Searching
        PROVE  BufferMine'
    <3>1. DirLen(Loaded(lsn)) \in Nat
      BY LoadedTyping, RecordsTyping DEF TypeOK, SearchOK
    <3>2. CASE LookIn(t, lsn, DirLen(Loaded(lsn)), seg)
      BY <2>4, <2>5, <3>1, <3>2
    <3>3. CASE pc' = [pc EXCEPT ![t] = "again"]
      BY <2>0, <2>3, <2>5, <3>3, Stops
    <3>. QED
      BY <2>5, <3>2, <3>3 DEF Descend
  <2>6. ASSUME NEW t \in Threads, NotHere(t), srch_sema = 1 \/ pc[t] \in Searching
        PROVE  BufferMine'
    BY <2>0, <2>3, <2>6, Stops DEF NotHere
  <2>7. ASSUME NEW t \in Threads, TakeSrch(t) PROVE BufferMine'
    <3>1. srch_sema = 1
      BY <2>7 DEF TakeSrch
    <3>2. CASE NotHere(t)
      BY <2>6, <3>1, <3>2
    <3>3. CASE ValidLayer(req[t].layer) /\ ~NotHere(t)
      <4>1. /\ Root[req[t].layer] \in Nat /\ PathTable[req[t].layer] \in Nat
            /\ PathTableLen[req[t].layer] \in Nat
        BY <3>3, DiscAssumption DEF ValidLayer, Layers
      <4>2. \/ Descend(t, Root[req[t].layer], 1)
            \/ LookIn(t, PathTable[req[t].layer], PathTableLen[req[t].layer], 1)
        BY <2>7, <3>3 DEF TakeSrch
      <4>. QED
        BY <2>4, <2>5, <3>1, <4>1, <4>2
    <3>. QED
      BY <2>7, <3>2, <3>3 DEF TakeSrch
  <2>8. ASSUME NEW t \in Threads, NEW s, NEW p \in Searching, pc[t] \in Searching,
               s.lsn = Turn(scan[t]).lsn, databuf' = TurnBuf(scan[t]),
               pc' = [pc EXCEPT ![t] = p], scan' = [scan EXCEPT ![t] = s], srch_sema' = srch_sema
        PROVE  BufferMine'
    <3>1. srch_sema = 0 /\ p \in Pcs
      BY <2>8 DEF BufferMine, Pcs
    <3>2. scan[t] \in Scans /\ scan[t].idx >= 1
      BY DEF TypeOK, SearchOK
    <3>3. s.lsn \in 1..LastLsn => databuf' = s.lsn
      BY <2>8, <3>2, TurnTyping DEF BufferMine, TypeOK, SearchOK
    <3>. QED
      BY <2>3, <2>8, <3>1, <3>3, Reads
  <2>9. ASSUME NEW t \in Threads, DirTurn(t) PROVE BufferMine'
    <3>. DEFINE s == scan[t]
    <3>1. pc[t] \in Searching /\ pc[t] = "dirs"
      BY <2>9 DEF DirTurn, Searching
    <3>2. s \in Scans /\ s.idx >= 1 /\ s.seg + 1 \in Nat /\ req[t].layer \in Nat
      BY DEF TypeOK, SearchOK, Scans, CallsOK
    <3>3. CASE NotHere(t)
      BY <2>6, <3>1, <3>3
    <3>4. CASE Named(s, req[t].path[s.seg]) /\ Descend(t, ExtentOf(Rec(s), req[t].layer), s.seg + 1)
      <4>1. Rec(s) \in DirRec
        BY <3>2, <3>4, RecTyping DEF Named, TypeOK, SearchOK
      <4>. QED
        BY <2>5, <3>1, <3>2, <3>4, <4>1, ExtentTyping
    <3>5. CASE scan' = [scan EXCEPT ![t] = Turn(s)] /\ databuf' = TurnBuf(s)
               /\ pc' = pc /\ srch_sema' = srch_sema
      <4>1. pc' = [pc EXCEPT ![t] = "dirs"]
        BY <3>1, <3>5 DEF TypeOK, SearchOK
      <4>. QED
        BY <2>0, <2>8, <3>1, <3>5, <4>1
    <3>. QED
      BY <2>9, <3>3, <3>4, <3>5 DEF DirTurn
  <2>10. ASSUME NEW t \in Threads, TakeSrchAgain(t) PROVE BufferMine'
    <3>1. scan[t].lsn \in Nat
      BY DEF TypeOK, SearchOK, Scans
    <3>2. scan[t].lsn \in 1..LastLsn => databuf' = scan[t].lsn
      BY <2>10, <3>1, LoadedTyping DEF TakeSrchAgain, TypeOK, SearchOK
    <3>. DEFINE s == ScanFrom(scan[t].lsn, DirLen(databuf'), scan[t].seg, FileId(t))
    <3>3. s.lsn = scan[t].lsn
      BY DEF ScanFrom
    <3>4. /\ srch_sema = 1 /\ srch_sema' = 0 /\ pc' = [pc EXCEPT ![t] = "info"]
          /\ scan' = [scan EXCEPT ![t] = s]
      BY <2>10 DEF TakeSrchAgain, TypeOK, SearchOK
    <3>. HIDE DEF s
    <3>. QED
      BY <2>0, <2>3, <3>2, <3>3, <3>4, Reads
  <2>11. ASSUME NEW t \in Threads, InfoTurn(t) PROVE BufferMine'
    <3>1. pc[t] \in Searching /\ pc[t] = "info"
      BY <2>11 DEF InfoTurn, Searching
    <3>2. CASE NotHere(t)
      BY <2>6, <3>1, <3>2
    <3>3. CASE pc' = [pc EXCEPT ![t] = "ret"]
      BY <2>0, <2>3, <3>1, <3>3, Stops
    <3>4. CASE ~NotHere(t) /\ pc' = pc /\ srch_sema' = srch_sema
      <4>. DEFINE turn == Turn(scan[t])
                  s == [turn EXCEPT !.left = IF req[t].op = "dread" THEN turn.left - 1 ELSE turn.left]
      <4>1. turn \in Scans
        BY TurnTyping DEF TypeOK, SearchOK
      <4>2. s.lsn = turn.lsn
        BY <4>1 DEF Scans
      <4>3. scan' = [scan EXCEPT ![t] = s] /\ databuf' = TurnBuf(scan[t])
        BY <2>11, <3>4 DEF InfoTurn
      <4>4. pc' = [pc EXCEPT ![t] = "info"]
        BY <3>1, <3>4 DEF TypeOK, SearchOK
      <4>. HIDE DEF s
      <4>. QED
        BY <2>0, <2>8, <3>1, <3>4, <4>2, <4>3, <4>4
    <3>. QED
      BY <2>11, <3>2, <3>3, <3>4 DEF InfoTurn
  <2>. QED
    BY <2>1, <2>2, <2>7, <2>9, <2>10, <2>11 DEF Next, Step
<1>. QED
  BY <1>1, <1>2, SearchTypes, PTL DEF Spec

-----------------------------------------------------------------------------
(* Induction, and what recursive definitions compute.                      *)

\* Induction over the natural numbers, as they are well-founded.
LEMMA Induction ==
  ASSUME NEW S \in SUBSET Nat, 0 \in S, \A n \in Nat : n \in S => n + 1 \in S
  PROVE  S = Nat
<1>. DEFINE T == Nat \ S
            R == {ss \in Nat \X Nat : ss[1] < ss[2]}
<1>1. IsWellFoundedOn(R, Nat)
  BY NatLessThanWellFounded DEF OpToRel
<1>2. SUFFICES ASSUME T # {} PROVE FALSE
  OBVIOUS
<1>. HIDE DEF R
<1>3. PICK x \in T : \A y \in T : ~(<<y, x>> \in R)
  BY <1>1, <1>2, WFMin
<1>4. x # 0 /\ x - 1 \in Nat /\ x - 1 \notin S
  BY <1>3
<1>5. <<x - 1, x>> \in R
  BY <1>4, <1>3 DEF R
<1>. QED
  BY <1>3, <1>4, <1>5

\* FlattenSeq puts one sequence after the other: its recursive function exists.
LEMMA Flattened ==
  ASSUME NEW s, NEW m \in Nat, Len(s) = m + 1
  PROVE  \E f : /\ f[1] = s[1]
                /\ \A i \in 1..m : f[i + 1] = f[i] \o s[i + 1]
                /\ FlattenSeq(s) = f[m + 1]
<1>0. PICK n \in Nat : n = m + 1
  OBVIOUS
<1>. DEFINE S == {k \in Nat : \E g : g = [i \in 1..k |-> IF i = 1 THEN s[i] ELSE g[i - 1] \o s[i]]}
<1>1. 0 \in S
  <2>. DEFINE g == [i \in 1..0 |-> 0]
  <2>1. g = [i \in 1..0 |-> IF i = 1 THEN s[i] ELSE g[i - 1] \o s[i]]
    OBVIOUS
  <2>. QED
    BY <2>1
<1>2. ASSUME NEW k \in Nat, k \in S PROVE k + 1 \in S
  <2>1. PICK g : g = [i \in 1..k |-> IF i = 1 THEN s[i] ELSE g[i - 1] \o s[i]]
    BY <1>2
  <2>. DEFINE h == [i \in 1..(k + 1) |-> IF i = k + 1 THEN IF i = 1 THEN s[i] ELSE g[k] \o s[k + 1]
                                         ELSE g[i]]
  <2>2. ASSUME NEW i \in 1..(k + 1) PROVE h[i] = IF i = 1 THEN s[i] ELSE h[i - 1] \o s[i]
    <3>1. CASE i = k + 1
      BY <3>1
    <3>2. CASE i # k + 1
      <4>1. i \in 1..k /\ h[i] = g[i]
        BY <3>2
      <4>2. g[i] = IF i = 1 THEN s[i] ELSE g[i - 1] \o s[i]
        BY <4>1, <2>1
      <4>3. i # 1 => h[i - 1] = g[i - 1]
        BY <4>1
      <4>. QED
        BY <4>1, <4>2, <4>3
    <3>. QED
      BY <3>1, <3>2
  <2>3. h = [i \in 1..(k + 1) |-> h[i]]
    OBVIOUS
  <2>. HIDE DEF h
  <2>4. h = [i \in 1..(k + 1) |-> IF i = 1 THEN s[i] ELSE h[i - 1] \o s[i]]
    BY <2>2, <2>3
  <2>5. \E c : c = [i \in 1..(k + 1) |-> IF i = 1 THEN s[i] ELSE c[i - 1] \o s[i]]
    BY <2>4
  <2>6. k + 1 \in Nat
    OBVIOUS
  <2>. QED
    BY <2>5, <2>6
<1>3. n \in S
  <2>. HIDE DEF S
  <2>1. S \in SUBSET Nat
    BY DEF S
  <2>. QED
    BY <1>1, <1>2, <2>1, Induction
<1>4. PICK g : g = CHOOSE h : h = [i \in 1..n |-> IF i = 1 THEN s[i] ELSE h[i - 1] \o s[i]]
  OBVIOUS
<1>5. g = [i \in 1..n |-> IF i = 1 THEN s[i] ELSE g[i - 1] \o s[i]]
  BY <1>3, <1>4
<1>6. FlattenSeq(s) = g[n]
  BY <1>0, <1>4 DEF FlattenSeq
<1>7. g[1] = s[1]
  BY <1>0, <1>5
<1>8. ASSUME NEW i \in 1..m PROVE g[i + 1] = g[i] \o s[i + 1]
  <2>1. i + 1 \in 1..n /\ i + 1 # 1 /\ (i + 1) - 1 = i
    BY <1>0
  <2>2. g[i + 1] = IF i + 1 = 1 THEN s[i + 1] ELSE g[(i + 1) - 1] \o s[i + 1]
    BY <1>5, <2>1
  <2>. QED
    BY <2>1, <2>2
<1>. QED
  BY <1>0, <1>6, <1>7, <1>8

\* The records of some sectors, and of one more.
LEMMA SpanStep ==
  ASSUME NEW lsn \in Nat, NEW n \in Nat, lsn >= 1, lsn + n <= LastLsn,
         Span(lsn, n) \in Seq(DirRec)
  PROVE  Span(lsn, n + 1) = Span(lsn, n) \o Records(lsn + n)
<1>. DEFINE s == [i \in 1..(n + 1) |-> Records(lsn + i - 1)]
            r == [i \in 1..n |-> Records(lsn + i - 1)]
<1>0. LastLsn \in Nat
  BY DiscAssumption DEF LastLsn
<1>1. /\ s \in Seq(Seq(DirRec)) /\ Len(s) = n + 1 /\ r \in Seq(Seq(DirRec)) /\ Len(r) = n
      /\ \A i \in 1..(n + 1) : s[i] = Records(lsn + i - 1)
      /\ \A i \in 1..n : r[i] = s[i]
      /\ Span(lsn, n) = FlattenSeq(r) /\ Span(lsn, n + 1) = FlattenSeq(s)
  <2>1. \A i \in 1..(n + 1) : Records(lsn + i - 1) \in Seq(DirRec)
    BY <1>0, RecordsTyping
  <2>2. s \in Seq(Seq(DirRec)) /\ Len(s) = n + 1
    BY <2>1
  <2>3. r \in Seq(Seq(DirRec)) /\ Len(r) = n
    <3>1. ASSUME NEW i \in 1..n PROVE Records(lsn + i - 1) \in Seq(DirRec)
      <4>1. i \in 1..(n + 1)
        OBVIOUS
      <4>. HIDE DEF s, r
      <4>. QED
        BY <2>1, <4>1
    <3>. QED
      BY <3>1
  <2>4. \A i \in 1..(n + 1) : s[i] = Records(lsn + i - 1)
    OBVIOUS
  <2>5. \A i \in 1..n : r[i] = s[i]
    OBVIOUS
  <2>6. Span(lsn, n) = FlattenSeq(r) /\ Span(lsn, n + 1) = FlattenSeq(s)
    BY DEF Span
  <2>. QED
    BY <2>2, <2>3, <2>4, <2>5, <2>6
<1>. HIDE DEF s, r
<1>2. PICK f : /\ f[1] = s[1]
               /\ \A i \in 1..n : f[i + 1] = f[i] \o s[i + 1]
               /\ FlattenSeq(s) = f[n + 1]
  <2>1. Len(s) = n + 1
    BY <1>1
  <2>. QED
    BY <2>1, Flattened, Zenon
<1>3. CASE n = 0
  <2>1. f[1] = Records(lsn)
    BY <1>1, <1>2, <1>3
  <2>2. FlattenSeq(r) = <<>>
    BY <1>1, <1>3 DEF FlattenSeq
  <2>3. Records(lsn) \in Seq(DirRec)
    BY <1>0, RecordsTyping
  <2>. QED
    BY <1>1, <1>2, <1>3, <2>1, <2>2, <2>3
<1>4. CASE n # 0
  <2>0. PICK l \in Nat : n = l + 1
    <3>1. n - 1 \in Nat /\ n = (n - 1) + 1
      BY <1>4
    <3>. QED
      BY <3>1
  <2>1. PICK g : /\ g[1] = r[1]
                 /\ \A i \in 1..l : g[i + 1] = g[i] \o r[i + 1]
                 /\ FlattenSeq(r) = g[l + 1]
    <3>1. Len(r) = l + 1
      BY <1>1, <2>0
    <3>. QED
      BY <3>1, Flattened, Zenon
  <2>. DEFINE S == {k \in Nat : k \in 1..n => f[k] = g[k]}
  <2>2. 0 \in S
    OBVIOUS
  <2>3. ASSUME NEW k \in Nat, k \in S PROVE k + 1 \in S
    <3>1. SUFFICES ASSUME k + 1 \in 1..n PROVE f[k + 1] = g[k + 1]
      OBVIOUS
    <3>2. CASE k = 0
      BY <1>1, <1>2, <2>1, <3>1, <3>2
    <3>3. CASE k # 0
      <4>1. k \in 1..n /\ k \in 1..l /\ f[k] = g[k]
        BY <2>0, <2>3, <3>1, <3>3
      <4>. HIDE DEF S
      <4>2. f[k + 1] = f[k] \o s[k + 1] /\ g[k + 1] = g[k] \o r[k + 1] /\ r[k + 1] = s[k + 1]
        BY <1>1, <1>2, <2>1, <3>1, <4>1
      <4>. QED
        BY <4>1, <4>2
    <3>. QED
      BY <3>2, <3>3
  <2>. HIDE DEF S
  <2>4. S \in SUBSET Nat
    BY DEF S
  <2>5. n \in S
    BY <2>2, <2>3, <2>4, Induction
  <2>6. f[n] = g[n]
    BY <1>4, <2>5 DEF S
  <2>7. f[n + 1] = f[n] \o s[n + 1]
    <3>1. n \in 1..n
      BY <1>4
    <3>. QED
      BY <1>2, <3>1
  <2>8. s[n + 1] = Records(lsn + n)
    BY <1>1
  <2>. QED
    BY <1>1, <1>2, <2>0, <2>1, <2>6, <2>7, <2>8
<1>. QED
  BY <1>3, <1>4

\* How many records fit in sectors, and which are those of the first q of them.
LEMMA SpanProperties ==
  ASSUME NEW lsn \in Nat, NEW n \in Nat, lsn >= 1, lsn + n - 1 <= LastLsn
  PROVE  /\ Span(lsn, n) \in Seq(DirRec) /\ Len(Span(lsn, n)) <= n * SectorLen
         /\ Span(lsn, 0) = <<>>
<1>. DEFINE S == {k \in Nat : k <= n => /\ Span(lsn, k) \in Seq(DirRec)
                                        /\ Len(Span(lsn, k)) <= k * SectorLen}
<1>0. LastLsn \in Nat /\ SectorLen \in Nat
  BY DiscAssumption DEF LastLsn
<1>1. Span(lsn, 0) = <<>>
  BY DEF Span, FlattenSeq
<1>2. 0 \in S
  <2>1. 0 * SectorLen = 0
    BY <1>0
  <2>2. Span(lsn, 0) \in Seq(DirRec) /\ Len(Span(lsn, 0)) = 0
    BY <1>1, EmptySeq
  <2>3. Len(Span(lsn, 0)) <= 0 * SectorLen
    BY <2>1, <2>2
  <2>. QED
    BY <2>2, <2>3
<1>3. ASSUME NEW k \in Nat, k \in S PROVE k + 1 \in S
  <2>1. SUFFICES ASSUME k + 1 <= n
                 PROVE  /\ Span(lsn, k + 1) \in Seq(DirRec)
                        /\ Len(Span(lsn, k + 1)) <= (k + 1) * SectorLen
    OBVIOUS
  <2>2. Span(lsn, k) \in Seq(DirRec) /\ Len(Span(lsn, k)) <= k * SectorLen /\ k \in Nat
    BY <1>3, <2>1
  <2>. HIDE DEF S
  <2>3. Span(lsn, k + 1) = Span(lsn, k) \o Records(lsn + k)
    <3>1. lsn + k <= LastLsn
      BY <1>0, <2>1
    <3>. QED
      BY <2>2, <3>1, SpanStep, Zenon
  <2>4. Records(lsn + k) \in Seq(DirRec) /\ Len(Records(lsn + k)) <= SectorLen
    <3>1. lsn + k \in 1..LastLsn
      BY <1>0, <2>1
    <3>2. Records(lsn + k) = Disc[lsn + k] /\ Len(Disc[lsn + k]) < SectorLen
      BY <3>1, DiscAssumption DEF Records, LastLsn
    <3>. QED
      BY <1>0, <3>1, <3>2, RecordsTyping
  <2>5. Len(Span(lsn, k + 1)) = Len(Span(lsn, k)) + Len(Records(lsn + k))
        /\ Span(lsn, k + 1) \in Seq(DirRec)
    BY <2>2, <2>3, <2>4, ConcatProperties
  <2>6. (k + 1) * SectorLen = k * SectorLen + SectorLen /\ k * SectorLen \in Nat
    BY <1>0
  <2>. HIDE DEF S
  <2>. QED
    BY <1>0, <2>2, <2>4, <2>5, <2>6
<1>. HIDE DEF S
<1>4. S \in SUBSET Nat
  BY DEF S
<1>5. n \in S
  BY <1>2, <1>3, <1>4, Induction
<1>. QED
  BY <1>1, <1>5 DEF S

\* What is in sector q of them comes after what is in those before it.
LEMMA SpanPlaces ==
  ASSUME NEW lsn \in Nat, NEW n \in Nat, lsn >= 1, lsn + n - 1 <= LastLsn,
         NEW q \in 0..n
  PROVE  /\ Len(Span(lsn, q)) <= Len(Span(lsn, n))
         /\ \A i \in 1..Len(Span(lsn, q)) : Span(lsn, n)[i] = Span(lsn, q)[i]
<1>. DEFINE S == {k \in Nat : q + k <= n =>
                    /\ Len(Span(lsn, q)) <= Len(Span(lsn, q + k))
                    /\ \A i \in 1..Len(Span(lsn, q)) : Span(lsn, q + k)[i] = Span(lsn, q)[i]}
<1>0. LastLsn \in Nat
  BY DiscAssumption DEF LastLsn
<1>1. Span(lsn, q) \in Seq(DirRec)
  BY <1>0, SpanProperties
<1>2. 0 \in S
  BY <1>1
<1>3. ASSUME NEW k \in Nat, k \in S PROVE k + 1 \in S
  <2>1. SUFFICES ASSUME q + (k + 1) <= n
                 PROVE  /\ Len(Span(lsn, q)) <= Len(Span(lsn, q + (k + 1)))
                        /\ \A i \in 1..Len(Span(lsn, q)) : Span(lsn, q + (k + 1))[i] = Span(lsn, q)[i]
    OBVIOUS
  <2>2. /\ Len(Span(lsn, q)) <= Len(Span(lsn, q + k))
        /\ \A i \in 1..Len(Span(lsn, q)) : Span(lsn, q + k)[i] = Span(lsn, q)[i]
    BY <1>3, <2>1
  <2>3. Span(lsn, q + k) \in Seq(DirRec)
    BY <1>0, <2>1, SpanProperties
  <2>4. Span(lsn, (q + k) + 1) = Span(lsn, q + k) \o Records(lsn + (q + k))
    <3>1. lsn + (q + k) <= LastLsn /\ q + k \in Nat
      BY <1>0, <2>1
    <3>. QED
      BY <2>3, <3>1, SpanStep, Zenon
  <2>5. Records(lsn + (q + k)) \in Seq(DirRec)
    BY <1>0, <2>1, RecordsTyping
  <2>6. q + (k + 1) = (q + k) + 1
    OBVIOUS
  <2>. HIDE DEF S
  <2>. QED
    BY <1>1, <2>2, <2>3, <2>4, <2>5, <2>6
<1>. HIDE DEF S
<1>4. S \in SUBSET Nat
  BY DEF S
<1>5. n - q \in S
  BY <1>2, <1>3, <1>4, Induction
<1>6. q + (n - q) = n
  OBVIOUS
<1>. QED
  BY <1>5, <1>6 DEF S

\* A name that is nowhere on the disc is not in any sectors of it.
LEMMA SpanNowhere ==
  ASSUME NEW lsn \in Nat, NEW n \in Nat, lsn >= 1, lsn + n - 1 <= LastLsn,
         NEW name, Nowhere(name)
  PROVE  \A i \in 1..Len(Span(lsn, n)) : Span(lsn, n)[i].name # name
<1>. DEFINE S == {k \in Nat : k <= n => \A i \in 1..Len(Span(lsn, k)) : Span(lsn, k)[i].name # name}
<1>0. LastLsn \in Nat
  BY DiscAssumption DEF LastLsn
<1>1. 0 \in S
  BY <1>0, SpanProperties
<1>2. ASSUME NEW k \in Nat, k \in S PROVE k + 1 \in S
  <2>1. SUFFICES ASSUME k + 1 <= n
                 PROVE  \A i \in 1..Len(Span(lsn, k + 1)) : Span(lsn, k + 1)[i].name # name
    OBVIOUS
  <2>2. \A i \in 1..Len(Span(lsn, k)) : Span(lsn, k)[i].name # name
    BY <1>2, <2>1
  <2>. HIDE DEF S
  <2>3. Span(lsn, k) \in Seq(DirRec)
    BY <1>0, <2>1, SpanProperties
  <2>4. Span(lsn, k + 1) = Span(lsn, k) \o Records(lsn + k)
    <3>1. lsn + k <= LastLsn
      BY <1>0, <2>1
    <3>. QED
      BY <2>3, <3>1, SpanStep, Zenon
  <2>. DEFINE q == lsn + k
  <2>5. q \in 1..LastLsn
    BY <1>0, <2>1
  <2>. HIDE DEF q
  <2>6. Records(q) \in Seq(DirRec) /\ \A i \in 1..Len(Records(q)) : Records(q)[i].name # name
    BY <2>5, RecordsTyping, DiscAssumption DEF Records, Nowhere, LastLsn
  <2>7. Span(lsn, k + 1) = Span(lsn, k) \o Records(q)
    BY <2>4 DEF q
  <2>8. PICK A \in Seq(DirRec), B \in Seq(DirRec) : A = Span(lsn, k) /\ B = Records(q)
    BY <2>3, <2>6
  <2>9. ASSUME NEW i \in 1..Len(A \o B) PROVE (A \o B)[i].name # name
    <3>1. CASE i \in 1..Len(A)
      BY <2>2, <2>8, <3>1
    <3>2. CASE i \notin 1..Len(A)
      <4>1. i - Len(A) \in 1..Len(B) /\ (A \o B)[i] = B[i - Len(A)]
        BY <2>9, <3>2
      <4>. QED
        BY <2>6, <2>8, <4>1
    <3>. QED
      BY <3>1, <3>2
  <2>. QED
    BY <2>7, <2>8, <2>9
<1>. HIDE DEF S
<1>3. S \in SUBSET Nat
  BY DEF S
<1>4. n \in S
  BY <1>1, <1>2, <1>3, Induction
<1>. QED
  BY <1>4 DEF S

-----------------------------------------------------------------------------
(* What a path leads to.                                                   *)

\* The records along a path are those its definition says: it is well-founded.
LEMMA AlongSteps ==
  ASSUME NEW path, Len(path) \in Nat, NEW layer
  PROVE  /\ Along(path, layer)[0] = RootDir(layer)
         /\ \A i \in 1..Len(path) :
              Along(path, layer)[i] = EntryNamed(Along(path, layer)[i - 1], path[i], layer)
<1>. DEFINE S == {k \in Nat : \E g : g = [i \in 0..k |-> IF i = 0 THEN RootDir(layer)
                                                        ELSE EntryNamed(g[i - 1], path[i], layer)]}
<1>1. 0 \in S
  <2>. DEFINE g == [i \in 0..0 |-> RootDir(layer)]
  <2>1. g = [i \in 0..0 |-> IF i = 0 THEN RootDir(layer) ELSE EntryNamed(g[i - 1], path[i], layer)]
    OBVIOUS
  <2>. QED
    BY <2>1
<1>2. ASSUME NEW k \in Nat, k \in S PROVE k + 1 \in S
  <2>1. PICK g : g = [i \in 0..k |-> IF i = 0 THEN RootDir(layer) ELSE EntryNamed(g[i - 1], path[i], layer)]
    BY <1>2
  <2>. DEFINE h == [i \in 0..(k + 1) |-> IF i = k + 1 THEN EntryNamed(g[k], path[k + 1], layer) ELSE g[i]]
  <2>2. ASSUME NEW i \in 0..(k + 1)
        PROVE  h[i] = IF i = 0 THEN RootDir(layer) ELSE EntryNamed(h[i - 1], path[i], layer)
    <3>1. CASE i = k + 1
      <4>1. (k + 1) - 1 = k /\ k \in 0..(k + 1) /\ k # k + 1 /\ k + 1 # 0
        OBVIOUS
      <4>2. h[k] = g[k] /\ h[k + 1] = EntryNamed(g[k], path[k + 1], layer)
        BY <4>1
      <4>. HIDE DEF h
      <4>. QED
        BY <3>1, <4>1, <4>2, Zenon
    <3>2. CASE i # k + 1
      <4>1. i \in 0..k /\ h[i] = g[i]
        BY <3>2
      <4>2. g[i] = IF i = 0 THEN RootDir(layer) ELSE EntryNamed(g[i - 1], path[i], layer)
        BY <4>1, <2>1
      <4>3. i # 0 => h[i - 1] = g[i - 1]
        BY <4>1
      <4>. HIDE DEF h
      <4>. QED
        BY <4>1, <4>2, <4>3, Zenon
    <3>. QED
      BY <3>1, <3>2
  <2>3. h = [i \in 0..(k + 1) |-> h[i]]
    OBVIOUS
  <2>. HIDE DEF h
  <2>4. h = [i \in 0..(k + 1) |-> IF i = 0 THEN RootDir(layer) ELSE EntryNamed(h[i - 1], path[i], layer)]
    BY <2>2, <2>3
  <2>5. \E c : c = [i \in 0..(k + 1) |-> IF i = 0 THEN RootDir(layer) ELSE EntryNamed(c[i - 1], path[i], layer)]
    BY <2>4
  <2>6. k + 1 \in Nat
    OBVIOUS
  <2>. QED
    BY <2>5, <2>6
<1>3. Len(path) \in S
  <2>. HIDE DEF S
  <2>1. S \in SUBSET Nat
    BY DEF S
  <2>. QED
    BY <1>1, <1>2, <2>1, Induction
<1>4. PICK g : g = CHOOSE h : h = [i \in 0..Len(path) |-> IF i = 0 THEN RootDir(layer)
                                                       ELSE EntryNamed(h[i - 1], path[i], layer)]
  OBVIOUS
<1>5. g = [i \in 0..Len(path) |-> IF i = 0 THEN RootDir(layer) ELSE EntryNamed(g[i - 1], path[i], layer)]
  BY <1>3, <1>4
<1>6. Along(path, layer) = g
  BY <1>4 DEF Along
<1>7. g[0] = RootDir(layer)
  BY <1>5
<1>8. ASSUME NEW i \in 1..Len(path) PROVE g[i] = EntryNamed(g[i - 1], path[i], layer)
  <2>1. i \in 0..Len(path) /\ i # 0
    OBVIOUS
  <2>. QED
    BY <1>5, <2>1
<1>. QED
  BY <1>6, <1>7, <1>8

\* The sectors of a directory are in the image.
LEMMA SoundSectors ==
  ASSUME NEW d, Sound(d)
  PROVE  /\ d.loc \in Nat /\ d.size \in Nat
         /\ Sectors(d) \in Nat \ {0} /\ d.loc >= 1 /\ d.loc + Sectors(d) - 1 <= LastLsn
         /\ Sectors(d) * SectorLen <= d.size /\ SectorLen > 0
<1>0. LastLsn \in Nat /\ SectorLen \in Nat
  BY DiscAssumption DEF LastLsn
<1>1. d.loc \in 1..LastLsn /\ Sectors(d) >= 1 /\ d.loc + Sectors(d) - 1 <= LastLsn
      /\ DirLen(d.loc) = d.size
  BY DEF Sound
<1>2. d.size \in Nat
  BY <1>0, <1>1, RecordsTyping
<1>3. SectorLen > 0
  <2>1. Len(Disc[d.loc]) < SectorLen /\ Len(Disc[d.loc]) \in Nat
    BY <1>1, DiscAssumption DEF LastLsn
  <2>. QED
    BY <1>0, <2>1
<1>4. PICK a \in Nat, b \in Nat : a = d.size /\ b = SectorLen /\ b > 0
  BY <1>0, <1>2, <1>3
<1>5. a \div b \in Nat /\ (a \div b) * b <= a
  BY <1>4
<1>. QED
  BY <1>0, <1>1, <1>3, <1>4, <1>5 DEF Sectors

\* A name that is in a directory once leads to that record.
LEMMA EntryFound ==
  ASSUME NEW d, Sound(d), NEW name, OneNamed(Entries(d), name),
         NEW layer
  PROVE  LET W == Span(d.loc, Sectors(d)) IN
         \E j \in 1..Len(W) :
           /\ FirstNamed(W, j, name)
           /\ EntryNamed(d, name, layer) = Located(W[j], layer)
<1>. DEFINE W == Span(d.loc, Sectors(d))
<1>1. Entries(d) = W
  BY DEF Sound, Entries
<1>2. W \in Seq(DirRec)
  <2>1. d.loc \in Nat /\ Sectors(d) \in Nat /\ d.loc >= 1 /\ d.loc + Sectors(d) - 1 <= LastLsn
    BY SoundSectors
  <2>. QED
    BY <2>1, SpanProperties
<1>. HIDE DEF W
<1>3. PICK j \in DOMAIN W : \A i \in DOMAIN W : W[i].name = name <=> i = j
  BY <1>1 DEF OneNamed
<1>4. j \in 1..Len(W) /\ FirstNamed(W, j, name)
  BY <1>2, <1>3 DEF FirstNamed
<1>5. {i \in DOMAIN W : W[i].name = name} = {j}
  BY <1>3
<1>6. EntryNamed(d, name, layer) = Located(W[j], layer)
  BY <1>1, <1>5 DEF EntryNamed
<1>. QED
  BY <1>4, <1>6 DEF W

\* A name that is nowhere is in no directory, and nothing is in what is none.
LEMMA EntryMissing ==
  ASSUME NEW d, NEW name, ~d.dir \/ (Sound(d) /\ Nowhere(name)), NEW layer
  PROVE  EntryNamed(d, name, layer) = NotFound
<1>1. CASE ~d.dir
  <2>1. Entries(d) = <<>>
    BY <1>1 DEF Entries
  <2>2. DOMAIN Entries(d) = {}
    BY <2>1
  <2>. QED
    BY <2>2 DEF EntryNamed
<1>2. CASE d.dir
  <2>. DEFINE W == Span(d.loc, Sectors(d))
  <2>1. Entries(d) = W
    BY <1>2 DEF Entries
  <2>2. d.loc \in Nat /\ Sectors(d) \in Nat /\ d.loc >= 1 /\ d.loc + Sectors(d) - 1 <= LastLsn
    BY <1>2, SoundSectors
  <2>3. W \in Seq(DirRec) /\ \A i \in 1..Len(W) : W[i].name # name
    BY <1>2, <2>2, SpanProperties, SpanNowhere
  <2>. HIDE DEF W
  <2>4. {i \in DOMAIN W : W[i].name = name} = {}
    BY <2>3
  <2>. QED
    BY <2>1, <2>4 DEF EntryNamed
<1>. QED
  BY <1>1, <1>2

\* The record a segment of a path leads to, or that the path leads nowhere.
LEMMA Leads ==
  ASSUME NEW path \in Seq(AllNames), NEW layer \in Layers, Served(path, layer),
         NEW i \in 1..Len(path), \A k \in 1..(i - 1) : ~Nowhere(path[k])
  PROVE  LET d == Along(path, layer)[i - 1]
             W == Span(d.loc, Sectors(d))
         IN /\ d.loc \in Nat
            /\ ~Nowhere(path[i]) =>
                 /\ Sound(d) /\ d.size \in Nat
                 /\ \E j \in 1..Len(W) :
                      /\ FirstNamed(W, j, path[i])
                      /\ Along(path, layer)[i] = Located(W[j], layer)
            /\ Nowhere(path[i]) => Along(path, layer)[Len(path)] = NotFound
<1>. DEFINE at == Along(path, layer)
<1>0. Len(path) \in Nat /\ LastLsn \in Nat
  BY DiscAssumption DEF LastLsn
<1>1. at[0] = RootDir(layer) /\ \A k \in 1..Len(path) : at[k] = EntryNamed(at[k - 1], path[k], layer)
  BY <1>0, AlongSteps
<1>2. ASSUME NEW k \in 1..Len(path), \A m \in 1..(k - 1) : ~Nowhere(path[m])
      PROVE  \/ Nowhere(path[k]) /\ ~at[k - 1].dir
             \/ Sound(at[k - 1]) /\ (Nowhere(path[k]) \/ OneNamed(Entries(at[k - 1]), path[k]))
  BY <1>2, Zenon DEF Served
<1>. HIDE DEF at
<1>3. ASSUME NEW k \in 1..Len(path), Sound(at[k - 1]), OneNamed(Entries(at[k - 1]), path[k])
      PROVE  /\ at[k] \in DirRec
             /\ LET W == Span(at[k - 1].loc, Sectors(at[k - 1])) IN
                \E j \in 1..Len(W) : /\ FirstNamed(W, j, path[k])
                                     /\ at[k] = Located(W[j], layer)
  <2>. DEFINE d == at[k - 1]
              W == Span(d.loc, Sectors(d))
  <2>1. d.loc \in Nat /\ Sectors(d) \in Nat /\ d.loc >= 1 /\ d.loc + Sectors(d) - 1 <= LastLsn
    BY <1>3, SoundSectors
  <2>2. W \in Seq(DirRec)
    BY <1>3, <2>1, SpanProperties
  <2>8. Sound(d) /\ OneNamed(Entries(d), path[k])
    BY <1>3
  <2>3. PICK j \in 1..Len(W) : /\ FirstNamed(W, j, path[k])
                               /\ EntryNamed(d, path[k], layer) = Located(W[j], layer)
    BY <2>8, EntryFound, Zenon
  <2>4. at[k] = Located(W[j], layer)
    BY <1>1, <2>3
  <2>. HIDE DEF W
  <2>5. W[j] \in DirRec /\ ExtentOf(W[j], layer) \in Nat
    <3>1. W[j] \in DirRec
      BY <2>2
    <3>. QED
      BY <3>1, DiscAssumption DEF ExtentOf, DirRec
  <2>6. at[k] \in DirRec
    BY <2>4, <2>5 DEF Located, DirRec
  <2>. QED
    BY <2>3, <2>4, <2>6 DEF W
<1>4. at[i - 1].loc \in Nat
  <2>1. CASE i = 1
    <3>1. RootDir(layer).loc = Root[layer]
      BY DEF RootDir, NotFound
    <3>. QED
      BY <1>1, <2>1, <3>1, DiscAssumption
  <2>2. CASE i # 1
    <3>0. PICK k \in 1..Len(path) : k = i - 1
      BY <2>2
    <3>1. k \in 1..(i - 1) /\ \A m \in 1..(k - 1) : m \in 1..(i - 1)
      BY <3>0
    <3>2. ~Nowhere(path[k]) /\ \A m \in 1..(k - 1) : ~Nowhere(path[m])
      BY <3>1
    <3>3. Sound(at[k - 1]) /\ OneNamed(Entries(at[k - 1]), path[k])
      BY <1>2, <3>2
    <3>4. at[k] \in DirRec
      BY <1>3, <3>3
    <3>. QED
      BY <3>0, <3>4 DEF DirRec
  <2>. QED
    BY <2>1, <2>2
<1>5. CASE ~Nowhere(path[i])
  <2>1. Sound(at[i - 1]) /\ OneNamed(Entries(at[i - 1]), path[i])
    BY <1>2, <1>5
  <2>2. at[i - 1].size \in Nat
    BY <2>1, SoundSectors
  <2>. QED
    BY <1>3, <1>4, <1>5, <2>1, <2>2 DEF at
<1>6. CASE Nowhere(path[i])
  <2>. DEFINE S == {m \in Nat : i + m <= Len(path) => at[i + m] = NotFound}
  <2>1. 0 \in S
    <3>1. at[i] = EntryNamed(at[i - 1], path[i], layer)
      BY <1>1
    <3>2. ~at[i - 1].dir \/ (Sound(at[i - 1]) /\ Nowhere(path[i]))
      BY <1>2, <1>6
    <3>3. at[i] = NotFound
      BY <3>1, <3>2, EntryMissing
    <3>. QED
      BY <3>3
  <2>2. ASSUME NEW m \in Nat, m \in S PROVE m + 1 \in S
    <3>1. SUFFICES ASSUME i + (m + 1) <= Len(path) PROVE at[i + (m + 1)] = NotFound
      OBVIOUS
    <3>2. at[i + m] = NotFound
      BY <1>0, <2>2, <3>1
    <3>3. PICK k \in 1..Len(path) : k = i + (m + 1) /\ k - 1 = i + m
      BY <1>0, <3>1
    <3>. HIDE DEF S
    <3>4. at[k] = EntryNamed(at[k - 1], path[k], layer)
      BY <1>1
    <3>5. ~NotFound.dir
      BY DEF NotFound
    <3>6. EntryNamed(NotFound, path[k], layer) = NotFound
      BY <3>5, EntryMissing, Zenon
    <3>. QED
      BY <3>2, <3>3, <3>4, <3>6
  <2>. HIDE DEF S
  <2>3. S \in SUBSET Nat
    BY DEF S
  <2>4. Len(path) - i \in S
    <3>1. S = Nat
      BY <2>1, <2>2, <2>3, Induction
    <3>. QED
      BY <1>0, <3>1
  <2>5. i + (Len(path) - i) = Len(path)
    BY <1>0
  <2>6. at[Len(path)] = NotFound
    BY <1>0, <2>4, <2>5 DEF S
  <2>. QED
    BY <1>4, <1>6, <2>6 DEF at
<1>. QED
  BY <1>5, <1>6

-----------------------------------------------------------------------------
(* How far a scan has come.                                                *)

\* What the records before a scan's are not, from the first of n sectors on.
Passed(s, lsn, n, name) ==
  /\ s.lsn \in lsn..(lsn + n - 1)
  /\ s.idx \in 1..(Len(Records(s.lsn)) + 1)
  /\ s.off = Len(Span(lsn, s.lsn - lsn)) + s.idx - 1
  /\ \A i \in 1..s.off : Span(lsn, n)[i].name # name

\* A scan that begins has passed nothing.
LEMMA ScanBegins ==
  ASSUME NEW lsn \in Nat, NEW n \in Nat \ {0}, lsn >= 1, lsn + n - 1 <= LastLsn,
         NEW name, NEW size, NEW seg, NEW left
  PROVE  Passed(ScanFrom(lsn, size, seg, left), lsn, n, name)
<1>. DEFINE s == ScanFrom(lsn, size, seg, left)
<1>0. LastLsn \in Nat
  BY DiscAssumption DEF LastLsn
<1>1. s.lsn = lsn /\ s.idx = 1 /\ s.off = 0
  BY DEF ScanFrom
<1>. HIDE DEF s
<1>2. Len(Records(lsn)) \in Nat
  BY <1>0, RecordsTyping
<1>3. Span(lsn, 0) = <<>>
  BY SpanProperties
<1>4. lsn - lsn = 0 /\ Len(Span(lsn, lsn - lsn)) = 0
  BY <1>3
<1>5. Passed(s, lsn, n, name)
  BY <1>1, <1>2, <1>4 DEF Passed
<1>. QED
  BY <1>5 DEF s

\* The record a scan looks at is the one after those it passed.
LEMMA ScanAt ==
  ASSUME NEW lsn \in Nat, NEW n \in Nat, lsn >= 1, lsn + n - 1 <= LastLsn, NEW name,
         NEW s \in Scans, Passed(s, lsn, n, name), databuf = s.lsn
  PROVE  LET W == Span(lsn, n) IN
         /\ s.off <= Len(W)
         /\ ~AtBlank(s) => s.off + 1 \in 1..Len(W) /\ Rec(s) = W[s.off + 1]
         /\ AtBlank(s) => s.idx = Len(Records(s.lsn)) + 1 /\ s.off = Len(Span(lsn, s.lsn - lsn + 1))
<1>. DEFINE W == Span(lsn, n)
            q == s.lsn - lsn
<1>0. LastLsn \in Nat
  BY DiscAssumption DEF LastLsn
<1>1. s.lsn \in Nat /\ s.idx \in Nat /\ s.off \in Nat
  BY DEF Scans
<1>2. q \in 0..(n - 1) /\ s.lsn = lsn + q /\ s.lsn \in 0..LastLsn
  BY <1>0, <1>1 DEF Passed
<1>3. s.idx \in 1..(Len(Records(s.lsn)) + 1) /\ s.off = Len(Span(lsn, q)) + s.idx - 1
  BY DEF Passed
<1>. HIDE DEF q
<1>4. Records(s.lsn) \in Seq(DirRec)
  BY <1>2, RecordsTyping
<1>5. Span(lsn, q) \in Seq(DirRec) /\ Span(lsn, q + 1) \in Seq(DirRec) /\ W \in Seq(DirRec)
  <2>1. q \in Nat /\ q + 1 \in Nat /\ lsn + q - 1 <= LastLsn /\ lsn + (q + 1) - 1 <= LastLsn
    BY <1>0, <1>2
  <2>. QED
    BY <2>1, SpanProperties
<1>6. Span(lsn, q + 1) = Span(lsn, q) \o Records(s.lsn)
  <2>1. q \in Nat /\ lsn + q <= LastLsn
    BY <1>0, <1>2
  <2>2. Span(lsn, q + 1) = Span(lsn, q) \o Records(lsn + q)
    BY <1>5, <2>1, SpanStep, Zenon
  <2>. QED
    BY <1>2, <2>2
<1>7. /\ Len(Span(lsn, q + 1)) <= Len(W)
      /\ \A i \in 1..Len(Span(lsn, q + 1)) : W[i] = Span(lsn, q + 1)[i]
  <2>1. PICK m \in 0..n : m = q + 1
    BY <1>2
  <2>2. Len(Span(lsn, m)) <= Len(W) /\ \A i \in 1..Len(Span(lsn, m)) : W[i] = Span(lsn, m)[i]
    BY SpanPlaces
  <2>. QED
    BY <2>1, <2>2
<1>. HIDE DEF W
<1>8. PICK A \in Seq(DirRec), B \in Seq(DirRec) : A = Span(lsn, q) /\ B = Records(s.lsn)
  BY <1>4, <1>5
<1>9. /\ Len(A \o B) = Len(A) + Len(B)
      /\ \A i \in 1..Len(B) : (A \o B)[Len(A) + i] = B[i]
  OBVIOUS
<1>10. s.idx \in 1..(Len(B) + 1) /\ s.off = Len(A) + s.idx - 1 /\ Len(A \o B) <= Len(W)
       /\ \A i \in 1..Len(A \o B) : W[i] = (A \o B)[i]
  BY <1>3, <1>6, <1>7, <1>8
<1>11. s.off <= Len(W)
  BY <1>1, <1>5, <1>9, <1>10
<1>12. (AtBlank(s) <=> s.idx > Len(B)) /\ Rec(s) = B[s.idx]
  BY <1>8 DEF AtBlank, Rec
<1>13. ASSUME ~AtBlank(s) PROVE s.off + 1 \in 1..Len(W) /\ Rec(s) = W[s.off + 1]
  <2>1. s.idx \in 1..Len(B) /\ s.off + 1 = Len(A) + s.idx
    BY <1>1, <1>10, <1>12, <1>13
  <2>2. s.off + 1 \in 1..Len(A \o B)
    BY <1>9, <2>1
  <2>3. (A \o B)[s.off + 1] = B[s.idx]
    BY <1>9, <2>1
  <2>4. Len(W) \in Nat
    BY <1>5
  <2>5. Len(A) + Len(B) \in Nat
    OBVIOUS
  <2>6. s.off + 1 \in 1..Len(W)
    BY <1>9, <1>10, <2>2, <2>4, <2>5
  <2>7. W[s.off + 1] = (A \o B)[s.off + 1]
    BY <1>10, <2>2
  <2>. QED
    BY <1>12, <2>3, <2>6, <2>7
<1>14. ASSUME AtBlank(s) PROVE s.idx = Len(B) + 1 /\ s.off = Len(Span(lsn, q + 1))
  <2>1. s.idx = Len(B) + 1
    BY <1>1, <1>10, <1>12, <1>14
  <2>2. s.off = Len(A \o B)
    BY <1>9, <1>10, <2>1
  <2>. QED
    BY <1>6, <1>8, <2>1, <2>2
<1>. QED
  BY <1>8, <1>11, <1>13, <1>14 DEF W, q

\* A turn at a record that has not the name, or at a blank, passes it and no
\* more; the record with the name is the first that has it.
LEMMA ScanStep ==
  ASSUME NEW lsn \in Nat, NEW n \in Nat, lsn >= 1, lsn + n - 1 <= LastLsn, NEW name,
         NEW s \in Scans, Passed(s, lsn, n, name), databuf = s.lsn,
         NEW j, FirstNamed(Span(lsn, n), j, name)
  PROVE  /\ s.off <= j - 1 /\ j \in Nat
         /\ Named(s, name) => Rec(s) = Span(lsn, n)[j]
         /\ ~Named(s, name) => Passed(Turn(s), lsn, n, name)
<1>. DEFINE W == Span(lsn, n)
<1>0. LastLsn \in Nat
  BY DiscAssumption DEF LastLsn
<1>1. s.lsn \in Nat /\ s.idx \in Nat /\ s.off \in Nat
  BY DEF Scans
<1>2. W \in Seq(DirRec)
  BY SpanProperties
<1>3. /\ s.off <= Len(W)
      /\ ~AtBlank(s) => s.off + 1 \in 1..Len(W) /\ Rec(s) = W[s.off + 1]
      /\ AtBlank(s) => s.idx = Len(Records(s.lsn)) + 1 /\ s.off = Len(Span(lsn, s.lsn - lsn + 1))
  BY ScanAt
<1>4. \A i \in 1..s.off : W[i].name # name
  BY DEF Passed
<1>5. j \in 1..Len(W) /\ W[j].name = name /\ \A i \in 1..(j - 1) : W[i].name # name
  BY <1>2 DEF FirstNamed
<1>6. s.lsn \in lsn..(lsn + n - 1) /\ s.idx \in 1..(Len(Records(s.lsn)) + 1)
      /\ s.off = Len(Span(lsn, s.lsn - lsn)) + s.idx - 1
  BY DEF Passed
<1>. HIDE DEF W
<1>7. s.off <= j - 1 /\ j \in Nat
  BY <1>1, <1>2, <1>4, <1>5
<1>8. ASSUME Named(s, name) PROVE Rec(s) = W[j]
  <2>1. ~AtBlank(s) /\ Rec(s).name = name
    BY <1>8 DEF Named
  <2>2. W[s.off + 1].name = name
    BY <1>3, <2>1
  <2>3. s.off + 1 = j
    BY <1>1, <1>5, <1>7, <2>2
  <2>. QED
    BY <1>3, <2>1, <2>3
<1>9. ASSUME ~Named(s, name) PROVE Passed(Turn(s), lsn, n, name)
  <2>1. CASE AtBlank(s)
    <3>1. s.lsn < lsn + n - 1
      <4>1. SUFFICES ASSUME s.lsn = lsn + n - 1 PROVE FALSE
        BY <1>1, <1>6
      <4>2. s.lsn - lsn + 1 = n
        BY <4>1
      <4>3. s.off = Len(W)
        BY <1>3, <2>1, <4>2 DEF W
      <4>. QED
        BY <1>2, <1>5, <1>7, <4>3
    <3>2. Turn(s) = [s EXCEPT !.lsn = s.lsn + 1, !.idx = 1]
      <4>1. NextLsn(s.lsn) = s.lsn + 1
        BY <1>0, <1>1, <3>1 DEF NextLsn
      <4>. QED
        BY <2>1, <4>1 DEF Turn
    <3>3. Turn(s).lsn = s.lsn + 1 /\ Turn(s).idx = 1 /\ Turn(s).off = s.off
      BY <3>2 DEF Scans
    <3>4. Len(Records(s.lsn + 1)) \in Nat
      BY <1>0, <1>1, <1>6, <3>1, RecordsTyping
    <3>5. (s.lsn + 1) - lsn = s.lsn - lsn + 1
      BY <1>1
    <3>6. s.off = Len(Span(lsn, (s.lsn + 1) - lsn)) + 1 - 1
      BY <1>1, <1>3, <2>1, <3>5
    <3>. QED
      BY <1>1, <1>4, <1>6, <3>1, <3>3, <3>4, <3>6 DEF Passed, W
  <2>2. CASE ~AtBlank(s)
    <3>1. Turn(s) = [s EXCEPT !.idx = s.idx + 1, !.off = s.off + 1]
      BY <2>2 DEF Turn
    <3>2. Turn(s).lsn = s.lsn /\ Turn(s).idx = s.idx + 1 /\ Turn(s).off = s.off + 1
      BY <3>1 DEF Scans
    <3>3. W[s.off + 1].name # name
      BY <1>3, <1>9, <2>2 DEF Named
    <3>4. \A i \in 1..(s.off + 1) : W[i].name # name
      BY <1>1, <1>4, <3>3
    <3>5. s.idx + 1 \in 1..(Len(Records(s.lsn)) + 1)
      <4>1. s.lsn \in 0..LastLsn
        BY <1>0, <1>1, <1>6
      <4>2. Len(Records(s.lsn)) \in Nat
        BY <4>1, RecordsTyping
      <4>3. s.idx <= Len(Records(s.lsn))
        BY <1>1, <2>2, <4>2 DEF AtBlank
      <4>. QED
        BY <1>1, <4>2, <4>3
    <3>6. Len(Span(lsn, s.lsn - lsn)) \in Nat
      BY <1>0, <1>1, <1>6, SpanProperties
    <3>7. s.off + 1 = Len(Span(lsn, s.lsn - lsn)) + (s.idx + 1) - 1
      BY <1>1, <1>6, <3>6
    <3>. QED
      BY <1>6, <3>2, <3>4, <3>5, <3>7 DEF Passed, W
  <2>. QED
    BY <2>1, <2>2
<1>. QED
  BY <1>7, <1>8, <1>9 DEF W

-----------------------------------------------------------------------------
(* What a search finds.                                                    *)

TableSectors(layer) == PathTableLen[layer] \div SectorLen + 1

\* The directory that a segment of a call's path is looked for in.
DirAt(r, seg) == Along(r.path, r.layer)[seg - 1]

\* Where it is looked for, by name: the path table for the first segment of
\* several, the directory otherwise.
OfTable(p, seg) == p = "dirs" /\ seg = 1
From(p, r, seg) == IF OfTable(p, seg) THEN PathTable[r.layer] ELSE DirAt(r, seg).loc
Over(p, r, seg) == IF OfTable(p, seg) THEN TableSectors(r.layer) ELSE Sectors(DirAt(r, seg))
Length(p, r, seg) == IF OfTable(p, seg) THEN PathTableLen[r.layer] ELSE DirAt(r, seg).size

\* Where a search by path is, and that it has not missed what it looks for.
OnPath(r, seg) ==
  /\ ValidLayer(r.layer) /\ seg \in 1..Len(r.path)
  /\ \A k \in 1..(seg - 1) : ~Nowhere(r.path[k])
Unmissed(p, r, s) ==
  /\ Passed(s, From(p, r, s.seg), Over(p, r, s.seg), r.path[s.seg])
  /\ s.size = Length(p, r, s.seg)
Goes(p, r, s, o) ==
  /\ p \in Searching \cup {"again"} =>
       OnPath(r, s.seg) /\ (p = "dirs" <=> s.seg < Len(r.path))
  /\ p = "again" => s.lsn = DirAt(r, s.seg).loc
  /\ p \in Searching /\ ~Nowhere(r.path[s.seg]) => Unmissed(p, r, s)
  /\ p = "ret" => o = Lookup(r.path, r.layer)

\* The searches of all threads; their calls are among the requests.
Searches ==
  \A t \in Threads : req[t].op \in ByName =>
    req[t] \in Requests[t] /\ Goes(pc[t], req[t], scan[t], out[t])

\* A request that the search serves, and what is known of the search's place.
LEMMA Asked ==
  ASSUME RequestsServed, NEW t \in Threads, NEW r \in Requests[t], ValidLayer(r.layer)
  PROVE  /\ r.path \in Seq(AllNames) /\ Len(r.path) \in Nat \ {0}
         /\ r.layer \in Layers /\ Served(r.path, r.layer)
<1>1. r.path \in Seq(AllNames) /\ r.path # <<>>
  BY RequestsAssumption
<1>. QED
  BY <1>1 DEF RequestsServed, ValidLayer, Layers

\* What a segment leads to, in terms of a call.
LEMMA LeadsOn ==
  ASSUME RequestsServed, NEW t \in Threads, NEW r \in Requests[t], NEW seg, OnPath(r, seg)
  PROVE  LET d == DirAt(r, seg)
             W == Span(d.loc, Sectors(d))
         IN /\ seg \in Nat \ {0} /\ d.loc \in Nat
            /\ ~Nowhere(r.path[seg]) =>
                 /\ Sound(d)
                 /\ \E j \in 1..Len(W) :
                      /\ FirstNamed(W, j, r.path[seg])
                      /\ Along(r.path, r.layer)[seg] = Located(W[j], r.layer)
            /\ Nowhere(r.path[seg]) => Lookup(r.path, r.layer) = NotFound
<1>1. ValidLayer(r.layer) /\ seg \in 1..Len(r.path) /\ \A k \in 1..(seg - 1) : ~Nowhere(r.path[k])
  BY DEF OnPath
<1>2. /\ r.path \in Seq(AllNames) /\ Len(r.path) \in Nat \ {0}
      /\ r.layer \in Layers /\ Served(r.path, r.layer)
  BY <1>1, Asked
<1>3. Lookup(r.path, r.layer) = Along(r.path, r.layer)[Len(r.path)]
  BY <1>1, <1>2, DiscAssumption DEF Lookup, ValidLayer
<1>4. LET d == Along(r.path, r.layer)[seg - 1]
          W == Span(d.loc, Sectors(d))
      IN /\ d.loc \in Nat
         /\ ~Nowhere(r.path[seg]) =>
              /\ Sound(d) /\ d.size \in Nat
              /\ \E j \in 1..Len(W) :
                   /\ FirstNamed(W, j, r.path[seg])
                   /\ Along(r.path, r.layer)[seg] = Located(W[j], r.layer)
         /\ Nowhere(r.path[seg]) => Along(r.path, r.layer)[Len(r.path)] = NotFound
  BY <1>1, <1>2, Leads, Zenon
<1>. QED
  BY <1>1, <1>2, <1>3, <1>4 DEF DirAt

\* A search by path that begins in a directory has passed nothing there.
LEMMA DirBegins ==
  ASSUME NEW d, Sound(d), databuf \in 0..LastLsn, NEW name, NEW seg, NEW left
  PROVE  /\ Loaded(d.loc) = d.loc
         /\ Passed(ScanFrom(d.loc, d.size, seg, left), d.loc, Sectors(d), name)
         /\ DirLen(Loaded(d.loc)) = d.size
<1>1. d.loc \in 1..LastLsn /\ DirLen(d.loc) = d.size
  BY DEF Sound
<1>2. Loaded(d.loc) = d.loc
  BY <1>1 DEF Loaded
<1>3. d.loc \in Nat /\ Sectors(d) \in Nat \ {0} /\ d.loc >= 1 /\ d.loc + Sectors(d) - 1 <= LastLsn
  BY SoundSectors
<1>4. Passed(ScanFrom(d.loc, d.size, seg, left), d.loc, Sectors(d), name)
  BY <1>3, ScanBegins
<1>. QED
  BY <1>1, <1>2, <1>4

\* On to the next segment of a path, in the directory it is in.
LEMMA GoesDown ==
  ASSUME TypeOK, RequestsServed, NEW t \in Threads, req[t] \in Requests[t],
         NEW seg, NEW lsn, OnPath(req[t], seg), lsn = DirAt(req[t], seg).loc,
         seg > 1 \/ Len(req[t].path) = 1, Descend(t, lsn, seg)
  PROVE  Goes(pc'[t], req[t], scan'[t], out'[t])
<1>. DEFINE r == req[t]
            d == DirAt(r, seg)
<1>1. /\ r.path \in Seq(AllNames) /\ Len(r.path) \in Nat \ {0}
      /\ r.layer \in Layers /\ Served(r.path, r.layer) /\ seg \in 1..Len(r.path)
  BY Asked DEF OnPath
<1>2. seg \in Nat \ {0} /\ lsn \in Nat /\ (~Nowhere(r.path[seg]) => Sound(d))
  BY LeadsOn
<1>3. databuf \in 0..LastLsn /\ pc \in [Threads -> Pcs] /\ scan \in [Threads -> Scans]
  BY DEF TypeOK, SearchOK
<1>4. CASE ~IsFileName(r.path, seg) /\ LookIn(t, lsn, DirLen(Loaded(lsn)), seg)
  <2>. DEFINE s == ScanFrom(lsn, DirLen(Loaded(lsn)), seg, 0)
  <2>1. pc'[t] = "dirs" /\ scan'[t] = s
    BY <1>3, <1>4 DEF LookIn
  <2>2. s.seg = seg /\ s.lsn = lsn
    BY DEF ScanFrom
  <2>3. seg < Len(r.path) /\ seg # 1
    <3>1. ~(seg >= Len(r.path))
      BY <1>4 DEF IsFileName
    <3>2. Len(r.path) \in Nat /\ seg \in Nat /\ seg >= 1
      BY <1>1, <1>2
    <3>3. seg > 1 \/ Len(r.path) = 1
      OBVIOUS
    <3>4. PICK m \in Nat, k \in Nat : m = Len(r.path) /\ k = seg /\ k >= 1
      BY <3>2
    <3>5. k >= 1 /\ ~(k >= m) /\ (k > 1 \/ m = 1)
      BY <3>1, <3>3, <3>4
    <3>6. k < m /\ k # 1
      BY <3>5
    <3>. QED
      BY <3>4, <3>6
  <2>4. ASSUME ~Nowhere(r.path[seg]) PROVE Unmissed("dirs", r, s)
    <3>1. Sound(d)
      BY <1>2, <2>4
    <3>2. s = ScanFrom(d.loc, d.size, seg, 0) /\ Passed(s, d.loc, Sectors(d), r.path[seg])
      BY <1>3, <3>1, DirBegins
    <3>3. s.size = d.size
      BY <3>2 DEF ScanFrom
    <3>4. ~OfTable("dirs", seg)
      BY <2>3 DEF OfTable
    <3>. HIDE DEF s
    <3>. QED
      BY <2>2, <3>2, <3>3, <3>4 DEF Unmissed, From, Over, Length
  <2>. HIDE DEF s, d
  <2>. QED
    BY <2>1, <2>2, <2>3, <2>4 DEF Goes, Searching
<1>5. CASE IsFileName(r.path, seg) /\ pc' = [pc EXCEPT ![t] = "again"]
           /\ scan' = [scan EXCEPT ![t] = ScanFrom(lsn, 0, seg, 0)]
  <2>1. pc'[t] = "again" /\ scan'[t] = ScanFrom(lsn, 0, seg, 0)
    BY <1>3, <1>5
  <2>2. scan'[t].seg = seg /\ scan'[t].lsn = lsn
    BY <2>1 DEF ScanFrom
  <2>3. seg = Len(r.path)
    <3>1. seg \in 1..(Len(r.path) - 1) => r.path[seg] \notin Dotted
      BY <1>1 DEF Served
    <3>. QED
      BY <1>1, <1>2, <1>5, <3>1 DEF IsFileName
  <2>. HIDE DEF d
  <2>. QED
    BY <1>1, <2>1, <2>2, <2>3 DEF Goes, Searching
<1>. QED
  BY <1>4, <1>5 DEF Descend

\* The sectors the path table is in.
LEMMA TableTyping ==
  ASSUME NEW layer \in Layers, PathTable[layer] \in 1..LastLsn
  PROVE  /\ PathTable[layer] \in Nat /\ PathTable[layer] >= 1
         /\ PathTableLen[layer] \in Nat /\ TableSectors(layer) \in Nat \ {0}
<1>0. SectorLen \in Nat /\ LastLsn \in Nat /\ PathTableLen[layer] \in Nat
  BY DiscAssumption DEF LastLsn
<1>1. Len(Disc[PathTable[layer]]) < SectorLen /\ Len(Disc[PathTable[layer]]) \in Nat
  BY DiscAssumption DEF LastLsn
<1>2. SectorLen > 0
  BY <1>0, <1>1
<1>3. PICK a \in Nat, b \in Nat : a = PathTableLen[layer] /\ b = SectorLen /\ b > 0
  BY <1>0, <1>2
<1>4. a \div b + 1 \in Nat \ {0}
  BY <1>3
<1>. QED
  BY <1>0, <1>3, <1>4 DEF TableSectors

\* Where a search by path looks for a segment: sectors of the image, and in
\* them the first record with its name, which leads on.
LEMMA Place ==
  ASSUME RequestsServed, NEW t \in Threads, NEW r \in Requests[t], NEW p \in Searching, NEW s, NEW o,
         Goes(p, r, s, o), ~Nowhere(r.path[s.seg])
  PROVE  LET lsn == From(p, r, s.seg)
             n == Over(p, r, s.seg)
             W == Span(lsn, n)
         IN /\ lsn \in Nat /\ n \in Nat /\ lsn >= 1 /\ lsn + n - 1 <= LastLsn
            /\ s.size \in Nat
            /\ \E j \in Nat :
                 /\ FirstNamed(W, j, r.path[s.seg])
                 /\ j <= s.size + 1 /\ (p = "info" => j <= s.size)
                 /\ ExtentOf(W[j], r.layer) = DirAt(r, s.seg + 1).loc
                 /\ p = "info" => Located(W[j], r.layer) = Lookup(r.path, r.layer)
<1>. DEFINE name == r.path[s.seg]
            lsn == From(p, r, s.seg)
            n == Over(p, r, s.seg)
            W == Span(lsn, n)
<1>1. OnPath(r, s.seg) /\ (p = "dirs" <=> s.seg < Len(r.path)) /\ Unmissed(p, r, s)
  BY DEF Goes
<1>2. /\ r.path \in Seq(AllNames) /\ Len(r.path) \in Nat \ {0}
      /\ r.layer \in Layers /\ Served(r.path, r.layer) /\ s.seg \in 1..Len(r.path)
  BY <1>1, Asked DEF OnPath
<1>0. SectorLen \in Nat /\ LastLsn \in Nat
  BY DiscAssumption DEF LastLsn
<1>3. DirAt(r, s.seg + 1) = Along(r.path, r.layer)[s.seg]
  BY <1>2 DEF DirAt
<1>4. CASE OfTable(p, s.seg)
  <2>0. s.seg = 1 /\ p = "dirs" /\ p # "info" /\ s.seg < Len(r.path)
    BY <1>1, <1>4 DEF OfTable
  <2>1. s.size = PathTableLen[r.layer] /\ lsn = PathTable[r.layer] /\ n = TableSectors(r.layer)
    BY <1>1, <1>4 DEF Unmissed, From, Over, Length
  <2>2. TableLeads(r.layer, name, Along(r.path, r.layer)[1].loc)
    <3>1. Len(r.path) > 1 => Nowhere(r.path[1]) \/ TableLeads(r.layer, r.path[1], Along(r.path, r.layer)[1].loc)
      BY <1>2, Zenon DEF Served
    <3>. QED
      BY <1>1, <1>2, <2>0, <3>1
  <2>. HIDE DEF lsn, n
  <2>3. /\ lsn \in 1..LastLsn /\ lsn + n - 1 <= LastLsn
        /\ \E j \in 1..(PathTableLen[r.layer] + 1) :
             FirstNamed(W, j, name) /\ ExtentOf(W[j], r.layer) = Along(r.path, r.layer)[1].loc
    BY <2>1, <2>2 DEF TableLeads, TableSectors
  <2>4. PICK j \in 1..(PathTableLen[r.layer] + 1) :
          FirstNamed(W, j, name) /\ ExtentOf(W[j], r.layer) = Along(r.path, r.layer)[1].loc
    BY <2>3
  <2>5. PathTableLen[r.layer] \in Nat /\ n \in Nat /\ lsn \in Nat /\ lsn >= 1
    BY <1>2, <2>1, <2>3, TableTyping
  <2>6. j \in Nat /\ j <= s.size + 1 /\ s.size \in Nat
    BY <2>1, <2>5
  <2>7. ExtentOf(W[j], r.layer) = DirAt(r, s.seg + 1).loc
    BY <1>3, <2>0, <2>4
  <2>. HIDE DEF W, name
  <2>8. FirstNamed(W, j, name)
    BY <2>4
  <2>. QED
    BY <2>0, <2>3, <2>5, <2>6, <2>7, <2>8 DEF W, n, lsn, name
<1>5. CASE ~OfTable(p, s.seg)
  <2>. DEFINE d == DirAt(r, s.seg)
  <2>1. s.size = d.size /\ lsn = d.loc /\ n = Sectors(d)
    BY <1>1, <1>5 DEF Unmissed, From, Over, Length
  <2>2. Sound(d) /\ \E j \in 1..Len(Span(d.loc, Sectors(d))) :
                      /\ FirstNamed(Span(d.loc, Sectors(d)), j, name)
                      /\ Along(r.path, r.layer)[s.seg] = Located(Span(d.loc, Sectors(d))[j], r.layer)
    BY <1>1, LeadsOn
  <2>3. /\ lsn \in Nat /\ s.size \in Nat /\ n \in Nat /\ lsn >= 1 /\ lsn + n - 1 <= LastLsn
        /\ n * SectorLen <= s.size
    BY <2>1, <2>2, SoundSectors
  <2>. HIDE DEF lsn, n, d, name
  <2>4. PICK j \in 1..Len(W) :
          FirstNamed(W, j, name) /\ Along(r.path, r.layer)[s.seg] = Located(W[j], r.layer)
    BY <2>1, <2>2
  <2>5. W \in Seq(DirRec) /\ Len(W) <= n * SectorLen
    BY <2>3, SpanProperties
  <2>. HIDE DEF W
  <2>6. j \in Nat /\ j <= s.size
    <3>1. PICK m \in Nat : m = n * SectorLen
      BY <1>0, <2>3
    <3>. QED
      BY <2>3, <2>5, <3>1
  <2>7. ExtentOf(W[j], r.layer) = DirAt(r, s.seg + 1).loc
    <3>1. W[j] \in DirRec
      BY <2>5
    <3>2. Located(W[j], r.layer).loc = ExtentOf(W[j], r.layer)
      BY <3>1 DEF Located, DirRec
    <3>. QED
      BY <1>3, <2>4, <3>2
  <2>8. p = "info" => Located(W[j], r.layer) = Lookup(r.path, r.layer)
    <3>1. p = "info" => s.seg = Len(r.path)
      BY <1>1, <1>2
    <3>2. Lookup(r.path, r.layer) = Along(r.path, r.layer)[Len(r.path)]
      BY <1>1, <1>2, DiscAssumption DEF Lookup, ValidLayer, OnPath
    <3>. QED
      BY <2>4, <3>1, <3>2
  <2>9. FirstNamed(W, j, name) /\ j <= s.size + 1
    BY <2>3, <2>4, <2>6
  <2>. QED
    BY <2>3, <2>6, <2>7, <2>8, <2>9 DEF W, name, lsn, n
<1>. QED
  BY <1>4, <1>5

\* A name that is nowhere is not found in the buffer.
LEMMA NowhereInBuffer ==
  ASSUME databuf \in 0..LastLsn, NEW s \in Scans, s.idx >= 1, NEW name, Nowhere(name)
  PROVE  ~Named(s, name)
<1>0. LastLsn \in Nat
  BY DiscAssumption DEF LastLsn
<1>1. SUFFICES ASSUME Named(s, name) PROVE FALSE
  OBVIOUS
<1>2. ~AtBlank(s) /\ Rec(s).name = name
  BY <1>1 DEF Named
<1>3. s.idx \in 1..Len(Records(databuf))
  BY <1>0, <1>2, RecordsTyping DEF AtBlank, Scans
<1>4. databuf \in 1..LastLsn /\ Records(databuf) = Disc[databuf]
  <2>1. databuf # 0
    BY <1>3 DEF Records
  <2>. QED
    BY <1>0, <2>1 DEF Records
<1>5. Disc[databuf] \in Seq(DirRec)
  BY <1>4, DiscAssumption DEF LastLsn
<1>6. s.idx \in DOMAIN Disc[databuf]
  BY <1>3, <1>4, <1>5
<1>. QED
  BY <1>2, <1>4, <1>6 DEF Nowhere, Rec

\* The steps of a search by path: each keeps where it is.
LEMMA GoesStarts ==
  ASSUME TypeOK, RequestsServed, NEW t \in Threads, req[t] \in Requests[t], TakeSrch(t)
  PROVE  Goes(pc'[t], req[t], scan'[t], out'[t])
<1>. DEFINE r == req[t]
<1>0. /\ databuf \in 0..LastLsn /\ pc \in [Threads -> Pcs] /\ scan \in [Threads -> Scans]
      /\ out \in [Threads -> DirRec] /\ r.path \in Seq(AllNames) /\ r.layer \in Nat
      /\ LastLsn \in Nat /\ LayerBreak \in Nat /\ SectorLen \in Nat
  BY DiscAssumption DEF TypeOK, SearchOK, CallsOK, LastLsn
<1>1. CASE ~ValidLayer(r.layer) /\ NotHere(t)
  <2>1. pc'[t] = "ret" /\ out'[t] = NotFound
    BY <1>0, <1>1 DEF NotHere
  <2>2. Lookup(r.path, r.layer) = NotFound
    BY <1>0, <1>1 DEF Lookup, ValidLayer
  <2>. QED
    BY <2>1, <2>2 DEF Goes, Searching
<1>2. CASE ValidLayer(r.layer)
  <2>1. /\ Len(r.path) \in Nat \ {0} /\ r.layer \in Layers /\ Served(r.path, r.layer)
    BY <1>2, Asked
  <2>2. OnPath(r, 1)
    BY <1>2, <2>1 DEF OnPath
  <2>3. CASE IsFileName(r.path, 1) /\ Descend(t, Root[r.layer], 1)
    <3>1. Len(r.path) = 1
      <4>1. 1 \in 1..(Len(r.path) - 1) => r.path[1] \notin Dotted
        BY <2>1 DEF Served
      <4>2. 1 >= Len(r.path) \/ r.path[1] \in Dotted
        BY <2>3 DEF IsFileName
      <4>3. PICK m \in Nat \ {0} : m = Len(r.path)
        BY <2>1
      <4>4. 1 >= m \/ ~(1 \in 1..(m - 1))
        BY <4>1, <4>2, <4>3
      <4>5. m = 1
        BY <4>4
      <4>. QED
        BY <4>3, <4>5
    <3>2. DirAt(r, 1).loc = Root[r.layer]
      <4>1. Along(r.path, r.layer)[0] = RootDir(r.layer)
        BY <2>1, AlongSteps
      <4>2. RootDir(r.layer).loc = Root[r.layer]
        BY DEF RootDir, NotFound
      <4>. QED
        BY <4>1, <4>2 DEF DirAt
    <3>. QED
      BY <2>2, <2>3, <3>1, <3>2, GoesDown, Zenon
  <2>4. CASE ~IsFileName(r.path, 1) /\ LookIn(t, PathTable[r.layer], PathTableLen[r.layer], 1)
    <3>. DEFINE lsn == PathTable[r.layer]
                n == TableSectors(r.layer)
                s == ScanFrom(lsn, PathTableLen[r.layer], 1, 0)
    <3>1. pc'[t] = "dirs" /\ scan'[t] = s
      BY <1>0, <2>4 DEF LookIn
    <3>2. 1 < Len(r.path) /\ s.seg = 1 /\ s.size = PathTableLen[r.layer]
      BY <2>1, <2>4 DEF IsFileName, ScanFrom
    <3>3. ASSUME ~Nowhere(r.path[1]) PROVE Unmissed("dirs", r, s)
      <4>1. SUFFICES Passed(s, lsn, n, r.path[1])
        BY <3>2 DEF Unmissed, From, Over, Length, OfTable
      <4>2. TableLeads(r.layer, r.path[1], Along(r.path, r.layer)[1].loc)
        <5>1. Len(r.path) > 1
          BY <2>1, <3>2
        <5>. QED
          BY <2>1, <3>3, <5>1, Zenon DEF Served
      <4>3. lsn \in 1..LastLsn /\ lsn + n - 1 <= LastLsn
        BY <4>2 DEF TableLeads, TableSectors
      <4>4. n \in Nat \ {0} /\ lsn \in Nat /\ lsn >= 1
        BY <1>0, <2>1, <4>3, TableTyping
      <4>. QED
        BY <4>3, <4>4, ScanBegins
    <3>. HIDE DEF s
    <3>. QED
      BY <2>2, <3>1, <3>2, <3>3 DEF Goes, Searching
  <2>. QED
    BY <1>2, <2>3, <2>4 DEF TakeSrch
<1>. QED
  BY <1>1, <1>2 DEF TakeSrch

\* A turn of the loop over the path table or over a directory.
LEMMA GoesTurns ==
  ASSUME TypeOK, BufferMine, RequestsServed, NEW t \in Threads, req[t] \in Requests[t],
         Goes(pc[t], req[t], scan[t], out[t]), DirTurn(t)
  PROVE  Goes(pc'[t], req[t], scan'[t], out'[t])
<1>. DEFINE r == req[t]
            s == scan[t]
            name == r.path[s.seg]
<1>0. /\ databuf \in 0..LastLsn /\ pc \in [Threads -> Pcs] /\ scan \in [Threads -> Scans]
      /\ out \in [Threads -> DirRec] /\ s \in Scans /\ s.idx >= 1
  BY DEF TypeOK, SearchOK, CallsOK
<1>1. pc[t] = "dirs" /\ OnPath(r, s.seg) /\ s.seg < Len(r.path)
  BY DEF DirTurn, Goes, Searching
<1>2. \/ s.off > s.size /\ NotHere(t)
      \/ Named(s, name) /\ Descend(t, ExtentOf(Rec(s), r.layer), s.seg + 1)
      \/ ~Named(s, name) /\ scan' = [scan EXCEPT ![t] = Turn(s)] /\ pc' = pc
  BY DEF DirTurn
<1>3. s.seg \in Nat \ {0} /\ (Nowhere(name) => Lookup(r.path, r.layer) = NotFound)
  BY <1>1, LeadsOn
<1>4. CASE Nowhere(name)
  <2>1. ~Named(s, name)
    BY <1>0, <1>4, NowhereInBuffer
  <2>2. CASE NotHere(t)
    <3>1. pc'[t] = "ret" /\ out'[t] = NotFound
      BY <1>0, <2>2 DEF NotHere
    <3>. QED
      BY <1>3, <1>4, <3>1 DEF Goes, Searching
  <2>3. CASE scan' = [scan EXCEPT ![t] = Turn(s)] /\ pc' = pc
    <3>1. pc'[t] = "dirs" /\ scan'[t] = Turn(s)
      BY <1>0, <1>1, <2>3
    <3>2. Turn(s).seg = s.seg
      BY <1>0 DEF Turn, Scans
    <3>. QED
      BY <1>1, <1>4, <3>1, <3>2 DEF Goes, Searching
  <2>. QED
    BY <1>2, <2>1, <2>2, <2>3
<1>5. CASE ~Nowhere(name)
  <2>. DEFINE lsn == From("dirs", r, s.seg)
              n == Over("dirs", r, s.seg)
              W == Span(lsn, n)
  <2>1. Goes("dirs", r, s, out[t]) /\ "dirs" \in Searching
    BY <1>1 DEF Searching
  <2>2. lsn \in Nat /\ n \in Nat /\ lsn >= 1 /\ lsn + n - 1 <= LastLsn /\ s.size \in Nat
    BY <1>5, <2>1, Place
  <2>3. PICK j \in Nat : /\ FirstNamed(W, j, name) /\ j <= s.size + 1
                         /\ ExtentOf(W[j], r.layer) = DirAt(r, s.seg + 1).loc
    BY <1>5, <2>1, Place
  <2>4. Passed(s, lsn, n, name) /\ s.size = Length("dirs", r, s.seg)
    BY <1>5, <2>1 DEF Goes, Unmissed
  <2>. HIDE DEF lsn, n
  <2>5. databuf = s.lsn
    <3>1. s.lsn \in 1..LastLsn
      <4>1. s.lsn \in lsn..(lsn + n - 1) /\ LastLsn \in Nat
        BY <2>4, DiscAssumption DEF Passed, LastLsn
      <4>. QED
        BY <2>2, <4>1
    <3>. QED
      BY <1>1, <3>1 DEF BufferMine, Searching
  <2>. HIDE DEF name, s
  <2>6. /\ s.off <= j - 1
        /\ Named(s, name) => Rec(s) = W[j]
        /\ ~Named(s, name) => Passed(Turn(s), lsn, n, name)
    BY <1>0, <2>2, <2>3, <2>4, <2>5, ScanStep
  <2>7. s.off <= s.size
    BY <1>0, <2>2, <2>3, <2>6 DEF Scans
  <2>8. CASE Named(s, name) /\ Descend(t, ExtentOf(Rec(s), r.layer), s.seg + 1)
    <3>1. ExtentOf(Rec(s), r.layer) = DirAt(r, s.seg + 1).loc
      BY <2>3, <2>6, <2>8
    <3>2. OnPath(r, s.seg + 1)
      <4>1. \A k \in 1..(s.seg + 1 - 1) : k = s.seg \/ k \in 1..(s.seg - 1)
        BY <1>3
      <4>2. s.seg + 1 \in 1..Len(r.path)
        BY <1>1, <1>3 DEF OnPath
      <4>. QED
        BY <1>1, <1>5, <4>1, <4>2 DEF OnPath, name
    <3>3. s.seg + 1 > 1
      BY <1>3
    <3>. QED
      BY <2>8, <3>1, <3>2, <3>3, GoesDown, Zenon
  <2>9. CASE ~Named(s, name) /\ scan' = [scan EXCEPT ![t] = Turn(s)] /\ pc' = pc
    <3>1. pc'[t] = "dirs" /\ scan'[t] = Turn(s)
      BY <1>0, <1>1, <2>9
    <3>2. Turn(s).seg = s.seg /\ Turn(s).size = s.size
      BY <1>0 DEF Turn, Scans
    <3>3. Unmissed("dirs", r, Turn(s))
      BY <2>4, <2>6, <2>9, <3>2 DEF Unmissed, lsn, n, name
    <3>. QED
      BY <1>1, <3>1, <3>2, <3>3 DEF Goes, Searching
  <2>10. ~(s.off > s.size)
    BY <1>0, <2>2, <2>7 DEF Scans
  <2>. QED
    BY <1>2, <2>8, <2>9, <2>10 DEF s, name
<1>. QED
  BY <1>4, <1>5

\* cdvdman_CdReturnFileInfo begins, in the directory that was reached.
LEMMA GoesAgain ==
  ASSUME TypeOK, RequestsServed, NEW t \in Threads, req[t] \in Requests[t], req[t].op \in ByName,
         Goes(pc[t], req[t], scan[t], out[t]), TakeSrchAgain(t)
  PROVE  Goes(pc'[t], req[t], scan'[t], out'[t])
<1>. DEFINE r == req[t]
            s == scan[t]
            d == DirAt(r, s.seg)
            new == ScanFrom(s.lsn, DirLen(Loaded(s.lsn)), s.seg, 0)
<1>0. databuf \in 0..LastLsn /\ pc \in [Threads -> Pcs] /\ scan \in [Threads -> Scans]
  BY DEF TypeOK, SearchOK
<1>1. /\ OnPath(r, s.seg) /\ s.seg >= Len(r.path) /\ s.lsn = d.loc
  <2>1. pc[t] = "again"
    BY DEF TakeSrchAgain
  <2>2. OnPath(r, s.seg) /\ ~(s.seg < Len(r.path)) /\ s.lsn = d.loc
    BY <2>1 DEF Goes
  <2>3. Len(r.path) \in Nat /\ s.seg \in Nat
    BY <2>2, Asked DEF OnPath
  <2>. QED
    BY <2>2, <2>3
<1>2. FileId(t) = 0
  BY DEF FileId, ByName
<1>3. pc'[t] = "info" /\ scan'[t] = new
  BY <1>0, <1>2 DEF TakeSrchAgain
<1>4. new.seg = s.seg
  BY DEF ScanFrom
<1>5. ASSUME ~Nowhere(r.path[s.seg]) PROVE Unmissed("info", r, new)
  <2>1. Sound(d)
    BY <1>1, <1>5, LeadsOn
  <2>2. new = ScanFrom(d.loc, d.size, s.seg, 0) /\ Passed(new, d.loc, Sectors(d), r.path[s.seg])
    BY <1>0, <1>1, <2>1, DirBegins
  <2>3. new.size = d.size
    BY <2>2 DEF ScanFrom
  <2>4. ~OfTable("info", s.seg)
    BY DEF OfTable
  <2>. HIDE DEF new
  <2>. QED
    BY <1>4, <2>2, <2>3, <2>4 DEF Unmissed, From, Over, Length
<1>6. ~(s.seg < Len(r.path))
  <2>1. Len(r.path) \in Nat /\ s.seg \in Nat
    BY <1>1, Asked DEF OnPath
  <2>. QED
    BY <1>1, <2>1
<1>. HIDE DEF new, d
<1>. QED
  BY <1>1, <1>3, <1>4, <1>5, <1>6 DEF Goes, Searching

\* A turn of its loop over the records of the directory.
LEMMA GoesInfo ==
  ASSUME TypeOK, BufferMine, RequestsServed, NEW t \in Threads, req[t] \in Requests[t],
         req[t].op \in ByName, Goes(pc[t], req[t], scan[t], out[t]), InfoTurn(t)
  PROVE  Goes(pc'[t], req[t], scan'[t], out'[t])
<1>. DEFINE r == req[t]
            s == scan[t]
            name == r.path[s.seg]
<1>0. /\ databuf \in 0..LastLsn /\ pc \in [Threads -> Pcs] /\ scan \in [Threads -> Scans]
      /\ out \in [Threads -> DirRec] /\ s \in Scans /\ s.idx >= 1 /\ r.op # "dread"
  BY DEF TypeOK, SearchOK, CallsOK, ByName
<1>1. pc[t] = "info" /\ OnPath(r, s.seg) /\ ~(s.seg < Len(r.path))
  BY DEF InfoTurn, Goes, Searching
<1>. DEFINE new == [Turn(s) EXCEPT !.left = Turn(s).left]
<1>2. \/ s.off >= s.size /\ NotHere(t)
      \/ s.off < s.size /\ Named(s, name) /\ out' = [out EXCEPT ![t] = Entry(t)] /\ pc' = [pc EXCEPT ![t] = "ret"]
      \/ s.off < s.size /\ ~Named(s, name) /\ scan' = [scan EXCEPT ![t] = new] /\ pc' = pc
  BY <1>0 DEF InfoTurn, Wanted
<1>3. s.seg \in Nat \ {0} /\ (Nowhere(name) => Lookup(r.path, r.layer) = NotFound)
  BY <1>1, LeadsOn
<1>6. Turn(s) \in Scans
  BY <1>0, TurnTyping
<1>7. /\ new.lsn = Turn(s).lsn /\ new.idx = Turn(s).idx /\ new.off = Turn(s).off
      /\ new.size = s.size /\ new.seg = s.seg
  <2>1. Turn(s).size = s.size /\ Turn(s).seg = s.seg
    BY <1>0 DEF Turn, Scans
  <2>. QED
    BY <1>6, <2>1 DEF Scans
<1>. HIDE DEF new
<1>4. CASE Nowhere(name)
  <2>1. ~Named(s, name)
    BY <1>0, <1>4, NowhereInBuffer
  <2>2. CASE NotHere(t)
    <3>1. pc'[t] = "ret" /\ out'[t] = NotFound
      BY <1>0, <2>2 DEF NotHere
    <3>. QED
      BY <1>3, <1>4, <3>1 DEF Goes, Searching
  <2>3. CASE scan' = [scan EXCEPT ![t] = new] /\ pc' = pc
    <3>1. pc'[t] = "info" /\ scan'[t] = new
      BY <1>0, <1>1, <2>3
    <3>. QED
      BY <1>1, <1>4, <1>7, <3>1 DEF Goes, Searching
  <2>. QED
    BY <1>2, <2>1, <2>2, <2>3
<1>5. CASE ~Nowhere(name)
  <2>. DEFINE lsn == From("info", r, s.seg)
              n == Over("info", r, s.seg)
              W == Span(lsn, n)
  <2>1. Goes("info", r, s, out[t]) /\ "info" \in Searching
    BY <1>1 DEF Searching
  <2>2. lsn \in Nat /\ n \in Nat /\ lsn >= 1 /\ lsn + n - 1 <= LastLsn /\ s.size \in Nat
    BY <1>5, <2>1, Place
  <2>3. PICK j \in Nat : /\ FirstNamed(W, j, name) /\ j <= s.size
                         /\ Located(W[j], r.layer) = Lookup(r.path, r.layer)
    BY <1>5, <2>1, Place
  <2>4. Passed(s, lsn, n, name) /\ s.size = Length("info", r, s.seg)
    BY <1>5, <2>1 DEF Goes, Unmissed
  <2>. HIDE DEF lsn, n
  <2>5. databuf = s.lsn
    <3>1. s.lsn \in 1..LastLsn
      <4>1. s.lsn \in lsn..(lsn + n - 1) /\ LastLsn \in Nat
        BY <2>4, DiscAssumption DEF Passed, LastLsn
      <4>. QED
        BY <2>2, <4>1
    <3>. QED
      BY <1>1, <3>1 DEF BufferMine, Searching
  <2>. HIDE DEF name, s
  <2>6. /\ s.off <= j - 1
        /\ Named(s, name) => Rec(s) = W[j]
        /\ ~Named(s, name) => Passed(Turn(s), lsn, n, name)
    BY <1>0, <2>2, <2>3, <2>4, <2>5, ScanStep
  <2>7. s.off < s.size
    BY <1>0, <2>2, <2>3, <2>6 DEF Scans
  <2>8. CASE Named(s, name) /\ out' = [out EXCEPT ![t] = Entry(t)] /\ pc' = [pc EXCEPT ![t] = "ret"]
    <3>1. ~AtBlank(s)
      BY <2>8 DEF Named
    <3>2. Entry(t) = Located(Rec(s), r.layer)
      BY <3>1 DEF Entry, s
    <3>3. pc'[t] = "ret" /\ out'[t] = Lookup(r.path, r.layer)
      BY <1>0, <2>3, <2>6, <2>8, <3>2
    <3>. QED
      BY <3>3 DEF Goes, Searching
  <2>9. CASE ~Named(s, name) /\ scan' = [scan EXCEPT ![t] = new] /\ pc' = pc
    <3>1. pc'[t] = "info" /\ scan'[t] = new
      BY <1>0, <1>1, <2>9
    <3>2. Passed(new, lsn, n, name)
      BY <1>7, <2>6, <2>9 DEF Passed
    <3>3. Unmissed("info", r, new)
      BY <1>7, <2>4, <3>2 DEF Unmissed, lsn, n, name
    <3>. QED
      BY <1>1, <1>7, <3>1, <3>3 DEF Goes, Searching
  <2>10. ~(s.off >= s.size)
    BY <1>0, <2>2, <2>7 DEF Scans
  <2>. QED
    BY <1>2, <2>8, <2>9, <2>10 DEF s, name
<1>. QED
  BY <1>4, <1>5

\* A search finds what its path leads to, through every step.
LEMMA SearchesOn ==
  TypeOK /\ BufferMine /\ RequestsServed /\ Searches /\ [Next]_vars => Searches'
<1>. SUFFICES ASSUME TypeOK, BufferMine, RequestsServed, Searches, [Next]_vars
              PROVE  Searches'
  OBVIOUS
<1>0. /\ pc \in [Threads -> Pcs] /\ scan \in [Threads -> Scans] /\ out \in [Threads -> DirRec]
      /\ req \in [Threads -> [op : ByName \cup {"none", "dread"}, path : Seq(AllNames), layer : Nat]]
  BY DEF TypeOK, SearchOK, CallsOK
<1>1. SUFFICES ASSUME NEW u \in Threads, req'[u].op \in ByName
               PROVE  req'[u] \in Requests[u] /\ Goes(pc'[u], req'[u], scan'[u], out'[u])
  BY DEF Searches, Goes
<1>2. req[u].op \in ByName => req[u] \in Requests[u] /\ Goes(pc[u], req[u], scan[u], out[u])
  BY DEF Searches
<1>3. CASE pc'[u] = pc[u] /\ req'[u] = req[u] /\ scan'[u] = scan[u] /\ out'[u] = out[u]
  BY <1>1, <1>2, <1>3
<1>4. CASE UNCHANGED vars
  BY <1>3, <1>4 DEF vars
<1>5. ASSUME NEW t \in Threads, Call(t) \/ Close(t) \/ Step(t), t # u
      PROVE  pc'[u] = pc[u] /\ req'[u] = req[u] /\ scan'[u] = scan[u] /\ out'[u] = out[u]
  <2>1. CASE Call(t)
    BY <1>0, <1>5, <2>1 DEF Call
  <2>2. CASE Close(t)
    BY <2>2 DEF Close
  <2>3. CASE TakeFio(t)
    BY <1>0, <1>5, <2>3 DEF TakeFio
  <2>4. CASE TakeSrch(t)
    BY <1>0, <1>5, <2>4 DEF TakeSrch, NotHere, Descend, LookIn
  <2>5. CASE DirTurn(t)
    BY <1>0, <1>5, <2>5 DEF DirTurn, NotHere, Descend, LookIn
  <2>6. CASE TakeSrchAgain(t)
    BY <1>0, <1>5, <2>6 DEF TakeSrchAgain
  <2>7. CASE InfoTurn(t)
    BY <1>0, <1>5, <2>7 DEF InfoTurn, NotHere
  <2>8. CASE Return(t)
    BY <1>0, <1>5, <2>8 DEF Return
  <2>. QED
    BY <1>5, <2>1, <2>2, <2>3, <2>4, <2>5, <2>6, <2>7, <2>8 DEF Step
<1>6. ASSUME Call(u) PROVE req'[u] \in Requests[u] /\ Goes(pc'[u], req'[u], scan'[u], out'[u])
  <2>1. req'[u] \in Requests[u] /\ pc'[u] \in {"srch", "fio"}
    BY <1>0, <1>1, <1>6 DEF Call, Dread, ByName
  <2>. QED
    BY <2>1 DEF Goes, Searching
<1>7. ASSUME Close(u) \/ TakeFio(u)
      PROVE  req'[u] \in Requests[u] /\ Goes(pc'[u], req'[u], scan'[u], out'[u])
  <2>1. CASE Close(u)
    BY <1>3, <2>1 DEF Close
  <2>2. CASE TakeFio(u)
    <3>1. req'[u] = req[u] /\ req[u].op # "dread" /\ pc'[u] = "srch"
      BY <1>0, <1>1, <2>2 DEF TakeFio, ByName
    <3>. QED
      BY <1>1, <1>2, <3>1 DEF Goes, Searching
  <2>. QED
    BY <1>7, <2>1, <2>2
<1>8. ASSUME TakeSrch(u) \/ DirTurn(u) \/ TakeSrchAgain(u) \/ InfoTurn(u)
      PROVE  req'[u] \in Requests[u] /\ Goes(pc'[u], req'[u], scan'[u], out'[u])
  <2>1. req' = req
    BY <1>8 DEF TakeSrch, DirTurn, TakeSrchAgain, InfoTurn
  <2>2. req[u].op \in ByName /\ req[u] \in Requests[u] /\ Goes(pc[u], req[u], scan[u], out[u])
    BY <1>1, <1>2, <2>1
  <2>3. Goes(pc'[u], req[u], scan'[u], out'[u])
    BY <1>8, <2>2, GoesStarts, GoesTurns, GoesAgain, GoesInfo, Zenon
  <2>. QED
    BY <2>1, <2>2, <2>3
<1>9. ~Return(u)
  <2>1. Return(u) => req'[u] = NoRequest
    BY <1>0 DEF Return
  <2>. QED
    BY <1>1, <2>1 DEF NoRequest, ByName
<1>. QED
  BY <1>3, <1>4, <1>5, <1>6, <1>7, <1>8, <1>9 DEF Next, Step

\* The result of a search is what the path leads to on the disc, for every
\* number of threads and every disc and path that RequestsServed describes:
\* whoever reads sectors into databuf between two steps of the search, and
\* although it lets go of srch_sema before it returns a file's information.
THEOREM PathFound == RequestsServed => (Spec => []SearchIsLookup)
<1>. SUFFICES ASSUME RequestsServed PROVE Spec => []SearchIsLookup
  OBVIOUS
<1>1. Init => Searches
  BY DEF Init, Searches, NoRequest, ByName
<1>2. TypeOK /\ BufferMine /\ Searches /\ [Next]_vars => Searches'
  BY SearchesOn
<1>3. Searches => SearchIsLookup
  BY DEF Searches, SearchIsLookup, Goes
<1>. QED
  BY <1>1, <1>2, <1>3, SearchTypes, OneSearch, PTL DEF Spec

-----------------------------------------------------------------------------
(* What a listing of a directory returns.                                  *)

\* What a handle on a directory has listed, and where its next dread is: its
\* number counts down as the record it looks at moves on.
Held(h) ==
  LET entries == Disc[h.lsn] IN
  h.dir =>
    /\ Listable(DirOf(h))
    /\ IF h.ended THEN Len(h.listed) + 2 = Len(entries)
       ELSE Len(h.listed) = h.offset /\ h.offset + 2 <= Len(entries)
    /\ \A i \in 1..Len(h.listed) : h.listed[i] = entries[i + 2].name
NextName(h) ==
  IF h.offset + 3 > Len(Disc[h.lsn]) THEN "" ELSE Disc[h.lsn][h.offset + 3].name
Dreading(p, s, o, h) ==
  /\ h.dir /\ ~h.ended /\ p \in {"fio", "again", "info", "ret"}
  /\ p = "again" => s.lsn = h.lsn
  /\ p = "info" => /\ s.lsn = h.lsn /\ s.size = h.size /\ s.off = s.idx - 1
                   /\ s.idx + s.left = h.offset + 4
  /\ p = "ret" => o.name = NextName(h)
Listings ==
  \A t \in Threads : /\ Held(handle[t])
                     /\ req[t].op = "dread" => Dreading(pc[t], scan[t], out[t], handle[t])

\* A directory of one sector: its records are those of the sector.
LEMMA OneSector ==
  ASSUME NEW d, Listable(d)
  PROVE  LET entries == Disc[d.loc] IN
         /\ d.loc \in 1..LastLsn /\ entries \in Seq(DirRec) /\ Len(entries) >= 2
         /\ Records(d.loc) = entries /\ Entries(d) = entries
         /\ DirLen(d.loc) = d.size /\ d.size \in Nat /\ Len(entries) < d.size
         /\ \A i \in 1..Len(entries) : entries[i].name \notin {"", "none"}
<1>0. LastLsn \in Nat /\ SectorLen \in Nat
  BY DiscAssumption DEF LastLsn
<1>1. d.loc \in 1..LastLsn /\ DirLen(d.loc) = d.size /\ d.dir /\ Sectors(d) = 1
      /\ Len(Disc[d.loc]) >= 2
  BY DEF Listable, Sound
<1>2. d.size \in Nat /\ Sectors(d) * SectorLen <= d.size
  BY SoundSectors DEF Listable
<1>3. Disc[d.loc] \in Seq(DirRec) /\ Len(Disc[d.loc]) < SectorLen
  BY <1>1, DiscAssumption DEF LastLsn
<1>4. Len(Disc[d.loc]) < d.size
  <2>1. SectorLen <= d.size
    BY <1>0, <1>1, <1>2
  <2>. QED
    BY <1>0, <1>2, <1>3, <2>1
<1>5. Records(d.loc) = Disc[d.loc]
  BY <1>0, <1>1 DEF Records
<1>6. Entries(d) = Disc[d.loc]
  <2>0. d.loc \in Nat /\ d.loc >= 1 /\ d.loc + 0 - 1 <= LastLsn
    BY <1>0, <1>1
  <2>1. Span(d.loc, 0) = <<>> /\ Span(d.loc, 0) \in Seq(DirRec)
    BY <2>0, SpanProperties
  <2>2. Span(d.loc, 0 + 1) = Span(d.loc, 0) \o Records(d.loc + 0)
    <3>1. d.loc \in Nat /\ d.loc >= 1 /\ d.loc + 0 <= LastLsn /\ 0 \in Nat
      BY <1>0, <1>1
    <3>. QED
      BY <2>1, <3>1, SpanStep, Zenon
  <2>3. d.loc + 0 = d.loc /\ 0 + 1 = 1
    BY <1>1
  <2>4. Span(d.loc, 1) = <<>> \o Disc[d.loc]
    BY <1>5, <2>1, <2>2, <2>3
  <2>5. <<>> \o Disc[d.loc] = Disc[d.loc]
    BY <1>3
  <2>. QED
    BY <1>1, <2>4, <2>5 DEF Entries
<1>7. \A i \in 1..Len(Disc[d.loc]) : Disc[d.loc][i].name \notin {"", "none"}
  <2>1. \A i \in DOMAIN Disc[d.loc] : Disc[d.loc][i].name \notin {"", "none"}
    BY DEF Listable
  <2>2. DOMAIN Disc[d.loc] = 1..Len(Disc[d.loc])
    BY <1>3
  <2>. QED
    BY <2>1, <2>2
<1>. QED
  BY <1>1, <1>2, <1>3, <1>4, <1>5, <1>6, <1>7

\* The same for the directory of a handle.
LEMMA HandleSector ==
  ASSUME NEW h, h.dir, Held(h)
  PROVE  LET entries == Disc[h.lsn] IN
         /\ h.lsn \in 1..LastLsn /\ entries \in Seq(DirRec) /\ Len(entries) >= 2
         /\ Records(h.lsn) = entries /\ Entries(DirOf(h)) = entries
         /\ DirLen(h.lsn) = h.size /\ h.size \in Nat /\ Len(entries) < h.size
         /\ \A i \in 1..Len(entries) : entries[i].name \notin {"", "none"}
<1>1. Listable(DirOf(h))
  BY DEF Held
<1>2. DirOf(h).loc = h.lsn /\ DirOf(h).size = h.size
  BY DEF DirOf, NotFound
<1>. QED
  BY <1>1, <1>2, OneSector

\* A dread that goes on keeps what it is to find, in each of its steps.
LEMMA ReadsBegin ==
  ASSUME TypeOK, NEW t \in Threads, req[t].op = "dread", Held(handle[t]),
         Dreading(pc[t], scan[t], out[t], handle[t]), TakeSrchAgain(t)
  PROVE  Dreading(pc'[t], scan'[t], out'[t], handle[t])
<1>. DEFINE s == scan[t]
            h == handle[t]
            new == ScanFrom(h.lsn, h.size, s.seg, h.offset + 3)
<1>0. pc \in [Threads -> Pcs] /\ scan \in [Threads -> Scans] /\ h.offset \in Nat
  BY DEF TypeOK, SearchOK, CallsOK, Handles
<1>1. h.dir /\ ~h.ended /\ s.lsn = h.lsn
  BY DEF TakeSrchAgain, Dreading
<1>2. h.lsn \in 1..LastLsn /\ DirLen(h.lsn) = h.size
  BY <1>1, HandleSector
<1>3. databuf' = h.lsn /\ scan' = [scan EXCEPT ![t] = ScanFrom(s.lsn, DirLen(databuf'), s.seg, FileId(t))]
      /\ pc' = [pc EXCEPT ![t] = "info"]
  BY <1>1, <1>2 DEF TakeSrchAgain, Loaded
<1>4. FileId(t) = h.offset + 3
  BY DEF FileId
<1>5. scan'[t] = new /\ pc'[t] = "info"
  BY <1>0, <1>1, <1>2, <1>3, <1>4
<1>6. new.lsn = h.lsn /\ new.size = h.size /\ new.off = 0 /\ new.idx = 1 /\ new.left = h.offset + 3
  BY DEF ScanFrom
<1>. HIDE DEF new, h
<1>7. new.off = new.idx - 1 /\ new.idx + new.left = h.offset + 4
  BY <1>0, <1>6
<1>. QED
  BY <1>1, <1>5, <1>6, <1>7 DEF Dreading, h

\* A turn of the loop over the records: it ends on the wanted one, or moves on.
LEMMA ReadsTurn ==
  ASSUME TypeOK, BufferMine, NEW t \in Threads, req[t].op = "dread", Held(handle[t]),
         Dreading(pc[t], scan[t], out[t], handle[t]), InfoTurn(t)
  PROVE  Dreading(pc'[t], scan'[t], out'[t], handle[t])
<1>. DEFINE s == scan[t]
            h == handle[t]
            entries == Disc[h.lsn]
            new == [Turn(s) EXCEPT !.left = Turn(s).left - 1]
<1>0. /\ pc \in [Threads -> Pcs] /\ scan \in [Threads -> Scans] /\ out \in [Threads -> DirRec]
      /\ h.offset \in Nat /\ s \in Scans /\ s.idx >= 1 /\ databuf \in 0..LastLsn
  BY DEF TypeOK, SearchOK, CallsOK, Handles
<1>1. /\ pc[t] = "info" /\ s.left >= 1 /\ h.dir /\ ~h.ended
      /\ s.lsn = h.lsn /\ s.size = h.size /\ s.off = s.idx - 1 /\ s.idx + s.left = h.offset + 4
  BY DEF InfoTurn, Dreading, TypeOK, SearchOK
<1>2. /\ h.lsn \in 1..LastLsn /\ entries \in Seq(DirRec) /\ Records(h.lsn) = entries
      /\ h.size \in Nat /\ Len(entries) < h.size
  BY <1>1, HandleSector
<1>3. h.offset + 2 <= Len(entries)
  BY <1>1 DEF Held
<1>4. databuf = h.lsn
  BY <1>1, <1>2 DEF BufferMine, Searching
<1>5. s.idx \in Nat /\ s.left \in Nat /\ Len(entries) \in Nat
  BY <1>0, <1>1, <1>2 DEF Scans
<1>10. PICK idx \in Nat, left \in Nat, len \in Nat, off \in Nat, size \in Nat :
        /\ idx = s.idx /\ left = s.left /\ len = Len(entries) /\ off = h.offset /\ size = s.size
        /\ idx >= 1 /\ left >= 1 /\ idx + left = off + 4 /\ off + 2 <= len /\ len < size
        /\ s.off = idx - 1
  BY <1>0, <1>1, <1>2, <1>3, <1>5
<1>11. idx >= 1 /\ left >= 1 /\ idx + left = off + 4 /\ off + 2 <= len /\ len < size
  BY <1>10
<1>12. idx <= len + 1 /\ idx - 1 < size /\ (left = 1 => idx = off + 3) /\ (left # 1 => idx <= len)
      /\ (left >= 1 => (idx + 1) + (left - 1) = off + 4)
  BY <1>11
<1>6. s.idx <= Len(entries) + 1 /\ s.off < s.size
  BY <1>10, <1>12
<1>7. (AtBlank(s) <=> s.idx > Len(entries)) /\ Rec(s) = entries[s.idx]
  BY <1>2, <1>4 DEF AtBlank, Rec
<1>8. CASE s.left = 1
  <2>1. s.idx = h.offset + 3
    BY <1>8, <1>10, <1>12
  <2>2. pc'[t] = "ret" /\ out'[t] = Entry(t)
    <3>1. ~(s.off >= s.size)
      BY <1>0, <1>6 DEF Scans
    <3>2. Wanted(t)
      BY <1>8 DEF Wanted
    <3>3. out' = [out EXCEPT ![t] = Entry(t)] /\ pc' = [pc EXCEPT ![t] = "ret"]
      BY <3>1, <3>2 DEF InfoTurn
    <3>. QED
      BY <1>0, <3>3
  <2>3. Entry(t).name = NextName(h)
    <3>1. CASE AtBlank(s)
      <4>1. Entry(t).name = ""
        BY <3>1 DEF Entry, NotFound
      <4>. QED
        BY <1>7, <2>1, <3>1, <4>1 DEF NextName
    <3>2. CASE ~AtBlank(s)
      <4>1. s.idx \in 1..Len(entries)
        BY <1>0, <1>5, <1>7, <3>2
      <4>2. Rec(s) \in DirRec
        BY <1>2, <1>7, <4>1
      <4>3. Entry(t).name = Rec(s).name
        BY <3>2, <4>2 DEF Entry, Located, DirRec
      <4>. QED
        BY <1>7, <2>1, <3>2, <4>3 DEF NextName
    <3>. QED
      BY <3>1, <3>2
  <2>. QED
    BY <1>1, <2>2, <2>3 DEF Dreading
<1>9. CASE s.left # 1
  <2>1. s.idx <= Len(entries)
    BY <1>9, <1>10, <1>12
  <2>2. ~AtBlank(s)
    BY <1>5, <1>7, <2>1
  <2>3. pc'[t] = "info" /\ scan'[t] = new
    <3>1. ~(s.off >= s.size)
      BY <1>0, <1>6 DEF Scans
    <3>2. /\ scan' = [scan EXCEPT ![t] = [Turn(s) EXCEPT !.left = IF req[t].op = "dread" THEN @ - 1 ELSE @]]
          /\ ~Wanted(t) => pc' = pc
      BY <3>1 DEF InfoTurn
    <3>3. ~Wanted(t)
      BY <1>9 DEF Wanted
    <3>. QED
      BY <1>0, <1>1, <3>2, <3>3
  <2>4. Turn(s) = [s EXCEPT !.idx = s.idx + 1, !.off = s.off + 1]
    BY <2>2 DEF Turn
  <2>5. Turn(s).lsn = s.lsn /\ Turn(s).size = s.size /\ Turn(s).idx = s.idx + 1
        /\ Turn(s).off = s.off + 1 /\ Turn(s).left = s.left
    BY <1>0, <2>4 DEF Scans
  <2>6. Turn(s) \in Scans
    BY <1>0, TurnTyping
  <2>7. new.lsn = s.lsn /\ new.size = s.size /\ new.idx = s.idx + 1 /\ new.off = s.off + 1
        /\ new.left = s.left - 1
    BY <2>5, <2>6 DEF Scans
  <2>. HIDE DEF new
  <2>8. new.off = new.idx - 1 /\ new.idx + new.left = h.offset + 4
    BY <1>10, <1>12, <2>7
  <2>. QED
    BY <1>1, <2>3, <2>7, <2>8 DEF Dreading
<1>. QED
  BY <1>8, <1>9

\* The end of a dread: the name it found is the next of the directory.
LEMMA HeldAfter ==
  ASSUME TypeOK, NEW t \in Threads, req[t].op = "dread", Held(handle[t]),
         Dreading("ret", scan[t], out[t], handle[t])
  PROVE  Held(AfterDread(t))
<1>. DEFINE h == handle[t]
            entries == Disc[h.lsn]
            name == out[t].name
            new == AfterDread(t)
<1>0. h \in Handles /\ out[t] \in DirRec
  BY DEF TypeOK, CallsOK
<1>1. h.dir /\ ~h.ended /\ name = NextName(h)
  BY DEF Dreading
<1>2. /\ entries \in Seq(DirRec) /\ \A i \in 1..Len(entries) : entries[i].name \notin {"", "none"}
  BY <1>1, HandleSector
<1>3. /\ Listable(DirOf(h)) /\ Len(h.listed) = h.offset /\ h.offset + 2 <= Len(entries)
      /\ \A i \in 1..Len(h.listed) : h.listed[i] = entries[i + 2].name
  BY <1>1 DEF Held
<1>4. h.offset \in Nat /\ Len(entries) \in Nat /\ h.listed \in Seq(AllNames) /\ name \in AllNames
  <2>1. h.offset \in Nat /\ h.listed \in Seq(AllNames)
    BY <1>0 DEF Handles
  <2>2. name \in AllNames
    BY <1>0 DEF DirRec
  <2>3. Len(entries) \in Nat
    <3>1. entries \in Seq(DirRec)
      BY <1>2
    <3>. HIDE DEF entries
    <3>. QED
      BY <3>1, LenProperties
  <2>. QED
    BY <2>1, <2>2, <2>3
<1>5. Found(t)
  <2>1. name # "none"
    <3>1. CASE h.offset + 3 > Len(entries)
      BY <1>1, <3>1 DEF NextName
    <3>2. CASE ~(h.offset + 3 > Len(entries))
      <4>1. h.offset + 3 \in 1..Len(entries)
        BY <1>4, <3>2
      <4>. QED
        BY <1>1, <1>2, <3>2, <4>1 DEF NextName
    <3>. QED
      BY <3>1, <3>2
  <2>. QED
    BY <2>1 DEF Found, NotFound
<1>6. CASE name = ""
  <2>1. h.offset + 3 > Len(entries)
    <3>1. SUFFICES ASSUME ~(h.offset + 3 > Len(entries)) PROVE FALSE
      OBVIOUS
    <3>2. h.offset + 3 \in 1..Len(entries)
      BY <1>4, <3>1
    <3>. QED
      BY <1>1, <1>2, <1>6, <3>1, <3>2 DEF NextName
  <2>2. new.lsn = h.lsn /\ new.size = h.size /\ new.dir /\ new.ended /\ new.listed = h.listed
    BY <1>0, <1>1, <1>5, <1>6 DEF AfterDread, Handles
  <2>3. Len(h.listed) + 2 = Len(entries)
    BY <1>3, <1>4, <2>1
  <2>4. DirOf(new) = DirOf(h)
    BY <2>2 DEF DirOf
  <2>. HIDE DEF new, h
  <2>. QED
    BY <1>3, <2>2, <2>3, <2>4 DEF Held, new, h
<1>7. CASE name # ""
  <2>1. h.offset + 3 <= Len(entries) /\ name = entries[h.offset + 3].name
    <3>1. ~(h.offset + 3 > Len(entries)) /\ name = entries[h.offset + 3].name
      BY <1>1, <1>7 DEF NextName
    <3>. QED
      BY <1>4, <3>1
  <2>2. /\ new.lsn = h.lsn /\ new.size = h.size /\ new.dir /\ ~new.ended
        /\ new.offset = h.offset + 1 /\ new.listed = Append(h.listed, name)
    BY <1>0, <1>1, <1>5, <1>7 DEF AfterDread, Handles
  <2>3. DirOf(new) = DirOf(h)
    BY <2>2 DEF DirOf
  <2>4. PICK listed \in Seq(AllNames), off \in Nat, len \in Nat :
          listed = h.listed /\ off = h.offset /\ len = Len(entries)
    BY <1>4
  <2>5. /\ Len(Append(listed, name)) = Len(listed) + 1
        /\ \A i \in 1..Len(listed) : Append(listed, name)[i] = listed[i]
        /\ Append(listed, name)[Len(listed) + 1] = name
    BY <1>4
  <2>6. Len(listed) = off /\ off + 3 <= len
    BY <1>3, <2>1, <2>4
  <2>7. Len(Append(listed, name)) = off + 1 /\ (off + 1) + 2 <= len
    BY <2>5, <2>6
  <2>8. ASSUME NEW i \in 1..(off + 1) PROVE Append(listed, name)[i] = entries[i + 2].name
    <3>1. CASE i = off + 1
      <4>1. i + 2 = off + 3
        BY <3>1
      <4>. QED
        BY <2>1, <2>4, <2>5, <2>6, <3>1, <4>1
    <3>2. CASE i # off + 1
      <4>1. i \in 1..Len(listed)
        BY <2>6, <3>2
      <4>. QED
        BY <1>3, <2>4, <2>5, <4>1
    <3>. QED
      BY <3>1, <3>2
  <2>. HIDE DEF new, h
  <2>. QED
    BY <1>3, <2>2, <2>3, <2>4, <2>7, <2>8 DEF Held, new, h
<1>. QED
  BY <1>6, <1>7

\* A handle that has just been opened has listed nothing yet.
LEMMA HeldOpened ==
  ASSUME TypeOK, RequestsServed, NEW t \in Threads, req[t] \in Requests[t],
         req[t].op \in {"open", "dopen"}, out[t] = Lookup(req[t].path, req[t].layer)
  PROVE  Found(t) => Held(Opened(t))
<1>. DEFINE r == req[t]
            h == Opened(t)
<1>1. SUFFICES ASSUME Found(t), h.dir PROVE Held(h)
  BY DEF Held
<1>2. /\ h.dir = out[t].dir /\ h.lsn = out[t].loc /\ h.size = out[t].size
      /\ h.offset = 0 /\ h.listed = <<>> /\ ~h.ended
  BY <1>1 DEF Opened, NoHandle
<1>3. ValidLayer(r.layer)
  <2>1. out[t] # NotFound
    BY <1>1 DEF Found
  <2>2. r.layer = 0 \/ (r.layer = 1 /\ LayerBreak > 0)
    BY <2>1 DEF Lookup
  <2>. QED
    BY <2>2 DEF ValidLayer
<1>4. Listable(out[t])
  BY <1>1, <1>2, <1>3 DEF RequestsServed
<1>5. Listable(DirOf(h))
  <2>1. DirOf(h).loc = out[t].loc /\ DirOf(h).size = out[t].size /\ DirOf(h).dir
    BY <1>2 DEF DirOf, NotFound
  <2>. HIDE DEF h
  <2>. QED
    BY <1>1, <1>2, <1>4, <2>1 DEF Listable, Sound, Sectors
<1>6. Len(Disc[h.lsn]) >= 2
  BY <1>2, <1>4 DEF Listable
<1>. HIDE DEF h
<1>7. Len(h.listed) = 0 /\ 0 + 2 <= Len(Disc[h.lsn])
  <2>1. Len(Disc[h.lsn]) \in Nat
    <3>1. Disc[out[t].loc] \in Seq(DirRec)
      BY <1>4, OneSector
    <3>2. Len(Disc[out[t].loc]) \in Nat
      BY <3>1, LenProperties
    <3>. QED
      BY <1>2, <3>2
  <2>. QED
    BY <1>2, <1>6, <2>1
<1>. QED
  BY <1>1, <1>2, <1>5, <1>7 DEF Held

\* Every step of the calls keeps the listings.
LEMMA ListingsOn ==
  TypeOK /\ BufferMine /\ RequestsServed /\ Searches /\ Listings /\ [Next]_vars => Listings'
<1>. SUFFICES ASSUME TypeOK, BufferMine, RequestsServed, Searches, Listings, [Next]_vars
              PROVE  Listings'
  OBVIOUS
<1>0. /\ pc \in [Threads -> Pcs] /\ scan \in [Threads -> Scans] /\ out \in [Threads -> DirRec]
      /\ req \in [Threads -> [op : ByName \cup {"none", "dread"}, path : Seq(AllNames), layer : Nat]]
      /\ handle \in [Threads -> Handles]
  BY DEF TypeOK, SearchOK, CallsOK
<1>1. SUFFICES ASSUME NEW u \in Threads
               PROVE  /\ Held(handle'[u])
                      /\ req'[u].op = "dread" => Dreading(pc'[u], scan'[u], out'[u], handle'[u])
  BY DEF Listings, Held, Dreading, NextName
<1>2. /\ Held(handle[u])
      /\ req[u].op = "dread" => Dreading(pc[u], scan[u], out[u], handle[u])
  BY DEF Listings
<1>3. CASE pc'[u] = pc[u] /\ req'[u] = req[u] /\ scan'[u] = scan[u] /\ out'[u] = out[u] /\ handle'[u] = handle[u]
  BY <1>2, <1>3
<1>4. CASE UNCHANGED vars
  BY <1>3, <1>4 DEF vars
<1>5. ASSUME NEW t \in Threads, Call(t) \/ Close(t) \/ Step(t), t # u
      PROVE  /\ pc'[u] = pc[u] /\ req'[u] = req[u] /\ scan'[u] = scan[u] /\ out'[u] = out[u]
             /\ handle'[u] = handle[u]
  <2>1. CASE Call(t)
    BY <1>0, <1>5, <2>1 DEF Call
  <2>2. CASE Close(t)
    BY <1>0, <1>5, <2>2 DEF Close
  <2>3. CASE TakeFio(t)
    BY <1>0, <1>5, <2>3 DEF TakeFio
  <2>4. CASE TakeSrch(t)
    BY <1>0, <1>5, <2>4 DEF TakeSrch, NotHere, Descend, LookIn
  <2>5. CASE DirTurn(t)
    BY <1>0, <1>5, <2>5 DEF DirTurn, NotHere, Descend, LookIn
  <2>6. CASE TakeSrchAgain(t)
    BY <1>0, <1>5, <2>6 DEF TakeSrchAgain
  <2>7. CASE InfoTurn(t)
    BY <1>0, <1>5, <2>7 DEF InfoTurn, NotHere
  <2>8. CASE Return(t)
    BY <1>0, <1>5, <2>8 DEF Return
  <2>. QED
    BY <1>5, <2>1, <2>2, <2>3, <2>4, <2>5, <2>6, <2>7, <2>8 DEF Step
<1>6. CASE Call(u)
  <2>1. handle' = handle /\ pc' \in [Threads -> {"srch", "fio"} \cup Pcs]
    BY <1>0, <1>6 DEF Call
  <2>2. req'[u].op = "dread" => handle[u].dir /\ ~handle[u].ended /\ pc'[u] = "fio"
    <3>1. ASSUME NEW r \in Requests[u], req' = [req EXCEPT ![u] = r] PROVE req'[u].op # "dread"
      BY <1>0, <3>1, RequestsAssumption DEF ByName
    <3>2. CASE /\ handle[u].dir /\ ~handle[u].ended
               /\ pc' = [pc EXCEPT ![u] = "fio"]
      BY <1>0, <3>2
    <3>. QED
      BY <1>6, <3>1, <3>2 DEF Call
  <2>. QED
    BY <1>2, <2>1, <2>2 DEF Dreading
<1>7. CASE Close(u)
  <2>1. handle'[u] = NoHandle /\ req' = req /\ pc[u] = "idle"
    BY <1>0, <1>7 DEF Close
  <2>2. req[u].op # "dread"
    BY <1>2, <2>1 DEF Dreading
  <2>3. ~NoHandle.dir
    BY DEF NoHandle
  <2>. QED
    BY <2>1, <2>2, <2>3 DEF Held
<1>8. CASE TakeFio(u)
  <2>1. handle' = handle /\ req' = req
    BY <1>8 DEF TakeFio
  <2>2. ASSUME req[u].op = "dread" PROVE pc'[u] = "again" /\ scan'[u].lsn = handle[u].lsn
    BY <1>0, <1>8, <2>2 DEF TakeFio, Scans
  <2>. QED
    BY <1>2, <2>1, <2>2 DEF Dreading
<1>9. CASE TakeSrch(u) \/ DirTurn(u)
  <2>1. handle' = handle /\ req' = req /\ pc[u] \in {"srch", "dirs"}
    BY <1>9 DEF TakeSrch, DirTurn
  <2>2. req[u].op # "dread"
    BY <1>2, <2>1 DEF Dreading
  <2>. QED
    BY <1>2, <2>1, <2>2
<1>10. CASE TakeSrchAgain(u) \/ InfoTurn(u)
  <2>1. handle' = handle /\ req' = req
    BY <1>10 DEF TakeSrchAgain, InfoTurn
  <2>2. req[u].op = "dread" => Dreading(pc'[u], scan'[u], out'[u], handle[u])
    BY <1>2, <1>10, ReadsBegin, ReadsTurn
  <2>. QED
    BY <1>2, <2>1, <2>2
<1>11. CASE Return(u)
  <2>0. pc[u] = "ret"
    BY <1>11 DEF Return
  <2>1. req'[u].op # "dread"
    BY <1>0, <1>11 DEF Return, NoRequest
  <2>2. CASE req[u].op \in {"open", "dopen"} /\ Found(u)
    <3>1. handle'[u] = Opened(u)
      BY <1>0, <1>11, <2>2 DEF Return
    <3>2. req[u] \in Requests[u] /\ out[u] = Lookup(req[u].path, req[u].layer)
      BY <2>0, <2>2 DEF Searches, Goes, ByName
    <3>. QED
      BY <2>1, <2>2, <3>1, <3>2, HeldOpened
  <2>3. CASE req[u].op = "dread"
    <3>1. handle'[u] = AfterDread(u)
      BY <1>0, <1>11, <2>3 DEF Return
    <3>. QED
      BY <1>2, <2>0, <2>1, <2>3, <3>1, HeldAfter
  <2>4. CASE req[u].op # "dread" /\ ~(req[u].op \in {"open", "dopen"} /\ Found(u))
    <3>1. handle'[u] = handle[u]
      BY <1>0, <1>11, <2>4 DEF Return
    <3>. QED
      BY <1>2, <2>1, <3>1
  <2>. QED
    BY <2>2, <2>3, <2>4
<1>. QED
  BY <1>3, <1>4, <1>5, <1>6, <1>7, <1>8, <1>9, <1>10, <1>11 DEF Next, Step

\* The invariant says what the property does, in whole sequences.
LEMMA ListedIs ==
  ASSUME NEW h \in Handles, h.dir, Held(h)
  PROVE  LET entries == Entries(DirOf(h))
             all == SubSeq(Names(entries), 3, Len(entries))
         IN IsPrefix(h.listed, all) /\ (h.ended => h.listed = all)
<1>. DEFINE entries == Entries(DirOf(h))
            all == SubSeq(Names(entries), 3, Len(entries))
            listed == h.listed
<1>1. entries = Disc[h.lsn] /\ entries \in Seq(DirRec) /\ Len(entries) >= 2
  BY HandleSector
<1>2. /\ h.ended => Len(listed) + 2 = Len(entries)
      /\ Len(listed) + 2 <= Len(entries)
      /\ \A i \in 1..Len(listed) : listed[i] = entries[i + 2].name
  <2>1. \A i \in 1..Len(listed) : listed[i] = entries[i + 2].name
    BY <1>1 DEF Held
  <2>2. h.ended => Len(listed) + 2 = Len(entries)
    BY <1>1 DEF Held
  <2>3. ~h.ended => Len(listed) + 2 <= Len(entries)
    BY <1>1 DEF Held
  <2>. QED
    BY <1>1, <2>1, <2>2, <2>3
<1>3. listed \in Seq(AllNames)
  BY DEF Handles
<1>. HIDE DEF entries, listed
<1>4. PICK l \in Nat, n \in Nat : l = Len(listed) /\ n = Len(entries)
  BY <1>1, <1>3
<1>5. Names(entries) = [i \in 1..n |-> entries[i].name] /\ \A i \in 1..n : entries[i].name \in AllNames
  <2>1. \A i \in 1..n : entries[i] \in DirRec
    BY <1>1, <1>4
  <2>2. DOMAIN entries = 1..n
    BY <1>1, <1>4
  <2>. QED
    BY <2>1, <2>2 DEF Names, DirRec
<1>6. /\ all \in Seq(AllNames) /\ Len(all) = n - 2
      /\ \A i \in 1..(n - 2) : all[i] = entries[i + 2].name
  <2>1. \A i \in 3..n : Names(entries)[i] \in AllNames
    BY <1>5
  <2>2. /\ SubSeq(Names(entries), 3, n) \in Seq(AllNames)
        /\ Len(SubSeq(Names(entries), 3, n)) = IF 3 <= n THEN n - 3 + 1 ELSE 0
        /\ \A i \in 1..(n - 3 + 1) : SubSeq(Names(entries), 3, n)[i] = Names(entries)[3 + i - 1]
    BY <2>1, SubSeqProperties
  <2>3. n >= 2
    BY <1>1, <1>4
  <2>4. n - 3 + 1 = n - 2 /\ (IF 3 <= n THEN n - 3 + 1 ELSE 0) = n - 2
    BY <2>3
  <2>5. \A i \in 1..(n - 2) : 3 + i - 1 = i + 2 /\ i + 2 \in 1..n
    OBVIOUS
  <2>6. all = SubSeq(Names(entries), 3, n)
    BY <1>4
  <2>. HIDE DEF all
  <2>7. all \in Seq(AllNames) /\ Len(all) = n - 2
    BY <2>2, <2>4, <2>6
  <2>8. ASSUME NEW i \in 1..(n - 2) PROVE all[i] = entries[i + 2].name
    <3>1. all[i] = Names(entries)[3 + i - 1]
      BY <2>2, <2>4, <2>6
    <3>. QED
      BY <1>5, <2>5, <3>1
  <2>. QED
    BY <2>7, <2>8
<1>. HIDE DEF all
<1>7. /\ l <= n - 2 /\ (h.ended => l = n - 2)
      /\ \A i \in 1..l : listed[i] = all[i]
  <2>1. l + 2 <= n /\ (h.ended => l + 2 = n)
    BY <1>2, <1>4
  <2>2. \A i \in 1..l : i \in 1..(n - 2) /\ listed[i] = entries[i + 2].name
    BY <1>2, <1>4, <2>1
  <2>. QED
    BY <1>6, <2>1, <2>2
<1>8. h.ended => listed = all
  BY <1>3, <1>4, <1>6, <1>7
<1>9. IsPrefix(listed, all)
  <2>1. SubSeq(listed, 1, l) = SubSeq(all, 1, l)
    <3>1. /\ SubSeq(listed, 1, l) \in Seq(AllNames) /\ Len(SubSeq(listed, 1, l)) = l
          /\ \A i \in 1..l : SubSeq(listed, 1, l)[i] = listed[i]
      <4>1. \A i \in 1..l : listed[i] \in AllNames
        BY <1>3, <1>4
      <4>. QED
        BY <4>1, SubSeqProperties
    <3>2. /\ SubSeq(all, 1, l) \in Seq(AllNames) /\ Len(SubSeq(all, 1, l)) = l
          /\ \A i \in 1..l : SubSeq(all, 1, l)[i] = all[i]
      <4>1. \A i \in 1..l : all[i] \in AllNames
        BY <1>6, <1>7
      <4>. QED
        BY <4>1, SubSeqProperties
    <3>. QED
      BY <1>7, <3>1, <3>2
  <2>. QED
    BY <1>4, <1>6, <1>7, <2>1 DEF IsPrefix
<1>. QED
  BY <1>8, <1>9 DEF all, entries, listed

\* What dread returns of a directory is its entries, in order, each once, and
\* when it ends all of them, on every disc and in every call RequestsServed
\* describes: whichever searches run between two of its reads, and whoever
\* read other sectors into databuf meanwhile.
THEOREM AllListed == RequestsServed => (Spec => []ListingExact)
<1>. SUFFICES ASSUME RequestsServed PROVE Spec => []ListingExact
  OBVIOUS
<1>1. Init => Searches /\ Listings
  BY DEF Init, Searches, Listings, Held, NoRequest, NoHandle, ByName
<1>2. TypeOK /\ BufferMine /\ Searches /\ [Next]_vars => Searches'
  BY SearchesOn
<1>3. TypeOK /\ BufferMine /\ Searches /\ Listings /\ [Next]_vars => Listings'
  BY ListingsOn
<1>4. TypeOK /\ Listings => ListingExact
  BY ListedIs DEF Listings, ListingExact, TypeOK, CallsOK
<1>. QED
  BY <1>1, <1>2, <1>3, <1>4, SearchTypes, OneSearch, PTL DEF Spec
=============================================================================
