------------------------------ MODULE FatChain ------------------------------
(***************************************************************************)
(* The clusters of a FAT volume as usbhdfsd keeps them: the table, the     *)
(* stack of free clusters, the one cluster chain it remembers, and the     *)
(* open files with the positions they remember of their chains.  A call    *)
(* holds the file system's lock from start to end (UsbMass), so it is one  *)
(* action.  Sizes are in sectors.  The volume is written through the cache *)
(* of SCache, which is left out here, and the sectors it reads are good.   *)
(***************************************************************************)
EXTENDS Integers, Sequences, FiniteSets, SequencesExt

CONSTANTS
  LastCluster, \* the data clusters are 2 .. LastCluster
  ClusterSize, \* sectors of a cluster
  BufSize,     \* MAX_DIR_CLUSTER: entries of cbuf
  NumHints,    \* DIR_CHAIN_SIZE: positions a file remembers
  StackSize,   \* MAX_CLUSTER_STACK
  File,        \* files of the root directory
  Roots,       \* first clusters of the root directory; 0: it has none (FAT12, FAT16)
  MaxRoot,     \* bound: clusters the root directory grows to
  WriteSize,   \* bound: sizes of the writes
  MaxSize      \* bound: size of a file

ASSUME FatAssumption ==
  /\ {ClusterSize, StackSize} \subseteq Nat \ {0}
  /\ LastCluster \in Nat /\ LastCluster >= 2
  /\ BufSize \in Nat /\ BufSize >= 2 /\ NumHints \in Nat /\ NumHints >= 2
  /\ Roots \subseteq {0} \cup (2 .. LastCluster)
  /\ MaxRoot < BufSize /\ WriteSize \subseteq Nat \ {0}

Cluster == 2 .. LastCluster
Free == 0
Eof == -1
Entry == {Free, Eof} \cup Cluster

VARIABLES
  vol,     \* the fat_driver of the volume: table, stack, remembered chain
  root,    \* partBpb.rootDirCluster
  start,   \* directory entries: the first cluster of a file, 0 for no file
  dirSize, \* directory entries: the size of a file
  handle,  \* the open files: fat_dir and sizeChange; NoHandle for a file that is not open
  denied   \* has a call failed because no cluster was found?

vars == <<vol, root, start, dirSize, handle, denied>>

Hint == [cluster : {0} \cup Cluster, index : Nat]
NoHandle == [open |-> FALSE]

\* The domains of the variables.
TypeOK ==
  /\ vol \in [fat : [0 .. LastCluster -> Entry], \* the table; 0 and 1 hold the media descriptor
              stack : Seq(Cluster),              \* clStack, the next one to pop first
              from : 0 .. LastCluster,           \* clStackLast
              of : {0, -1} \cup Cluster,         \* lastChainCluster
              n : -1 .. BufSize,                 \* lastChainResult
              buf : [1 .. BufSize -> {0} \cup Cluster]]  \* cbuf
  /\ Len(vol.stack) <= StackSize
  /\ root \in Roots
  /\ start \in [File -> {0} \cup Cluster] /\ dirSize \in [File -> 0 .. MaxSize]
  /\ \A f \in File : handle[f] # NoHandle =>
       /\ handle[f].size \in 0 .. MaxSize /\ handle[f].last \in {0} \cup Cluster
       /\ handle[f].write \in BOOLEAN /\ handle[f].grew \in BOOLEAN
       /\ handle[f].hints \in [0 .. NumHints - 1 -> Hint]
  /\ denied \in BOOLEAN

(***************************************************************************)
(* Chains.  Each operator takes the volume and returns what it becomes.    *)
(***************************************************************************)

\* fat_getClusterChain16: at most k entries that follow cluster c
RECURSIVE Followers(_, _, _)
Followers(fat, c, k) ==
  IF k = 0 \/ fat[c] = Eof THEN <<>>
  ELSE <<fat[c]>> \o Followers(fat, fat[c], k - 1)

ChainInto(v, c, first) ==
  IF first THEN <<c>> \o Followers(v.fat, c, BufSize - 1) ELSE Followers(v.fat, c, BufSize)

\* fat_getClusterChain: the chain is not read again when c is the last one asked for
Load(v, c, first) ==
  IF c = v.of THEN v
  ELSE LET s == ChainInto(v, c, first)
       IN [v EXCEPT !.of = c, !.n = Len(s),
                    !.buf = [i \in 1 .. BufSize |-> IF i <= Len(s) THEN s[i] ELSE v.buf[i]]]

\* a mutant: nothing is forgotten
InvalidateNothing(v) == v

Invalidate(v) == [v EXCEPT !.of = 0]

SetEntry(v, c, value) == [v EXCEPT !.fat[c] = value]

\* fat_appendClusterChain, fat_createClusterChain
AppendCluster(v, c, new) == SetEntry(SetEntry(v, c, new), new, Eof)
CreateChain(v, c) == SetEntry(v, c, Eof)

\* fat_readEmptyClusters: from the last cluster it put on the stack, never from the start
Refill(v) ==
  LET found == SelectSeq([c \in 1 .. LastCluster |-> c], LAMBDA c : c >= v.from /\ v.fat[c] = Free)
      taken == SubSeq(found, 1, IF Len(found) < StackSize THEN Len(found) ELSE StackSize)
  IN [v EXCEPT !.stack = taken, !.from = IF taken = <<>> THEN v.from ELSE Last(taken)]

\* fat_getFreeCluster: the cluster, 0 for none, and the volume
Popped(w, current) ==
  LET c == Head(w.stack)
      u == [w EXCEPT !.stack = Tail(@)]
  IN IF w.stack = <<>> THEN [c |-> 0, v |-> w]
     ELSE [c |-> c, v |-> IF current = 0 THEN CreateChain(u, c) ELSE AppendCluster(u, current, c)]
GetFree(v, current) == Popped(IF v.stack = <<>> THEN Refill(v) ELSE v, current)

\* fat_writeFile: k clusters appended one at a time, until one is not found
RECURSIVE Extend(_, _, _)
Extend(v, last, k) ==
  IF k = 0 THEN [c |-> last, v |-> v]
  ELSE LET g == GetFree(v, last) IN IF g.c = 0 THEN g ELSE Extend(g.v, g.c, k - 1)

\* a mutant: only the clusters of the first buffer are freed
DeleteBuffer(v, c) ==
  LET w == Load(v, c, TRUE)
  IN Invalidate([w EXCEPT !.fat = [x \in DOMAIN w.fat |->
       IF \E i \in 1 .. w.n : w.buf[i] = x THEN Free ELSE w.fat[x]]])

\* fat_deleteClusterChain: a buffer at a time, keeping the last cluster of a full one
RECURSIVE DeleteChain(_, _)
DeleteChain(v, c) ==
  LET w == Load(v, c, TRUE)
      drop(k) == Invalidate([w EXCEPT !.fat = [x \in DOMAIN w.fat |->
                   IF \E i \in 1 .. k : w.buf[i] = x THEN Free ELSE w.fat[x]]])
  IN IF w.n = BufSize THEN DeleteChain(drop(w.n - 1), w.buf[w.n]) ELSE drop(w.n)

\* fat_setFatDirChain: the clusters of the file as it sees them
RECURSIVE ChainParts(_, _, _)
ChainParts(v, c, from) ==
  LET w == Load(v, c, TRUE)
      here == SubSeq(w.buf, from, w.n)
      rest == ChainParts(w, w.buf[BufSize], 2)
      lastAt == IF w.n >= from THEN w.n ELSE from - 1
  IN IF w.n >= BufSize THEN [rest EXCEPT !.seq = here \o @]
     ELSE [v |-> w, seq |-> here, last |-> w.buf[lastAt]]

\* the hints: cluster j-th of NumHints into the file; those not reached keep what they were
HintsOf(old, seq, size) ==
  LET block == size \div NumHints
      reach(j) == {i \in 1 .. Len(seq) : i * ClusterSize >= j * block}
      at(j) == CHOOSE i \in reach(j) : \A k \in reach(j) : i <= k
  IN [j \in DOMAIN old |->
        IF j = 0 \/ reach(j) = {} THEN old[j] ELSE [cluster |-> seq[at(j)], index |-> at(j) - 1]]

\* a file's handle after fat_setFatDirChain, and the volume
SetFatDirChain(v, h) ==
  LET p == ChainParts(v, h.hints[0].cluster, 1)
  IN [v |-> p.v, h |-> [h EXCEPT !.last = p.last, !.hints = HintsOf(@, p.seq, h.size)]]

\* fat_getClusterAtFilePos
HintAt(h, pos) ==
  LET inside(i) == h.hints[i].index * ClusterSize <= pos /\ h.hints[i + 1].index * ClusterSize > pos
      S == {i \in 0 .. NumHints - 2 : inside(i)}
  IN h.hints[IF S = {} THEN NumHints - 1 ELSE CHOOSE i \in S : \A k \in S : i <= k]

\* the loops of fat_readFile and fat_writeFile: first whole buffers are skipped, then the
\* clusters are visited until none are needed or the chain ends
RECURSIVE SkipParts(_, _, _, _)
SkipParts(v, c, more, skip) ==
  LET w == Load(v, c, FALSE)
      full == w.n >= BufSize
  IN IF skip < BufSize THEN [v |-> v, c |-> c, more |-> more, skip |-> skip]
     ELSE SkipParts(w, IF full THEN w.buf[BufSize] ELSE c, more /\ full, skip - BufSize)

RECURSIVE Walk(_, _, _, _, _)
Visit(s, need) ==
  LET end == IF s.v.n < s.skip + need THEN s.v.n ELSE s.skip + need
      here == SubSeq(s.v.buf, s.skip + 1, end)
      rest == Walk(s.v, s.c, FALSE, 0, need - Len(here))
  IN IF s.more /\ Len(here) < need THEN [rest EXCEPT !.path = here \o @]
     ELSE [v |-> s.v, path |-> here]
Walk(v, c, first, skip, need) ==
  LET w == Load(v, c, first)
      full == w.n >= BufSize
  IN Visit(SkipParts(w, IF full THEN w.buf[BufSize] ELSE c, full, skip), need)

\* the clusters a transfer of n sectors at pos goes through
Touched(pos, n) == ((pos % ClusterSize) + n + ClusterSize - 1) \div ClusterSize

Transfer(v, h, pos, n) ==
  LET at == HintAt(h, pos)
  IN Walk(v, at.cluster, TRUE, (pos - at.index * ClusterSize) \div ClusterSize, Touched(pos, n))

Moved(path, pos, n) ==
  IF Len(path) = Touched(pos, n) THEN n
  ELSE IF path = <<>> THEN 0 ELSE Len(path) * ClusterSize - (pos % ClusterSize)

-----------------------------------------------------------------------------
(* fat_writeFile and the rest of fs_write *)

\* clusters a file of this size has, as fat_writeFile computes it
ClustersFor(size) == IF size = 0 THEN 1 ELSE (size + ClusterSize - 1) \div ClusterSize

Missing(h, pos, n) ==
  LET over == pos + n - ClustersFor(h.size) * ClusterSize
  IN IF over <= 0 THEN 0 ELSE (over + ClusterSize - 1) \div ClusterSize

\* what a write that went through the clusters of t did to the file g: denied, the clusters,
\* and what the file and volume become; its positions are read again when it has grown
Written(t, g, longer, pos, n) ==
  LET end == pos + Moved(t.path, pos, n)
      grown == [g EXCEPT !.size = end, !.grew = TRUE]
      ready == SetFatDirChain(t.v, grown)
      result(v, h) == [denied |-> FALSE, path |-> t.path, v |-> v, h |-> h]
  IN IF t.path = <<>> \/ end <= g.size THEN result(t.v, g)
     ELSE IF longer THEN result(ready.v, ready.h) ELSE result(t.v, grown)

\* a write after e was appended to the file
WriteLonger(h, e, pos, n) ==
  LET g == [h EXCEPT !.last = e.c]
  IN IF e.c = 0 THEN [denied |-> TRUE, path |-> <<>>, v |-> e.v, h |-> h]
     ELSE Written(Transfer(Invalidate(e.v), g, pos, n), g, TRUE, pos, n)

WriteFile(v, h, pos, n) ==
  LET k == Missing(h, pos, n)
  IN IF k = 0 THEN Written(Transfer(v, h, pos, n), h, FALSE, pos, n)
     ELSE WriteLonger(h, Extend(v, h.last, k), pos, n)

-----------------------------------------------------------------------------
(* The calls *)

Opened(f) == handle[f] # NoHandle

\* fat_getDirentrySectorData for the root: a chain on FAT32 only
SearchRoot(v) == IF root = 0 THEN v ELSE Load(v, root, TRUE)

Fresh(c, size, write) ==
  [open |-> TRUE, size |-> size, last |-> 0, write |-> write, grew |-> FALSE,
   hints |-> [j \in 0 .. NumHints - 1 |-> [cluster |-> IF j = 0 THEN c ELSE 0, index |-> 0]]]

\* fat_getFileStartCluster at the end of fs_open
Attach(f, v, c, size, write) ==
  LET s == SetFatDirChain(SearchRoot(v), Fresh(c, size, write))
  IN vol' = s.v /\ handle' = [handle EXCEPT ![f] = s.h]

\* fat_truncateFile
TruncateChain(v, c) == CreateChain(DeleteChain(v, c), c)

\* fs_open of a file that is there, with O_TRUNC or not
OpenThere(f, write, trunc) ==
  LET v == SearchRoot(vol)
      cut == TruncateChain(v, start[f])
  IN /\ ~Opened(f) /\ start[f] # 0 /\ (trunc => write)
     /\ dirSize' = IF trunc THEN [dirSize EXCEPT ![f] = 0] ELSE dirSize
     /\ Attach(f, IF trunc THEN cut ELSE v, start[f], dirSize'[f], write)
     /\ UNCHANGED <<root, start, denied>>

\* enlargeDirentryClusterSpace: the entry may need one more cluster
EnlargeRoot(v) ==
  LET w == SearchRoot(v)
      g == GetFree(w, w.buf[w.n])
  IN [c |-> g.c, v |-> Invalidate(g.v)]

RootLen(v) == IF root = 0 THEN 0 ELSE Len(ChainInto(v, root, TRUE))

\* fs_open with O_CREAT of a file that is not there (fat_modifyDirSpace).  In a root
\* directory that is a chain fat_createFile returns the directory's cluster as that of a
\* file that was there, and with O_TRUNC fs_open cuts the directory to one cluster: a bound
\* is that it has no more, since the entries of the rest would be lost (FatDir)
OpenNew(f, enlarge, trunc) ==
  LET e == IF enlarge THEN EnlargeRoot(SearchRoot(vol)) ELSE [c |-> root, v |-> SearchRoot(vol)]
      g == GetFree(e.v, 0)
      w == IF trunc /\ root # 0 THEN TruncateChain(g.v, root) ELSE g.v
  IN /\ ~Opened(f) /\ start[f] = 0
     /\ enlarge => root # 0 /\ RootLen(vol) < MaxRoot
     /\ trunc => ~enlarge /\ RootLen(vol) <= 1
     /\ IF enlarge /\ e.c = 0 THEN
          vol' = e.v /\ denied' = TRUE /\ UNCHANGED <<start, dirSize, handle>>
        ELSE IF g.c = 0 THEN
          vol' = g.v /\ denied' = TRUE /\ UNCHANGED <<start, dirSize, handle>>
        ELSE
          /\ start' = [start EXCEPT ![f] = g.c] /\ dirSize' = [dirSize EXCEPT ![f] = 0]
          /\ Attach(f, SearchRoot(w), g.c, 0, TRUE)
          /\ UNCHANGED denied
     /\ UNCHANGED root

\* fs_read of n sectors at pos; fs_lseek can put filePos anywhere up to the size
Read(f, pos, n) ==
  /\ Opened(f) /\ pos + n <= handle[f].size
  /\ vol' = Transfer(vol, handle[f], pos, n).v
  /\ UNCHANGED <<root, start, dirSize, handle, denied>>

\* fs_write
Write(f, pos, n) ==
  /\ Opened(f) /\ handle[f].write
  /\ pos <= handle[f].size /\ pos + n <= MaxSize
  /\ \E r \in {WriteFile(vol, handle[f], pos, n)} :
       /\ vol' = r.v /\ handle' = [handle EXCEPT ![f] = r.h]
       /\ denied' = (denied \/ r.denied)
  /\ UNCHANGED <<root, start, dirSize>>

\* fs_close: fat_updateSfn
Close(f) ==
  /\ Opened(f)
  /\ dirSize' = IF handle[f].write /\ handle[f].grew THEN [dirSize EXCEPT ![f] = handle[f].size]
                ELSE dirSize
  /\ handle' = [handle EXCEPT ![f] = NoHandle]
  /\ UNCHANGED <<vol, root, start, denied>>

\* fs_remove of a file that is not open: the entry first, then its chain
RemoveFile(f) ==
  /\ ~Opened(f) /\ start[f] # 0
  /\ vol' = DeleteChain(SearchRoot(vol), start[f])
  /\ start' = [start EXCEPT ![f] = 0] /\ dirSize' = [dirSize EXCEPT ![f] = 0]
  /\ UNCHANGED <<root, handle, denied>>

\* fat_mount, with an empty volume
Init ==
  /\ root \in Roots
  /\ vol = [fat |-> [c \in 0 .. LastCluster |-> IF c < 2 \/ c = root THEN Eof ELSE Free],
            stack |-> <<>>, from |-> 0, of |-> -1, n |-> -1, buf |-> [i \in 1 .. BufSize |-> 0]]
  /\ start = [f \in File |-> 0] /\ dirSize = [f \in File |-> 0]
  /\ handle = [f \in File |-> NoHandle] /\ denied = FALSE

Position == 0 .. MaxSize

Next ==
  \E f \in File :
    \/ \E write, trunc \in BOOLEAN : OpenThere(f, write, trunc)
    \/ \E enlarge, trunc \in BOOLEAN : OpenNew(f, enlarge, trunc)
    \/ \E pos \in Position, n \in WriteSize : Read(f, pos, n) \/ Write(f, pos, n)
    \/ Close(f)
    \/ RemoveFile(f)

Spec == Init /\ [][Next]_vars

-----------------------------------------------------------------------------
(* Properties *)

\* the clusters of the table from c on, cut where they cannot be a chain
Chain(c) == <<c>> \o Followers(vol.fat, c, LastCluster)

Heads == {start[f] : f \in File} \cup {root}
SizeOf(f) == IF Opened(f) /\ handle[f].size > dirSize[f] THEN handle[f].size ELSE dirSize[f]

\* A cluster on the stack is free in the table and is there once, so that no cluster is
\* given to two files (fat_getFreeCluster and fat_readEmptyClusters).
StackFree ==
  /\ \A i \in DOMAIN vol.stack : vol.fat[vol.stack[i]] = Free
  /\ Cardinality(ToSet(vol.stack)) = Len(vol.stack)

\* Every file, and the root directory, has a chain of its own that ends, in which no
\* cluster is free, and which is long enough for its size, also while the file grows and
\* when a write has failed for want of space (fat_appendClusterChain, fat_deleteClusterChain).
ChainsApart ==
  /\ StackFree
  /\ \A c \in Heads \ {0} :
       /\ Last(Chain(c)) \in Cluster /\ vol.fat[Last(Chain(c))] = Eof
       /\ \A d \in Heads \ {0, c} : ToSet(Chain(c)) \cap ToSet(Chain(d)) = {}
  /\ \A f, g \in File : start[f] # 0 /\ start[f] = start[g] => f = g
  /\ \A f \in File : start[f] # 0 => Len(Chain(start[f])) >= ClustersFor(SizeOf(f))

\* Unless a call has failed for want of space, every cluster that is not free is in the
\* chain of a file or of the root directory: none is lost by a truncation, a removal or
\* by an open file's idea of its last cluster (fat_setFatDirChain, fat_writeFile).
NothingLost ==
  ~denied => \A c \in Cluster : vol.fat[c] # Free => \E d \in Heads \ {0} : c \in ToSet(Chain(d))

\* The table gives every cluster one owner, or none when it is free.
ChainsSound == ChainsApart /\ NothingLost

\* The clusters of a file that a transfer at pos should go through.
Place(c, pos, n) ==
  SubSeq(Chain(c), pos \div ClusterSize + 1, pos \div ClusterSize + Touched(pos, n))

\* fat_getClusterChain remembers the cluster it was asked for and not whether it was to
\* be the first entry.  A long transfer asks for what follows the last cluster of a full
\* buffer; these are the files no hint of which is such a cluster for another hint.
HintsClear(h) ==
  \A i, j \in DOMAIN h.hints :
    h.hints[i].index > h.hints[j].index =>
      (h.hints[i].index - h.hints[j].index + 1) % BufSize # 0

\* the clusters that a read, or a write, of n sectors at pos goes through are those that
\* hold the sectors in the file's chain
ReadInPlace(f, pos, n) ==
  pos + n <= handle[f].size => Transfer(vol, handle[f], pos, n).path = Place(start[f], pos, n)
WriteInPlace(f, pos, n) ==
  handle[f].write /\ pos <= handle[f].size /\ pos + n <= MaxSize =>
    LET r == WriteFile(vol, handle[f], pos, n)
        after == <<start[f]>> \o Followers(r.v.fat, start[f], LastCluster)
        at == pos \div ClusterSize
    IN r.denied \/ r.path = SubSeq(after, at + 1, at + Touched(pos, n))

\* A read or a write of an open file goes through the clusters that hold the sectors asked
\* for, whatever chain is remembered and however many buffers the chain takes, also just
\* after clusters were added to it or taken from it (fat_readFile, fat_writeFile).
InPlace ==
  \A f \in {g \in File : Opened(g)} : HintsClear(handle[f]) =>
    \A pos \in Position, n \in WriteSize : ReadInPlace(f, pos, n) /\ WriteInPlace(f, pos, n)


=============================================================================
