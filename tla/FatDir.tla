------------------------------- MODULE FatDir -------------------------------
(***************************************************************************)
(* The directories of a FAT volume as usbhdfsd keeps them: their entries,  *)
(* the long and the short name each file has, the places fat_driver        *)
(* remembers of the last entries it went through, the open files and a     *)
(* listing.  A call holds the file system's lock (UsbMass), so it is one   *)
(* action.  Chains of clusters, and which clusters are found free, are     *)
(* FatChain: here a directory is the sequence of the entries its clusters  *)
(* hold, known by the first, and a file has none.  The sectors read are    *)
(* good.                                                                   *)
(***************************************************************************)
EXTENDS Naturals, FiniteSets, SequencesExt, TLC

CONSTANTS
  Cluster,     \* the first clusters of the directories that are made
  Root,        \* the first cluster of the root directory
  EntryCount,  \* entries of a cluster
  MaskBits,    \* entries of one byte of dir_used_mask
  Name,        \* what files are called, capitals and small letters being the same
  Parts,       \* entries a name takes (getDirentrySize)
  Base,        \* the names that do not fit 8.3 characters, with what a short name keeps of each
  MaxSeq,      \* SEQ_MASK_SIZE - 1
  Dot, DotDot, \* the names of the first two entries of a directory
  DirPath,     \* bound: the directories that are made
  FilePath,    \* bound: the paths files are created at
  AtMount,     \* bound: the root directories that are mounted: the entries, one label and files that
               \* have no long name, and whether it can grow, as that of FAT32 can
  Handle,      \* entries of fsRec
  MaxClusters, \* bound: clusters of a directory
  MaxSize,     \* bound: size of a file
  None

ASSUME DirAssumption ==
  /\ {EntryCount, MaskBits, MaxClusters} \subseteq Nat \ {0} /\ MaxSize \in Nat
  /\ Parts \in [Name -> Nat \ {0}] /\ \A n \in Name : Parts[n] < EntryCount
  /\ DOMAIN Base \subseteq Name /\ MaxSeq \in Nat /\ {Dot, DotDot} \cap Name = {}
  /\ Cluster \subseteq Nat /\ Root \notin Cluster
  /\ DirPath \subseteq {<<n>> : n \in Name}
  /\ FilePath \subseteq {<<n>> : n \in Name} \cup {<<n, m>> : n \in Name, m \in Name}

VARIABLES
  entries, \* the entries of each directory
  fat32,   \* is the root directory a chain of clusters?
  de,      \* deSec, deOfs: the places fat_fillDirentryInfo remembers
  handle,  \* the open files
  list,    \* the directory being listed, the files there all along, those of them that were read
  tree,    \* what is in the directories, read after each call (Tree): for IsNameTree alone
  slip     \* has one of the calls been made that the code gets wrong?

dirVars == <<entries, fat32, de, handle, list, tree, slip>>

End == [kind |-> "end"]
Deleted == [kind |-> "deleted"]
Label(n) == [kind |-> "label", name |-> n]
Lfn(n, part) == [kind |-> "lfn", name |-> n, part |-> part]
Sfn(short, dir, head) == [kind |-> "sfn", short |-> short, dir |-> dir, head |-> head, size |-> 0]
Blank == [i \in 1 .. EntryCount |-> End]

\* the short names setShortNameSequence makes
Sequenced == [base : {Base[n] : n \in DOMAIN Base}, seq : 0 .. MaxSeq]

\* a label may be called what files may be called
Labels == {Label(n) : n \in Name \cup Sequenced}

\* where files and directories may be
Called == Name \cup Sequenced
Path == {<<>>} \cup {<<n>> : n \in Called} \cup {<<n, m>> : n \in Called, m \in Called}

\* an entry of fsRec that is in use: the place of the file's entry, its name, the path that leads
\* to it (for IsNameTree alone) and what was written
FileRecord == [at : (Cluster \cup {Root}) \X Nat, name : Called, path : Path, size : 0 .. MaxSize,
               write : BOOLEAN, grew : BOOLEAN]

ASSUME MountAssumption ==
  /\ Dot # DotDot /\ {Dot, DotDot} \cap Sequenced = {} /\ DOMAIN Base \cap Sequenced = {}
  /\ None \notin Name \cup Sequenced \cup {Dot, DotDot} \cup Labels
  /\ Labels \cap (Name \cup Sequenced \cup {Dot, DotDot}) = {}
  /\ None \notin FileRecord
  /\ None \notin [path : Path, size : 0 .. MaxSize, write : BOOLEAN, grew : BOOLEAN]
  /\ \A m \in AtMount :
       /\ m.fat32 \in BOOLEAN /\ Len(m.entries) <= EntryCount
       /\ m.entries \in Seq({Deleted} \cup Labels \cup {Sfn(x, FALSE, None) : x \in Name \cup Sequenced})
       /\ \A i, j \in DOMAIN m.entries : m.entries[i] = m.entries[j] => i = j \/ m.entries[i] = Deleted
       /\ \A i, j \in DOMAIN m.entries : m.entries[i] \in Labels /\ m.entries[j] \in Labels => i = j

-----------------------------------------------------------------------------
(* Reading a directory *)

Least(S) == CHOOSE x \in S : \A y \in S : x <= y
Greatest(S) == CHOOSE x \in S : \A y \in S : x >= y
LastBefore(s, j, kinds) == Greatest({0} \cup {i \in 1 .. j - 1 : s[i].kind \in kinds})

\* entries a scan goes through: it ends with the first that was never used, counting it
Count(s) ==
  LET ends == {j \in DOMAIN s : s[j] = End} IN IF ends = {} THEN Len(s) ELSE Least(ends)
Files(s) == {j \in 1 .. Count(s) : s[j].kind = "sfn"}
Taken(s) == {j \in 1 .. Count(s) : s[j].kind \in {"sfn", "lfn", "label"}}

\* fat_getDirentry: do the long name's entries read after entry `from` spell n at entry j?
LongIs(s, from, j, n) ==
  \A q \in 1 .. Parts[n] :
    LET I == {i \in from + 1 .. j - 1 : s[i].kind = "lfn" /\ s[i].part = q}
    IN I # {} /\ s[Greatest(I)].name = n
NameFrom(s, from, j) ==
  LET read == {s[i].name : i \in {k \in from + 1 .. j - 1 : s[k].kind = "lfn"}}
      spelt == {n \in read : LongIs(s, from, j, n)}
  IN IF spelt = {} THEN s[j].short ELSE CHOOSE n \in spelt : TRUE
NameOf(s, j) == NameFrom(s, LastBefore(s, j, {"sfn"}), j)

\* fat_getDirentryStartCluster: the first entry that has the name, long or short; 0 when there is none
Match(s, n) ==
  LET M == {j \in Files(s) : s[j].short = n \/ (n \in Name /\ LongIs(s, LastBefore(s, j, {"sfn"}), j, n))}
  IN IF M = {} THEN 0 ELSE Least(M)

\* fat_fillDirentryInfo keeps the name fat_getDirentry gave the label: a file that has only a
\* short name is called as the label before it too
Labelled(s, j, n) ==
  LET before == LastBefore(s, j, {"sfn"}) + 1 .. j - 1
  IN (\E i \in before : s[i] = Label(n)) /\ \A i \in before : s[i].kind # "lfn"

\* the first entry that it takes for n; 0 when there is none
Found(s, n) ==
  LET M == {j \in Files(s) : Match(s, n) = j \/ Labelled(s, j, n)}
  IN IF M = {} THEN 0 ELSE Least(M)
Astray(s, n) == Found(s, n) # Match(s, n)

\* a mutant: entries of a deleted file do not begin a new name
RememberedAll(d, j, old) ==
  LET s == entries[d]
      reset == LastBefore(s, j, {"label"})
  IN (IF reset = 0 THEN old ELSE {})
       \cup {<<d, i>> : i \in {k \in reset + 1 .. j - 1 : s[k].kind = "lfn"}}

\* fat_fillDirentryInfo: the places it remembers when it is at entry j.  A scan does not begin
\* with none: only a file with another name, a deleted entry or a label makes it forget
Remembered(d, j, old) ==
  LET s == entries[d]
      reset == LastBefore(s, j, {"sfn", "deleted", "label"})
  IN (IF reset = 0 THEN old ELSE {})
       \cup {<<d, i>> : i \in {k \in reset + 1 .. j - 1 : s[k].kind = "lfn"}}

\* what fat_fillDirentryInfo remembers after a scan for n, as a file or as a directory
After(d, n, dir, old) ==
  LET s == entries[d]
      j == Found(s, n)
  IN IF j = 0 THEN Remembered(d, Count(s) + 1, old)
     ELSE Remembered(d, j, old) \cup (IF s[j].dir = dir THEN {<<d, j>>} ELSE {})
Fills(d, n, dir) == LET j == Found(entries[d], n) IN IF j # 0 /\ entries[d][j].dir = dir THEN j ELSE 0

\* fat_getFileStartCluster: the first cluster of the directory a path is in, None if it is not there
DirOf(p) ==
  LET s == entries[Root]
      j == Match(s, p[1])
  IN IF Len(p) = 1 THEN Root ELSE IF j = 0 \/ ~s[j].dir THEN None ELSE s[j].head

-----------------------------------------------------------------------------
(* Writing a directory *)

\* a mutant: the number is that of the files with the same base
ShortByCount(s, n) ==
  IF n \notin DOMAIN Base THEN n
  ELSE [base |-> Base[n],
        seq |-> Cardinality({j \in Files(s) : s[j].short \in Sequenced /\ s[j].short.base = Base[n]})]

\* createShortNameMask, setShortNameSequence: the first number no entry has; every other
\* file counts as number 0
ShortFor(s, n) ==
  LET seqOf(short) == IF short \in Sequenced /\ short.base = Base[n] THEN short.seq ELSE 0
      free == (0 .. MaxSeq) \ {seqOf(s[j].short) : j \in Files(s)}
  IN IF n \notin DOMAIN Base THEN n
     ELSE [base |-> Base[n], seq |-> IF free = {} THEN MaxSeq + 1 ELSE Least(free)]

\* setShortNameSequence finds all numbers in use, and gives the next
NoNumber(s, n) == n \in DOMAIN Base /\ ShortFor(s, n).seq = MaxSeq + 1

\* the runs of entries not in use that one in use comes after, as first and last
Runs(s) ==
  LET used == Taken(s)
      starts == {i \in (1 .. Count(s)) \ used : i - 1 \in used \cup {0} /\ \E k \in used : k > i}
  IN {<<i, Least({k \in used : k > i}) - 1>> : i \in starts}

AtEnd(s) == IF Count(s) \in Taken(s) THEN Count(s) + 1 ELSE Count(s)

\* getDirentryStoreOffset: the first run of that size, else the end of the first larger one,
\* else from the last entry on
StoreAt(s, size) ==
  LET runs == Runs(s)
      tight == {r[1] : r \in {q \in runs : q[2] - q[1] + 1 = size}}
      loose == {r \in runs : r[2] - r[1] + 1 > size}
      first == CHOOSE r \in loose : \A q \in loose : r[1] <= q[1]
  IN IF tight # {} THEN Least(tight) ELSE IF loose # {} THEN first[2] + 1 - size ELSE AtEnd(s)

Needs(d, n) == StoreAt(entries[d], Parts[n] + 1) + Parts[n] > Len(entries[d])

\* saveDirentry: the parts of the long name, the last one first, and then the short name
Saved(s, at, n, short, dir, head) ==
  [j \in DOMAIN s |->
     IF j \in at .. at + Parts[n] - 1 THEN Lfn(n, at + Parts[n] - j)
     ELSE IF j = at + Parts[n] THEN Sfn(short, dir, head) ELSE s[j]]

\* createDirectorySpace
EmptyDirectory(c, parent) ==
  [Blank EXCEPT ![1] = Sfn(Dot, TRUE, c), ![2] = Sfn(DotDot, TRUE, parent)]

Free == Cluster \ DOMAIN entries
Erased(places, d) == [i \in DOMAIN entries[d] |-> IF <<d, i>> \in places THEN Deleted ELSE entries[d][i]]
SetSize(place, size) == [entries EXCEPT ![place[1]][place[2]].size = size]

\* enlargeDirentryClusterSpace and fat_getFreeCluster: a cluster for the directory, if it
\* needs one, and one for the file.  At times none is found while some are free (FatChain); a
\* fixed root directory takes none.  These are what may be done before the entry is stored:
\* whether the directory grows, and whether the file gets its cluster
Outcomes(d, n) ==
  {o \in [grow : BOOLEAN, made : BOOLEAN] :
     /\ o.grow => Needs(d, n) /\ (d = Root => fat32) /\ Len(entries[d]) < MaxClusters * EntryCount
     /\ o.made => (Needs(d, n) => o.grow)}

\* fat_modifyDirSpace for a name that is not in directory d
Stored(d, n, dir, o) ==
  LET s == entries[d] \o (IF o.grow THEN Blank ELSE <<>>)
      c == IF dir THEN Least(Free) ELSE None
      at == StoreAt(entries[d], Parts[n] + 1)
      full == Saved(s, at, n, ShortFor(entries[d], n), dir, c)
  IN IF ~o.made THEN [entries EXCEPT ![d] = s]
     ELSE [x \in DOMAIN entries \cup (IF dir THEN {c} ELSE {}) |->
             IF x = d THEN full ELSE IF x \in DOMAIN entries THEN entries[x] ELSE EmptyDirectory(c, d)]

-----------------------------------------------------------------------------
(* The calls *)

Opened == {h \in Handle : handle[h] # None}
\* fs_findFileSlotByName compares the whole path with the name of the file alone
InUse(p) == {h \in Opened : Len(p) = 1 /\ handle[h].name = p[1]}

\* where a file called n is that was asked for by p, in which the directory may have its short name
Canon(p, n) ==
  IF Len(p) = 1 THEN <<n>> ELSE <<NameOf(entries[Root], Match(entries[Root], p[1])), n>>

Attach(h, p, at, name, canon, size, write) ==
  handle' = [handle EXCEPT ![h] = [at |-> at, name |-> name, path |-> canon, size |-> size,
                                   write |-> write, grew |-> FALSE]]

\* fs_open of a file that is there.  For writing it is fat_createFile that finds it, and
\* remembers the places of its entries
OpenThere(h, p) ==
  LET d == DirOf(p)
      n == p[Len(p)]
      j == Match(entries[d], n)
  IN /\ handle[h] = None
     /\ d # None /\ j # 0 /\ ~entries[d][j].dir
     /\ \E write, trunc \in BOOLEAN :
          LET size == IF trunc THEN 0 ELSE entries[d][j].size
          IN /\ trunc => write
             /\ write => ~Astray(entries[d], n)
             /\ \A g \in InUse(p) : ~write /\ ~handle[g].write
             /\ entries' = IF trunc THEN SetSize(<<d, j>>, 0) ELSE entries
             /\ de' = IF write THEN After(d, n, FALSE, de) ELSE de
             /\ Attach(h, p, <<d, j>>, NameOf(entries[d], j), Canon(p, NameOf(entries[d], j)), size, write)
     /\ UNCHANGED <<fat32, list, slip>>

\* fs_open for writing, by the name of the label before it, of a file that has only a short name:
\* what was found is cut with O_TRUNC, and then the file with the name, if there is one, is
\* opened at the place of the other
OpenAstray(h, p) ==
  LET d == DirOf(p)
      n == p[Len(p)]
      i == Match(entries[d], n)
      j == Fills(d, n, FALSE)
      name == NameOf(entries[d], i)
  IN /\ handle[h] = None
     /\ d # None /\ j # 0 /\ Astray(entries[d], n) /\ InUse(p) = {}
     /\ \E trunc \in BOOLEAN : entries' = IF trunc THEN SetSize(<<d, j>>, 0) ELSE entries
     /\ IF i # 0 /\ ~entries[d][i].dir
        THEN Attach(h, p, <<d, j>>, name, Canon(p, name), entries[d][i].size, TRUE) ELSE UNCHANGED handle
     /\ de' = After(d, n, FALSE, de)
     /\ slip' = TRUE
     /\ UNCHANGED <<fat32, list>>

\* fs_open with O_CREAT of a file that is not there; it is opened if it is there in the end.
\* fat_createFile tells a file that was there by the cluster, which for a new file in a root
\* directory of FAT32 is not the 0 that was asked for: with O_TRUNC fs_open cuts the directory
OpenNew(h, p) ==
  LET d == DirOf(p)
      n == p[Len(p)]
      at == StoreAt(entries[d], Parts[n] + 1) + Parts[n]
  IN /\ handle[h] = None
     /\ d # None /\ Found(entries[d], n) = 0 /\ InUse(p) = {}
     /\ de' = After(d, n, FALSE, de)
     /\ \E o \in Outcomes(d, n), trunc \in BOOLEAN :
          LET v == Stored(d, n, FALSE, o)
              cut == o.made /\ trunc /\ d = Root /\ fat32
          IN /\ entries' = IF cut THEN [v EXCEPT ![d] = SubSeq(@, 1, EntryCount)] ELSE v
             /\ slip' = (entries'[d] # v[d] \/ (o.made /\ NoNumber(entries[d], n)))
             /\ IF o.made /\ at <= Len(entries'[d]) THEN Attach(h, p, <<d, at>>, n, Canon(p, n), 0, TRUE)
                ELSE UNCHANGED handle
     /\ UNCHANGED <<fat32, list>>

\* fs_write past the end of the file
Write(h) ==
  /\ h \in Opened /\ handle[h].write
  /\ \E n \in handle[h].size + 1 .. MaxSize :
       handle' = [handle EXCEPT ![h].size = n, ![h].grew = TRUE]
  /\ UNCHANGED <<entries, fat32, de, list, slip>>

\* fs_close: fat_updateSfn at the place where the entry was when the file was opened
Close(h) ==
  /\ h \in Opened
  /\ entries' = IF handle[h].grew THEN SetSize(handle[h].at, handle[h].size) ELSE entries
  /\ handle' = [handle EXCEPT ![h] = None]
  /\ UNCHANGED <<fat32, de, list, slip>>

\* fat_clearDirSpace: what it remembers is erased, with old what it remembered before the
\* scan, and the clusters of a directory are freed
Clear(d, n, dir, old) ==
  LET freed == IF dir THEN {entries[d][Fills(d, n, dir)].head} ELSE {}
      places == After(d, n, dir, old)
  IN /\ de' = places
     /\ entries' = [c \in DOMAIN entries \ freed |-> Erased(places, c)]

\* is it another file, are places remembered that are not of this file, or is the file open?
WrongPlaces(d, n, dir, old) ==
  LET j == Fills(d, n, dir)
  IN \/ Astray(entries[d], n)
     \/ ~(After(d, n, dir, old) \subseteq After(d, n, dir, {}))
     \/ \E h \in Opened : handle[h].at = <<d, j>>

\* a file that is removed was not there all along
Forget(d, j) ==
  list' = IF list # None /\ list.dir = d
          THEN [list EXCEPT !.stay = @ \ {NameOf(entries[d], j)}, !.seen = @ \ {NameOf(entries[d], j)}]
          ELSE list

\* fs_remove
RemoveFile(p) ==
  LET d == DirOf(p)
      n == p[Len(p)]
      j == Fills(d, n, FALSE)
  IN /\ d # None /\ j # 0 /\ InUse(p) = {}
     /\ Clear(d, n, FALSE, de)
     /\ Forget(d, j)
     /\ slip' = WrongPlaces(d, n, FALSE, de)
     /\ UNCHANGED <<fat32, handle>>

\* fs_mkdir
MakeDir(p) ==
  LET d == DirOf(p)
      n == p[Len(p)]
  IN /\ d # None /\ Found(entries[d], n) = 0
     /\ \E o \in Outcomes(d, n) :
          /\ o.made => Free # {}
          /\ entries' = Stored(d, n, TRUE, o)
          /\ slip' = (o.made /\ NoNumber(entries[d], n))
     /\ de' = After(d, n, TRUE, de)
     /\ UNCHANGED <<fat32, handle, list>>

\* checkDirspaceEmpty: the entries of the last byte of the mask count only if it is full
LooksEmpty(s) ==
  LET bytes == Count(s) \div MaskBits
  IN \A j \in Taken(s) : ~(2 < j /\ j <= MaskBits) /\ ~(MaskBits < j /\ j <= bytes * MaskBits)

\* fs_rmdir
RemoveDir(p) ==
  LET d == DirOf(p)
      n == p[Len(p)]
      j == Fills(d, n, TRUE)
      sub == entries[d][j].head
      s == entries[sub]
      rest == Remembered(sub, Count(s) + 1, After(d, n, TRUE, de))
  IN /\ d # None /\ j # 0
     /\ IF LooksEmpty(s) THEN
          /\ Clear(d, n, TRUE, rest)
          /\ slip' = (WrongPlaces(d, n, TRUE, rest) \/ Cardinality(Files(s)) > 2)
        ELSE de' = rest /\ UNCHANGED <<entries, slip>>
     /\ UNCHANGED <<fat32, handle, list>>

\* fs_remove, fs_rmdir or fs_open of what is not there or is of the other kind, and fs_mkdir of
\* what is there, change nothing else
Refused(p, dir) ==
  LET d == DirOf(p)
  IN /\ d # None /\ (Fills(d, p[Len(p)], dir) = 0 \/ dir)
     /\ de' = After(d, p[Len(p)], dir, de)
     /\ UNCHANGED <<entries, fat32, handle, list, slip>>

-----------------------------------------------------------------------------
(* Listing a directory *)

\* a mutant: an entry is skipped
NextAfterSkip(s, index) ==
  LET J == {j \in 1 .. Count(s) : j > index + 1 /\ s[j].kind \in {"sfn", "label"}}
  IN IF J = {} THEN 0 ELSE Least(J)

\* fat_getNextDirentry: the first file, or label, after those that were read; 0 for none
NextAfter(s, index) ==
  LET J == {j \in 1 .. Count(s) : j > index /\ s[j].kind \in {"sfn", "label"}}
  IN IF J = {} THEN 0 ELSE Least(J)

\* the listing, having read ahead to the next file or label
ReadAhead(l) ==
  LET s == entries[l.dir]
      j == NextAfter(s, l.index)
  IN [l EXCEPT !.index = IF j = 0 THEN Count(s) ELSE j,
               !.next = IF j = 0 THEN None ELSE IF s[j].kind = "label" THEN s[j] ELSE NameFrom(s, l.index, j)]

\* fs_dopen (bound: not while a file is open)
OpenList(d) ==
  /\ list = None /\ Opened = {}
  /\ LET s == entries[d]
     IN list' = ReadAhead([dir |-> d, index |-> 0, next |-> None, stay |-> {NameOf(s, j) : j \in Files(s)},
                           seen |-> {}])
  /\ UNCHANGED <<entries, fat32, de, handle, slip>>

\* what fs_dread gives, and the next: it skips the label
Unlabelled(l) == IF l.next \in Labels THEN ReadAhead(l) ELSE l
Given(l) ==
  IF l.next = None THEN l ELSE ReadAhead([l EXCEPT !.seen = @ \cup ({l.next} \cap l.stay)])

\* fs_dread
ReadList ==
  /\ list # None /\ list.next # None
  /\ list' = Given(Unlabelled(list))
  /\ UNCHANGED <<entries, fat32, de, handle, slip>>

\* fs_dclose
CloseList ==
  /\ list # None /\ list' = None
  /\ UNCHANGED <<entries, fat32, de, handle, slip>>

-----------------------------------------------------------------------------

\* the files and directories a path leads to, with e the entries of the directories
Nodes(s, p) ==
  {[path |-> Append(p, NameOf(s, j)), dir |-> s[j].dir, size |-> s[j].size] :
      j \in {i \in Files(s) : s[i].short \notin {Dot, DotDot}}}
Tree(e) ==
  Nodes(e[Root], <<>>) \cup
    UNION {Nodes(e[e[Root][j].head], <<NameOf(e[Root], j)>>) : j \in {i \in Files(e[Root]) : e[Root][i].dir}}

\* a volume as another system left it, mounted
DirInit ==
  /\ \E m \in AtMount :
       /\ fat32 = m.fat32
       /\ entries = [d \in {Root} |-> m.entries \o [i \in 1 .. EntryCount - Len(m.entries) |-> End]]
  /\ de = {} /\ list = None /\ slip = FALSE /\ tree = Tree(entries)
  /\ handle = [h \in Handle |-> None]

\* nothing more is asked of the volume once a call was made that goes wrong
Done == slip /\ UNCHANGED dirVars

\* bound: while a directory is listed only files are created and removed
DirNext ==
  \/ /\ ~slip
     /\ \/ \E h \in Handle, p \in FilePath : OpenNew(h, p)
        \/ \E h \in Handle : Close(h)
        \/ \E p \in FilePath : RemoveFile(p)
        \/ \E d \in DOMAIN entries : OpenList(d)
        \/ ReadList
        \/ CloseList
        \/ /\ list = None
           /\ \/ \E h \in Handle, p \in FilePath : OpenThere(h, p) \/ OpenAstray(h, p)
              \/ \E h \in Handle : Write(h)
              \/ \E p \in DirPath : MakeDir(p) \/ RemoveDir(p)
              \/ \E p \in FilePath \cup DirPath : Refused(p, p \in DirPath)
     /\ IF entries' = entries THEN tree' = tree ELSE \E e \in {entries'} : tree' = Tree(e)
  \/ Done

DirSpec == DirInit /\ [][DirNext]_dirVars

-----------------------------------------------------------------------------
(* Properties *)

Entry == [kind : {"end", "deleted"}] \cup Labels \cup [kind : {"lfn"}, name : Name, part : Nat]
           \cup [kind : {"sfn"}, short : Name \cup Sequenced \cup {Dot, DotDot}, dir : BOOLEAN,
                 head : Cluster \cup {Root, None}, size : 0 .. MaxSize]

\* The domains of the variables, unless a call went wrong.
DirTypeOK ==
  /\ DOMAIN entries \subseteq Cluster \cup {Root} /\ Root \in DOMAIN entries
  /\ ~slip => \A d \in DOMAIN entries : entries[d] \in Seq(Entry)
  /\ fat32 \in BOOLEAN
  /\ de \subseteq (Cluster \cup {Root}) \X (1 .. MaxClusters * EntryCount)
  /\ ~slip => handle \in [Handle -> FileRecord \cup {None}]
  /\ list # None => list.dir \in Cluster \cup {Root} /\ list.index \in Nat /\ list.seen \subseteq list.stay
  /\ slip \in BOOLEAN

\* The entries of a long name are all there, in order, and directly
\* before the short name they belong to, so that no entry of one file is read as part of the
\* name of another (getDirentryStoreOffset, saveDirentry, fat_clearDirSpace).
LongNamesWhole ==
  \A d \in DOMAIN entries :
    LET s == entries[d]
    IN \A j \in {i \in 1 .. Count(s) : s[i].kind = "lfn"} :
         /\ s[j].part < Parts[s[j].name] => j > 1 /\ s[j - 1] = Lfn(s[j].name, s[j].part + 1)
         /\ IF s[j].part > 1 THEN s[j + 1] = Lfn(s[j].name, s[j].part - 1)
            ELSE s[j + 1].kind = "sfn" /\ s[j + 1].short = IF s[j].name \in DOMAIN Base
                   THEN [base |-> Base[s[j].name], seq |-> s[j + 1].short.seq] ELSE s[j].name

\* Unless a call went wrong, long names are whole, and a file is found by its long and by its
\* short name, neither of which is a name, long or short, of another file in its directory
\* (setShortNameSequence).
NamesLeadBack ==
  ~slip => LongNamesWhole /\ \A d \in DOMAIN entries :
    LET s == entries[d]
    IN \A j \in Files(s) : Match(s, s[j].short) = j /\ Match(s, NameOf(s, j)) = j

\* Unless a call went wrong, a listing gives each file that is there from its start to its end
\* once, whatever is created and removed meanwhile, in the space of others too (fs_dread).
ListedOnce ==
  ~slip /\ list # None => /\ list.next \notin list.seen
                          /\ list.next = None => list.seen = list.stay

Names == INSTANCE NameTree WITH
  NoFile <- None, over <- slip,
  open <- [h \in Handle |-> IF handle[h] = None THEN None
                            ELSE [path |-> handle[h].path, size |-> handle[h].size,
                                  write |-> handle[h].write, grew |-> handle[h].grew]]

\* The directories hold a tree of names: a call adds or removes the one file or directory it
\* names, changes the size of the one it was given, at the entry it found when it was opened,
\* or none, and a directory goes only when it is empty, until a call goes wrong.
IsNameTree == Names!Spec

=============================================================================
