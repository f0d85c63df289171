-------------------------------- MODULE Udnl --------------------------------
(***************************************************************************)
(* UDNL (udnl.c): opens the IOPRP images it was given, allocates a block,  *)
(* reads them into it behind the image that is part of UDNL, finds the     *)
(* directory of each, expands IOPBTCONF to the list of modules to start,   *)
(* and loads the first two, SYSMEM and LOADCORE, over the system it runs   *)
(* under.                                                                  *)
(*                                                                         *)
(* The images are numbered in the order of ImageDataBuffer: the boot ROM,  *)
(* UDNL's own, and the files.  The block is modelled from the first image  *)
(* on, in units; mem says which unit of which file is at each.  A file is  *)
(* a record of its size, of the place of its directory (NoDir when it has  *)
(* none), of its entries, each with a version and whether it has an entry  *)
(* in EXTINFO, and of the lines of those that are read as IOPBTCONF.       *)
(***************************************************************************)
EXTENDS IrxLoad, FiniteSets, SequencesExt

CONSTANTS
  Rom,        \* the image in the boot ROM
  Own,        \* the image in UDNL
  Discs,      \* what may be on the disc: by its IOPBTCONF: functions from names to files
  Align,      \* 16 bytes, in units
  ScanRange,  \* 0x4000 bytes, in units
  ListSize,   \* how many modules fit in the 0x400 bytes before the images
  ConfFile,   \* the names of the files that are read as IOPBTCONF, or would be
  Modules,    \* the shapes of SYSMEM and LOADCORE
  Bases,      \* where these are loaded
  NoDir, None

\* What a tool made of a file: its size, its entries, and the lines of those
\* that are read as IOPBTCONF.
IsFile(f) ==
  /\ f.size \in Nat
  /\ f.ents \in Seq([name : STRING, ver : Nat, ext : BOOLEAN])
  /\ f.conf \in [ConfFile -> Seq([op : {"start", "addr", "comment", "module", "include"},
                                  name : STRING \cup {None}, at : Nat])]
  /\ \A c \in ConfFile : \A i \in DOMAIN f.conf[c] :
       f.conf[c][i].op = "include" => f.conf[c][i].name \in ConfFile

ASSUME UdnlAssumption ==
  /\ Align \in Nat \ {0} /\ ScanRange \in Nat /\ ListSize \in Nat
  /\ "IOPBTCONF" \in ConfFile /\ ConfFile \subseteq STRING
  /\ None \notin STRING \cup {"rom", "own"}  \* two names that the provers do not take for strings
  /\ IsFile(Rom) /\ IsFile(Own)
  /\ \A d \in DOMAIN Discs :
       /\ DOMAIN Discs[d] \subseteq STRING \ {"rom", "own", "-v"}
       /\ \A f \in DOMAIN Discs[d] : IsFile(Discs[d][f])

\* The image in UDNL begins with its directory, which has each module once;
\* neither it nor the boot ROM has a file that includes another.
ASSUME OwnAssumption ==
  /\ Own.dir \in 0..(Own.size - 1)
  /\ \A i, j \in DOMAIN Own.ents : Own.ents[i].ext /\ (Own.ents[i].name = Own.ents[j].name => i = j)
  /\ \A f \in {Rom, Own}, c \in ConfFile : \A i \in DOMAIN f.conf[c] : f.conf[c][i].op # "include"

\* Modules are loaded at words, and those that are relocated are of at most
\* one entry for a word.
ASSUME ModulesAssumption ==
  /\ \A m \in Modules : m.kind = "irx" => EntriesApart(m.text, m.rels)
  /\ \A b \in Bases : b \in Nat /\ b % 4 = 0

VARIABLES
  disc,     \* the disc in the drive, by its IOPBTCONF
  argv,     \* the arguments, without the first
  arg,      \* i, the argument that is next
  upc,      \* where UDNL is
  images,   \* ImageDataBuffer: file, name (or None), place in the block, file whose directory was found
  total,    \* TotalSize, of the images
  next,     \* the image that is read next
  buf,      \* IoprpBuffer, where it goes
  mem,      \* what is in the block
  stack,    \* calls of ParseIOPBTCONF, the innermost first
  list,     \* ResetData.ModData
  num,      \* ResetData.NumModules
  start,    \* ResetData.StartAddress
  loaded    \* the module last loaded, before and after

uvars == <<disc, argv, arg, upc, images, total, next, buf, mem, stack, list, num, start, loaded>>

RoundUp(n) == ((n + Align - 1) \div Align) * Align
FileOf(f) == IF f = "rom" THEN Rom ELSE IF f = "own" THEN Own ELSE Discs[disc][f]
Blank == [file |-> None, unit |-> 0]
NotLoaded == [kind |-> None, rels |-> <<>>, base |-> 0, before |-> <<>>, after |-> <<>>]
Image(f, at, dir) == [file |-> f, name |-> f, at |-> at, dir |-> dir]

\* _start begins: nothing is read yet, and the ROM's directory is found.
Start(args) ==
  /\ argv' = args /\ arg' = 1 /\ upc' = "args"
  /\ images' = <<Image("rom", 0, "rom"), [file |-> "own", name |-> None, at |-> 0, dir |-> None]>>
  /\ total' = RoundUp(Own.size) /\ next' = 3 /\ buf' = 0
  /\ mem' = <<>> /\ stack' = <<>> /\ list' = <<>> /\ num' = 0 /\ start' = 0
  /\ loaded' = NotLoaded
  /\ UNCHANGED disc

UdnlInit ==
  /\ disc \in DOMAIN Discs
  /\ argv = <<>> /\ arg = 1 /\ upc = "off"
  /\ images = <<>> /\ total = 0 /\ next = 3 /\ buf = 0
  /\ mem = <<>> /\ stack = <<>> /\ list = <<>> /\ num = 0 /\ start = 0
  /\ loaded = NotLoaded
-----------------------------------------------------------------------------
(* Files                                                                   *)

\* One argument: -v is skipped; a file that cannot be opened stops UDNL for
\* good; after an empty one, the arguments that are left are not looked at.
OpenFile ==
  /\ upc = "args" /\ arg <= Len(argv)
  /\ \/ /\ argv[arg] = "-v"
        /\ arg' = arg + 1 /\ UNCHANGED <<upc, images, total>>
     \/ /\ argv[arg] \notin DOMAIN Discs[disc] \cup {"-v"}
        /\ upc' = "stopped" /\ UNCHANGED <<arg, images, total>>
     \/ /\ argv[arg] \in DOMAIN Discs[disc] /\ Discs[disc][argv[arg]].size = 0
        /\ arg' = Len(argv) + 1 /\ UNCHANGED <<upc, images, total>>
     \/ /\ argv[arg] \in DOMAIN Discs[disc] /\ Discs[disc][argv[arg]].size > 0
        /\ images' = Append(images, [Image(argv[arg], 0, None) EXCEPT !.name = argv[arg]])
        /\ total' = total + RoundUp(Discs[disc][argv[arg]].size)
        /\ arg' = arg + 1 /\ UNCHANGED upc
  /\ UNCHANGED <<disc, argv, next, buf, mem, stack, list, num, start, loaded>>

\* AllocMemory: there may be no free block that is large enough.
AllocMemory ==
  /\ upc = "args" /\ arg > Len(argv)
  /\ \/ upc' = "own" /\ mem' = [a \in 0..(total - 1) |-> Blank]
     \/ upc' = "stopped" /\ UNCHANGED mem
  /\ UNCHANGED <<disc, argv, arg, images, total, next, buf, stack, list, num, start, loaded>>

\* n units of file f, at a.
Filled(f, a, n) ==
  [b \in DOMAIN mem |-> IF b \in a..(a + n - 1) THEN [file |-> f, unit |-> b - a] ELSE mem[b]]

\* GetIOPRPStat: the file whose directory is within n units of a, at the
\* place it has in the file.
DirFound(M, a, n) ==
  LET hits == {d \in 0..(n - 1) :
                 /\ a + d \in DOMAIN M /\ M[a + d] # Blank
                 /\ M[a + d].unit = d /\ FileOf(M[a + d].file).dir = d}
  IN IF hits = {} THEN None ELSE M[a + Min(hits)].file

\* Mutant: the next image goes over UDNL's own.
AfterOwnNot(found) == 0

\* Where the images go that come after UDNL's own.
AfterOwn(found) == IF found = None THEN 0 ELSE RoundUp(Own.size)

CopyOwn ==
  /\ upc = "own" /\ upc' = "read"
  /\ mem' = Filled("own", 0, Own.size)
  /\ LET found == DirFound(mem', 0, Own.size) IN
     /\ images' = IF found = None THEN images ELSE [images EXCEPT ![2] = Image("own", 0, found)]
     /\ buf' = AfterOwn(found)
  /\ UNCHANGED <<disc, argv, arg, total, next, stack, list, num, start, loaded>>

\* A file of which less is read, or in which there is no directory, is
\* written over by the next.
ReadFile ==
  /\ upc = "read" /\ next <= Len(images)
  /\ \E n \in 0..FileOf(images[next].file).size :
       LET f == images[next].file
           whole == n = FileOf(f).size
           found == IF whole THEN DirFound(mem', buf, ScanRange) ELSE None
       IN /\ mem' = Filled(f, buf, n)
          /\ images' = IF found = None THEN images ELSE [images EXCEPT ![next] = Image(f, buf, found)]
          /\ buf' = IF found = None THEN buf ELSE buf + RoundUp(FileOf(f).size)
  /\ next' = next + 1
  /\ UNCHANGED <<disc, argv, arg, upc, total, stack, list, num, start, loaded>>
-----------------------------------------------------------------------------
(* Looking files up                                                        *)

Read == upc = "read" /\ next > Len(images)

\* What is looked at is in the block.  An image of which a part was written
\* over there, by the list before it or by a later file, is no longer what
\* it was on the disc.
Whole(k) ==
  images[k].dir # None =>
    \A u \in 0..(FileOf(images[k].dir).size - 1) :
      images[k].at + u \in DOMAIN mem /\ mem[images[k].at + u] = [file |-> images[k].dir, unit |-> u]
Damaged == \E k \in 2..Len(images) : ~Whole(k)

\* What is found in one may be anything; nothing is said of what follows.
ReadDamaged ==
  /\ Read \/ upc \in {"parse", "sysmem", "loadcore"}
  /\ Damaged /\ upc' = "lost"
  /\ UNCHANGED <<disc, argv, arg, images, total, next, buf, mem, stack, list, num, start, loaded>>

\* GetFileStatFromImage: the first entry of that name that has an ExtInfo.
Entries(k, name) ==
  LET ents == FileOf(images[k].dir).ents
  IN IF images[k].name = None \/ images[k].dir = None THEN {}
     ELSE {j \in DOMAIN ents : ents[j].name = name /\ ents[j].ext}
HasFile(k, name) == Entries(k, name) # {}
Version(k, name) == FileOf(images[k].dir).ents[Min(Entries(k, name))].ver
Lines(k, name) == FileOf(images[k].dir).conf[name]

\* ScanImagesForFile: the last of the first n images that has the file; 0 is panic.
ScanImages(n, name) ==
  LET found[k \in 0..n] == IF k = 0 \/ HasFile(k, name) THEN k ELSE found[k - 1]
  IN found[n]

\* Mutant: the last image that has the module, whatever its version.
SelectLast(n, name) == ScanImages(n, name)

\* SelectModuleFromImages, from the last of n images to the first: another one
\* has to be newer.
SelectModule(n, name) ==
  LET best[i \in 0..n] ==
        IF i = 0 THEN 0
        ELSE LET b == best[i - 1]
                 k == n + 1 - i
             IN IF HasFile(k, name) /\ (b = 0 \/ Version(b, name) < Version(k, name)) THEN k ELSE b
  IN best[n]
-----------------------------------------------------------------------------
(* IOPBTCONF                                                               *)

\* A call of ParseIOPBTCONF for a file of image k, with n images to look at.
Frame(k, name, n) == [image |-> k, name |-> name, files |-> n, line |-> 1, base |-> num, count |-> 0]

FindConf ==
  /\ Read /\ ~Damaged
  /\ LET k == ScanImages(Len(images), "IOPBTCONF") IN
     IF k = 0 THEN upc' = "stopped" /\ UNCHANGED stack
     ELSE upc' = "parse" /\ stack' = <<Frame(k, "IOPBTCONF", Len(images))>>
  /\ UNCHANGED <<disc, argv, arg, images, total, next, buf, mem, list, num, start, loaded>>

Top == Head(stack)
Line == Lines(Top.image, Top.name)[Top.line]
AtLine(op) ==
  /\ upc = "parse" /\ ~Damaged
  /\ stack # <<>> /\ Top.line <= Len(Lines(Top.image, Top.name)) /\ Line.op = op
NextLine(f) == [f EXCEPT !.line = @ + 1]

\* An entry goes to the end of the list, and NULL behind it.  What is behind
\* the list are the images.
AddEntry(e) ==
  LET at == Top.base + Top.count IN
  /\ list' = [i \in DOMAIN list \cup {at, at + 1} |->
                IF i = at THEN e ELSE IF i = at + 1 THEN None ELSE list[i]]
  /\ mem' = [a \in DOMAIN mem |-> IF ListSize + a \in {at, at + 1} THEN Blank ELSE mem[a]]
  /\ num' = num + 1
  /\ stack' = <<[NextLine(Top) EXCEPT !.count = @ + 1]>> \o Tail(stack)

\* @, the address of the first module
ParseStart ==
  /\ AtLine("start") /\ start' = Line.at
  /\ stack' = <<NextLine(Top)>> \o Tail(stack)
  /\ UNCHANGED <<disc, argv, arg, upc, images, total, next, buf, mem, list, num, loaded>>

\* !addr
ParseAddr ==
  /\ AtLine("addr") /\ AddEntry([name |-> None, image |-> Line.at])
  /\ UNCHANGED <<disc, argv, arg, upc, images, total, next, buf, start, loaded>>

\* A comment, or another line with !.
ParseComment ==
  /\ AtLine("comment")
  /\ stack' = <<NextLine(Top)>> \o Tail(stack)
  /\ UNCHANGED <<disc, argv, arg, upc, images, total, next, buf, mem, list, num, start, loaded>>

\* The name of a module; without one UDNL stops.
ParseModule ==
  /\ AtLine("module")
  /\ LET k == SelectModule(Top.files, Line.name) IN
     IF k = 0 THEN upc' = "stopped" /\ UNCHANGED <<mem, stack, list, num>>
     ELSE AddEntry([name |-> Line.name, image |-> k]) /\ UNCHANGED upc
  /\ UNCHANGED <<disc, argv, arg, images, total, next, buf, start, loaded>>

\* !include: the file is looked for in the images but the last, and so are
\* the modules in it.
ParseInclude ==
  /\ AtLine("include")
  /\ LET k == ScanImages(Top.files - 1, Line.name) IN
     IF k = 0 THEN upc' = "stopped" /\ UNCHANGED stack
     ELSE stack' = <<Frame(k, Line.name, Top.files - 1)>> \o stack /\ UNCHANGED upc
  /\ UNCHANGED <<disc, argv, arg, images, total, next, buf, mem, list, num, start, loaded>>

\* Mutant: after an include the list goes on where it would have without.
RebasedNot(f) == [NextLine(f) EXCEPT !.base = num]

\* After an include the list goes on where that ended.
Rebased(f) == [NextLine(f) EXCEPT !.base = num, !.count = 0]

ParseEnd ==
  /\ upc = "parse" /\ ~Damaged
  /\ stack # <<>> /\ Top.line > Len(Lines(Top.image, Top.name))
  /\ IF Len(stack) = 1
     THEN stack' = <<>> /\ upc' = "sysmem"
     ELSE stack' = <<Rebased(stack[2])>> \o SubSeq(stack, 3, Len(stack)) /\ UNCHANGED upc
  /\ UNCHANGED <<disc, argv, arg, images, total, next, buf, mem, list, num, start, loaded>>
-----------------------------------------------------------------------------
(* The first modules                                                       *)

\* InitModuleInfo, LoadModule: a relocatable module goes behind the system so
\* far, a static one to its own address.  What is neither is jumped to anyway.
LoadModule(m, base) ==
  loaded' = [kind |-> m.kind, rels |-> m.rels, base |-> base, before |-> m.text,
             after |-> IF m.kind = "irx" THEN Relocated(m.text, m.rels, base) ELSE m.text]

\* BeginBootupSequence: SYSMEM, whose start tells where memory is free, and
\* LOADCORE, which starts the others and does not return.
Load ==
  /\ upc \in {"sysmem", "loadcore"} /\ ~Damaged
  /\ \E m \in Modules, base \in Bases :
       /\ LoadModule(m, base)
       /\ upc' = IF m.kind = "unknown" \/ num < 2 THEN "lost"
                 ELSE IF upc = "sysmem" THEN "loadcore" ELSE "booted"
  /\ UNCHANGED <<disc, argv, arg, images, total, next, buf, mem, stack, list, num, start>>

UdnlNext ==
  \/ OpenFile \/ AllocMemory \/ CopyOwn \/ ReadFile
  \/ FindConf \/ ParseStart \/ ParseAddr \/ ParseComment \/ ParseModule \/ ParseInclude \/ ParseEnd
  \/ Load \/ ReadDamaged
-----------------------------------------------------------------------------
(* Properties                                                              *)

\* More entries than fit were written over the first image.
ListOverflows == num >= ListSize

\* A directory was found that a file before left in memory, of which not all
\* was read.
StaleDirectory == \E k \in DOMAIN images : images[k].dir \notin {None, images[k].file}

\* The newest of the first n images that have the module: that of the highest
\* version, and of those the last.  0 when there is none.
Newest(n, name) ==
  LET has == {k \in 1..n : HasFile(k, name)}
      best == {k \in has : \A j \in has : Version(j, name) <= Version(k, name)}
  IN IF has = {} THEN 0 ELSE Max(best)

\* For a file of image k, the last of the first n that has it: up to which
\* image its modules are looked for (README.txt of UDNL, 4 and 6).  What it
\* includes is in one before.
Reach(n, k) == IF k = 1 THEN n ELSE k

\* What a line of a file adds to the list, when y are the lists of the files
\* in the first m - 1 images: an include, that of its file.
ItemOf(y, m, line) ==
  CASE line.op = "module" -> <<[name |-> line.name, image |-> Newest(m, line.name)]>>
    [] line.op = "addr" -> <<[name |-> None, image |-> line.at]>>
    [] line.op = "include" -> y[line.name]
    [] OTHER -> <<>>

\* The list for file f of the first n images, when ex are those of fewer.
ListOf(ex, n, f) ==
  LET has == {k \in 1..n : HasFile(k, f)}
      k == Max(has)
      m == Reach(n, k)
  IN IF has = {} THEN <<>>
     ELSE FlattenSeq([i \in DOMAIN Lines(k, f) |-> ItemOf(ex[m - 1], m, Lines(k, f)[i])])

\* What IOPBTCONF means.
Expansion ==
  LET ex[n \in 0..Len(images)] == [f \in ConfFile |-> ListOf(ex, n, f)]
  IN ex[Len(images)]["IOPBTCONF"]

\* The files that, of the first n images, are in one with others behind it
\* that are looked at too, or include such a file.  The code takes modules
\* from those as well, and a file that is included from the same image.
BehindOf(b, n) ==
  {f \in ConfFile :
     LET has == {k \in 1..n : HasFile(k, f)}
         k == Max(has)
     IN /\ has # {}
        /\ \/ Reach(n, k) # n
           \/ \E i \in DOMAIN Lines(k, f) : Lines(k, f)[i].op = "include" /\ Lines(k, f)[i].name \in b}
Behind ==
  LET behind[n \in 0..Len(images)] == BehindOf(behind[n - 1], n)
  IN "IOPBTCONF" \in behind[Len(images)]

\* The list of modules is what the lines of IOPBTCONF and of the files it
\* includes say, in their order, each module in its newest version, and NULL
\* ends it; unless one of those files is in an image behind which there are
\* others.
ListIsExpansion ==
  upc = "sysmem" /\ ~Behind =>
    /\ num = Len(Expansion) /\ (num > 0 => list[num] = None)
    /\ \A i \in 1..num : list[i - 1] = Expansion[i]

\* While IOPBTCONF is read, the images that it and modules are taken from are
\* as they were on the disc, in the block, and none lies in another: short
\* reads, files that are no images, and the list before them leave no trace,
\* unless there are more modules than fit or a directory is that of another.
ImagesIntact ==
  (Read \/ upc \in {"parse", "sysmem"}) /\ ~ListOverflows /\ ~StaleDirectory =>
    \A k \in 2..Len(images) :
      LET f == images[k].dir IN
      f # None =>
        /\ images[k].at % Align = 0 /\ images[k].at + FileOf(f).size <= total
        /\ \A u \in 0..(FileOf(f).size - 1) : mem[images[k].at + u] = [file |-> f, unit |-> u]

\* SYSMEM and LOADCORE run where they were loaded: each address in their text
\* is moved by as much as they were, whatever carries from its lower half.
RelocationsRight ==
  loaded.kind = "irx" /\ Paired(loaded.rels) => Moved(loaded.before, loaded.after, loaded.rels, loaded.base)
=============================================================================
