------------------------------ MODULE NameTree ------------------------------
(***************************************************************************)
(* What the calls of a file system mean to those who make them, with no    *)
(* directory entries or clusters: a set of named files and directories,    *)
(* and open files each of which remembers the name it was opened by.       *)
(***************************************************************************)
EXTENDS Naturals, Sequences

CONSTANTS
  Path,    \* names: sequences of components, <<>> is the root directory
  Handle,  \* what a program may have open
  MaxSize, \* the largest size of a file
  NoFile   \* a handle that is not in use

VARIABLES
  tree, \* the files and directories there are
  open, \* the files that are open, by the path they have
  over  \* has something been done after which nothing is promised?

Node == [path : Path, dir : BOOLEAN, size : 0 .. MaxSize]
File == [path : Path, size : 0 .. MaxSize, write : BOOLEAN, grew : BOOLEAN]

At(p) == {x \in tree : x.path = p}
Inside(p) == {x \in tree : x.path # <<>> /\ Len(x.path) > Len(p) /\ SubSeq(x.path, 1, Len(p)) = p}
Parent(p) == SubSeq(p, 1, Len(p) - 1)
\* a file or a directory is added to a directory
Adds(x) ==
  /\ At(x.path) = {} /\ x.size = 0 /\ (Len(x.path) > 1 => \E y \in At(Parent(x.path)) : y.dir)
  /\ tree' = tree \cup {x}

Init ==
  /\ tree \subseteq Node
  /\ open = [h \in Handle |-> NoFile]
  /\ over = FALSE

\* x, the directory that is made, is one of tree'
MakeDirectory(x) == Adds(x) /\ x.dir /\ UNCHANGED open

\* a file, or a directory that nothing is in
RemoveNode(x) ==
  /\ tree' = tree \ {x}
  /\ Inside(x.path) = {}
  /\ UNCHANGED open

CreateFile(h, x) ==
  /\ open[h] = NoFile
  /\ Adds(x) /\ ~x.dir
  /\ open' = [open EXCEPT ![h] = [path |-> x.path, size |-> 0, write |-> TRUE, grew |-> FALSE]]

OpenFile(h, x, write, trunc) ==
  LET size == IF trunc THEN 0 ELSE x.size
  IN /\ open[h] = NoFile /\ ~x.dir /\ (trunc => write)
     /\ tree' = (tree \ {x}) \cup {[x EXCEPT !.size = size]}
     /\ open' = [open EXCEPT ![h] = [path |-> x.path, size |-> size, write |-> write, grew |-> FALSE]]

WriteFile(h) ==
  /\ open[h] # NoFile /\ open[h].write
  /\ \E n \in 0 .. MaxSize :
       /\ n > open[h].size
       /\ open' = [open EXCEPT ![h].size = n, ![h].grew = TRUE]
  /\ UNCHANGED tree

\* the size of what was written is the size of the file it was written to
CloseFile(h) ==
  /\ open[h] # NoFile
  /\ tree' = IF open[h].grew THEN {IF x.path = open[h].path THEN [x EXCEPT !.size = open[h].size] ELSE x : x \in tree}
             ELSE tree
  /\ open' = [open EXCEPT ![h] = NoFile]

Next ==
  \/ /\ UNCHANGED over
     /\ \/ \E x \in tree' \cap Node : MakeDirectory(x)
        \/ \E x \in tree : RemoveNode(x)
        \/ \E h \in Handle, x \in tree' \cap Node : CreateFile(h, x)
        \/ \E h \in Handle, x \in tree, write, trunc \in BOOLEAN : OpenFile(h, x, write, trunc)
        \/ \E h \in Handle : WriteFile(h) \/ CloseFile(h)
  \/ over'

Spec == Init /\ [][Next]_<<tree, open, over>>

=============================================================================
