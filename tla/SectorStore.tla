----------------------------- MODULE SectorStore -----------------------------
(***************************************************************************)
(* What the sector cache of USBHDFSD promises to the file system above it: *)
(* "store" is what reads return, "medium" what the device holds.  Changes  *)
(* go to the store, one sector at a time; blocks reach the medium later,   *)
(* each as the store has it then; removal of the device leaves the medium. *)
(***************************************************************************)
EXTENDS Integers

CONSTANTS
  Blocks, Offsets,   \* a sector is a block and an offset in it
  Clusters,          \* the sets of sectors that a directory may get
  Format,            \* Format[b][o]: the content of the formatted device
  Zero               \* the content of a sector filled with zeros

VARIABLES store, medium

Init == store = Format /\ medium = Format

\* A sector gets its next version.
Changed(x) == [block |-> x.block, offset |-> x.offset, version |-> x.version + 1]
Put(b, o) ==
  /\ store' = [store EXCEPT ![b][o] = Changed(@)]
  /\ UNCHANGED medium

\* A free cluster becomes the empty space of a directory, block by block;
\* another block may have to make room for it.
Zeros(cluster, b) ==
  /\ store' = [store EXCEPT ![b] = [o \in Offsets |->
                 IF <<b, o>> \in cluster THEN Zero ELSE @[o]]]
  /\ \/ UNCHANGED medium
     \/ \E w \in Blocks \ {b} : medium' = [medium EXCEPT ![w] = store[w]]

WriteBack(b) ==
  /\ medium' = [medium EXCEPT ![b] = store[b]]
  /\ UNCHANGED store

Flush == medium' = store /\ UNCHANGED store

Remove == store' = medium /\ UNCHANGED medium

Next ==
  \/ \E b \in Blocks, o \in Offsets : Put(b, o)
  \/ \E cluster \in Clusters, b \in Blocks : Zeros(cluster, b)
  \/ \E b \in Blocks : WriteBack(b)
  \/ Flush
  \/ Remove

Spec == Init /\ [][Next]_<<store, medium>>
=============================================================================
