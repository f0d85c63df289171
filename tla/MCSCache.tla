------------------------------ MODULE MCSCache ------------------------------
(* Small instances of SCache for TLC.                                      *)
EXTENDS SCache

\* A cluster of one block, and one of two.
WholeBlocks == {{1} \X Offsets, {1, 2} \X Offsets}
=============================================================================
