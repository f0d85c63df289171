--------------------------- MODULE MCUsbTransfer ---------------------------
(* Small instances of UsbTransfer for TLC.                                 *)
EXTENDS UsbTransfer, TLC

\* Neither the objects of a pool nor the users differ in anything.
Symmetry == Permutations(GenTd) \cup Permutations(IsoTd) \cup Permutations(Req) \cup Permutations(Xfer)
=============================================================================
