----------------------------- MODULE MCUsbMass -----------------------------
(* Instances of UsbMass for TLC. *)
EXTENDS UsbMass, TLC

Plain == [n \in Name |-> n]
Symmetry == Permutations(Dev) \cup Permutations(Thread)
=============================================================================
