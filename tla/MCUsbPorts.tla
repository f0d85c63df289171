----------------------------- MODULE MCUsbPorts -----------------------------
(* The two ports of the console, for TLC *)
EXTENDS UsbPorts

=============================================================================
