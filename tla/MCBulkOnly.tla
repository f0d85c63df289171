----------------------------- MODULE MCBulkOnly -----------------------------
(* Instances of BulkOnly for TLC. *)
EXTENDS BulkOnly

SurvivedFaults == [d \in {"usbhdfsd", "usbstor"} |->
  IF d = "usbhdfsd" THEN {"fail", "phase", "invalid", "stallCapacity"} ELSE {"fail"}]
=============================================================================
