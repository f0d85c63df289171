------------------------------ MODULE BulkOnly ------------------------------
(***************************************************************************)
(* The bulk-only transport of mass storage: usbhdfsd's usb_driver.c, and   *)
(* the copy of it that CDVDMAN links (USBSTOR/usb_driver.c), which has     *)
(* lost its recovery.  One thread brings a device up and then reads and    *)
(* writes sectors; every transfer is submitted and waited for, and the     *)
(* device may be pulled out at any moment.  The device is external: a      *)
(* command block, the data and a status block per command, endpoints that  *)
(* it halts, and what may go wrong with a command.  A transfer the device  *)
(* does not expect is refused (NAK) for ever.                              *)
(***************************************************************************)
EXTENDS Integers, FiniteSets

CONSTANTS
  Faults,     \* for each driver, what a command may run into
  MaxFaults,  \* how many faults one operation meets
  RetryCount, \* retryCount of cbw_scsi_read_capacity
  Removable   \* may the device be pulled out?

ASSUME BulkAssumption ==
  /\ DOMAIN Faults = {"usbhdfsd", "usbstor"}
  /\ \A d \in DOMAIN Faults :
       Faults[d] \subseteq {"fail", "phase", "invalid", "stallCapacity", "stallIn"}
  /\ MaxFaults \in Nat /\ RetryCount \in Nat \ {0} /\ Removable \in BOOLEAN

VARIABLES
  drv,     \* which of the two drivers runs
  client,  \* "warmup", "up" or "failed"
  op,      \* the operation under way
  pc,      \* where it stands
  waiting, \* is a transfer submitted, and waited for?
  ret,     \* what the operation will return
  tries,   \* attempts left of a read of the capacity
  toClear, \* the halts usb_bulk_reset will clear
  open,    \* are the device's endpoints open?
  phase,   \* device: what it expects next
  halted,  \* device: the endpoints it has halted
  plan,    \* device: how its command goes
  served,  \* device: has the last command succeeded?
  faults   \* faults met by this operation

host == <<drv, client, op, pc, waiting, ret, tries, toClear>>
device == <<phase, halted, plan, served, faults>>
vars == <<host, open, device>>

InOps == {"inquiry", "sense", "sense2", "capacity", "read"}
OutOps == {"write"}
NoDataOps == {"ready", "start"}
ControlOps == {"config", "interface", "lun"}
AllOps == InOps \cup OutOps \cup NoDataOps \cup ControlOps
Pcs == {"command", "data", "status", "clear", "status2", "reset", "clearIn",
        "clearOut", "control", "idle"}

DataPipe(o) == IF o \in OutOps THEN "out" ELSE "in"
AfterCommand(o) == IF o \in NoDataOps THEN "status" ELSE "data"

\* the device: how a command goes, the status that says so, and what may go wrong
Plan(o, goes) == [of |-> o, goes |-> goes]
Good(o) == Plan(o, "good")
Status(goes) == IF goes = "good" THEN 0 ELSE IF goes = "phase" THEN 2 ELSE 1
Wrong(o) == {f \in Faults[drv] : f = "stallCapacity" => o = "capacity"} \ (IF o \in InOps THEN {} ELSE {"stallIn"})
Bad(o) == {Plan(o, f) : f \in Wrong(o)}
Plans(o) == {Good(o)} \cup (IF faults < MaxFaults THEN Bad(o) ELSE {})

TypeOK ==
  /\ drv \in DOMAIN Faults
  /\ client \in {"warmup", "up", "failed"}
  /\ op \in AllOps /\ pc \in Pcs
  /\ waiting \in BOOLEAN /\ open \in BOOLEAN /\ served \in BOOLEAN
  /\ ret \in -1 .. 4 /\ tries \in 0 .. RetryCount
  /\ toClear \subseteq {"in", "out"} /\ halted \subseteq {"in", "out"}
  /\ phase \in {"cbw", "data", "csw", "wedged"}
  /\ plan.of \in AllOps /\ plan \in {Good(plan.of)} \cup Bad(plan.of)
  /\ faults \in 0 .. MaxFaults

Init ==
  /\ drv \in DOMAIN Faults
  /\ client = "warmup" /\ op = "config" /\ pc = "control"
  /\ waiting = FALSE /\ ret = 0 /\ tries = RetryCount /\ toClear = {}
  /\ open = TRUE /\ phase = "cbw" /\ halted = {} /\ plan = Good("config")
  /\ served = FALSE /\ faults = 0

(* The callers: mass_stor_warmup, then mass_stor_readSector and _writeSector. *)


\* mutant: the result of the last operation is not looked at
FollowsUnchecked(o, r) ==
  CASE o = "config" -> {"interface"}
    [] o = "interface" -> {"lun"}
    [] o = "lun" -> {"inquiry"}
    [] o = "inquiry" -> IF r < 0 THEN {"failed"} ELSE {"ready"}
    [] o = "ready" -> IF r # 0 THEN {"sense"} ELSE {"sense2"}
    [] o = "sense" -> {"start", "ready"}
    [] o = "start" -> IF r # 0 THEN {"failed"} ELSE {"ready"}
    [] o = "sense2" -> {"capacity"}
    [] o = "capacity" -> {"up"}

\* what follows an operation of the warm-up that returned r
FollowsUsbhdfsd(o, r) ==
  CASE o = "config" -> {"interface"}
    [] o = "interface" -> {"lun"}
    [] o = "lun" -> {"inquiry"}
    [] o = "inquiry" -> IF r < 0 THEN {"failed"} ELSE {"ready"}
    [] o = "ready" -> IF r # 0 THEN {"sense"} ELSE {"sense2"}
    [] o = "sense" -> {"start", "ready"}
    [] o = "start" -> IF r # 0 THEN {"failed"} ELSE {"ready"}
    [] o = "sense2" -> {"capacity"}
    [] o = "capacity" -> IF r # 0 THEN {"failed"} ELSE {"up"}
FollowsUsbstor(o, r) ==
  CASE o = "config" -> {"interface"}
    [] o = "interface" -> {"ready"}
    [] o = "ready" -> IF r # 0 THEN {"ready"} ELSE {"sense2"}
    [] o = "sense2" -> {"capacity"}
    [] o = "capacity" -> {"up"}
Follows(o, r) == IF drv = "usbstor" THEN FollowsUsbstor(o, r) ELSE FollowsUsbhdfsd(o, r)

Begin(o) ==
  /\ op' = o
  /\ pc' = IF o \in ControlOps THEN "control" ELSE "command"
  /\ tries' = RetryCount /\ toClear' = {} /\ ret' = 0 /\ faults' = 0
  /\ UNCHANGED <<drv, waiting, open, phase, halted, plan, served>>

WarmUp ==
  /\ client = "warmup" /\ pc = "idle"
  /\ \E n \in Follows(op, ret) :
       IF n \in AllOps
       THEN Begin(n) /\ UNCHANGED client
       ELSE client' = n
            /\ UNCHANGED <<drv, op, pc, waiting, ret, tries, toClear, open, device>>

\* CDVDMAN only reads
SectorOps == IF drv = "usbstor" THEN {"read"} ELSE {"read", "write"}

ReadOrWrite ==
  /\ client = "up" /\ pc = "idle"
  /\ \E o \in SectorOps : Begin(o)
  /\ UNCHANGED client

(* One operation: what follows each of its transfers. *)

\* USBSTOR's usb_bulk_manage_status and cbw_scsi_read_capacity take what comes
Recovers == drv = "usbhdfsd"

Goto(next) == pc' = next /\ UNCHANGED <<ret, tries, toClear>>
Return(r) == pc' = "idle" /\ ret' = r /\ UNCHANGED <<tries, toClear>>

\* an attempt is over: sectors are tried again for ever, the capacity RetryCount times
Finish(r) ==
  CASE op = "capacity" ->
         /\ tries' = tries - 1 /\ ret' = r /\ UNCHANGED toClear
         /\ pc' = IF r # 0 /\ tries > 1 THEN "command" ELSE "idle"
    [] op \in {"read", "write"} /\ drv = "usbhdfsd" /\ r # 0 -> Goto("command")
    [] op = "inquiry" -> Goto("idle")
    [] OTHER -> Return(r)

\* mutant: the result is that of the recovery
RecoverReturning(r, clear) ==
  pc' = "reset" /\ toClear' = clear /\ ret' = 0 /\ UNCHANGED tries

\* usb_bulk_reset(mode): reset, then the halts of the mode are cleared
Recover(r, clear) == pc' = "reset" /\ toClear' = clear /\ ret' = r /\ UNCHANGED tries

AfterData(code) ==
  IF op = "capacity" /\ code = 4 /\ Recovers
  THEN Recover(4, {"in"})
  ELSE pc' = "status" /\ UNCHANGED <<tries, toClear>>
       /\ ret' = IF op = "inquiry" THEN code ELSE ret

\* mutant: the signature and the tag are not looked at
StatusUnchecked(status, valid) ==
  IF Recovers /\ status = 2
  THEN Recover(IF op = "inquiry" THEN ret ELSE status, {"in", "out"})
  ELSE Finish(status)

\* usb_bulk_manage_status, with the status block
StatusRead(status, valid) ==
  IF Recovers /\ (~valid \/ status = 2)
  THEN Recover(IF op = "inquiry" THEN ret ELSE status, {"in", "out"})
  ELSE Finish(status)

\* the clears of usb_bulk_reset, then the attempt is over
AfterReset ==
  IF "in" \in toClear THEN Goto("clearIn")
  ELSE IF "out" \in toClear THEN Goto("clearOut") ELSE Finish(ret)
\* mutant: the mode's second bit is not looked at
AfterClearInOnly == Finish(ret)
AfterClearIn == IF "out" \in toClear THEN Goto("clearOut") ELSE Finish(ret)

\* submit a transfer and wait for its callback
Submit ==
  /\ pc # "idle" /\ ~waiting /\ open
  /\ waiting' = TRUE
  /\ UNCHANGED <<drv, client, op, pc, ret, tries, toClear, open, device>>

\* USBSTOR looks at the result of UsbBulkTransfer for the data only
WaitsAllTheSame == drv = "usbstor" /\ pc # "data"

\* the endpoint is closed, and UsbBulkTransfer returns an error
SubmitFails ==
  /\ pc # "idle" /\ ~waiting /\ ~open
  /\ IF WaitsAllTheSame
     THEN waiting' = TRUE /\ UNCHANGED <<pc, ret, tries, toClear>>
     ELSE /\ UNCHANGED waiting
          /\ CASE pc = "command" -> Goto(AfterCommand(op))
               [] pc = "data" -> AfterData(-1)
               [] pc = "status" -> Goto("clear")
               [] pc = "clear" -> Goto("status2")
               [] pc = "status2" -> Finish(-1)
               [] pc \in {"reset", "clearOut"} -> Finish(ret)
               [] pc = "clearIn" -> AfterClearIn
               [] pc = "control" -> Return(0)
  /\ UNCHANGED <<drv, client, op, open, device>>

(* The device answers the transfer, and its callback wakes the thread. *)

Answered == waiting /\ open /\ waiting' = FALSE /\ UNCHANGED <<drv, client, op, open>>

AnswerCommand ==
  /\ pc = "command" /\ Answered /\ Goto(AfterCommand(op))
  /\ IF "out" \in halted
     THEN UNCHANGED device
     ELSE /\ phase = "cbw"
          /\ phase' = IF op \in NoDataOps THEN "csw" ELSE "data"
          /\ served' = FALSE
          /\ \E p \in Plans(op) :
               plan' = p /\ faults' = IF p = Good(op) THEN faults ELSE faults + 1
          /\ UNCHANGED halted

AnswerData ==
  /\ pc = "data" /\ Answered
  /\ UNCHANGED <<plan, served, faults>>
  /\ \/ /\ DataPipe(op) \in halted
        /\ AfterData(4) /\ UNCHANGED <<phase, halted>>
     \/ /\ DataPipe(op) \notin halted /\ phase = "data" /\ DataPipe(plan.of) = DataPipe(op)
        /\ phase' = "csw"
        /\ IF plan.goes \notin {"stallCapacity", "stallIn"}
           THEN AfterData(0) /\ UNCHANGED halted
           ELSE AfterData(4) /\ halted' = halted \cup {DataPipe(op)}

\* a stalled read of the status leaves what the driver had put there: valid, and good
AnswerStatus ==
  /\ pc \in {"status", "status2"} /\ Answered
  /\ UNCHANGED <<plan, faults>>
  /\ IF "in" \in halted
     THEN StatusRead(0, TRUE) /\ UNCHANGED <<phase, halted, served>>
     ELSE /\ phase = "csw"
          /\ StatusRead(Status(plan.goes), plan.goes # "invalid")
          /\ served' = (plan = Good(op))
          /\ IF plan.goes \in {"phase", "invalid"}
             THEN phase' = "wedged" /\ halted' \in SUBSET {"in", "out"}
             ELSE phase' = "cbw" /\ UNCHANGED halted

AnswerControl ==
  /\ pc \in {"clear", "reset", "clearIn", "clearOut", "control"} /\ Answered
  /\ CASE pc = "clear" -> Goto("status2")
       [] pc = "reset" -> AfterReset
       [] pc = "clearIn" -> AfterClearIn
       [] pc = "clearOut" -> Finish(ret)
       [] pc = "control" -> Return(0)
  /\ phase' = IF pc = "reset" THEN "cbw" ELSE phase
  /\ halted' = CASE pc \in {"clear", "clearIn"} -> halted \ {"in"}
                 [] pc = "clearOut" -> halted \ {"out"}
                 [] OTHER -> halted
  /\ UNCHANGED <<plan, served, faults>>

\* mass_stor_release: the endpoints are closed, and what was under way is dropped
Unplug ==
  /\ Removable /\ open /\ open' = FALSE
  /\ UNCHANGED <<host, device>>

HostStep == WarmUp \/ ReadOrWrite \/ Submit \/ SubmitFails
DeviceStep == AnswerCommand \/ AnswerData \/ AnswerStatus \/ AnswerControl

Next == HostStep \/ DeviceStep \/ Unplug

Spec == Init /\ [][Next]_vars
\* the thread is scheduled, and the controller and the device answer what they expect
FairSpec == Spec /\ WF_vars(HostStep) /\ WF_vars(DeviceStep)

-----------------------------------------------------------------------------
\* An operation that reports success (cbw_scsi_read_sector and the others
\* returning 0) was carried out by the device from its command to a good
\* status: no failed, phase-error, invalid or stalled attempt, and no removal,
\* is taken for success.
SuccessIsTrue ==
  pc = "idle" /\ ret = 0 /\ op \notin ControlOps \cup {"inquiry"} => served

\* A device is up only with a capacity it reported itself: mass_stor_warmup
\* never takes its sector size from a failed READ CAPACITY, however many
\* attempts, resets and status blocks it took (USBSTOR does: hence the driver).
UpMeansCapacity ==
  [][client' = "up" /\ client # "up" /\ drv = "usbhdfsd"
       => served /\ plan.of = "capacity"]_vars

\* Host and device never drift apart: when a command is about to be sent, the
\* device expects one and neither endpoint is halted, whatever the previous
\* command ended in.  (Otherwise the command is refused and the thread sleeps.)
InStep == pc = "command" /\ open => phase = "cbw" /\ halted = {}

\* Every operation returns, or the device is gone: retries and recovery always
\* lead back to a device that answers.
OperationEnds == (pc # "idle") ~> (pc = "idle" \/ ~open)

=============================================================================
