------------------------------ MODULE UsbPorts ------------------------------
(***************************************************************************)
(* How USBD brings up the devices on the ports of the root hub: the thread *)
(* of the host controller's interrupt resets one port at a time, addresses *)
(* the device, reads its descriptors and offers it to the drivers, under   *)
(* usbdSema but for the calls of the drivers' functions; another thread    *)
(* registers a driver and offers it the devices that are there.  Timers    *)
(* count frames.  A device's transfers are those of UsbTransfer: here a    *)
(* control request succeeds or gets no response.                           *)
(***************************************************************************)
EXTENDS Integers, Sequences, FiniteSets, SequencesExt

CONSTANTS
  NumPorts,   \* ports of the root hub
  Ep,         \* endpoints
  Kind,       \* devices that may be plugged in: good, dead (never answers), large (its
              \* descriptors do not fit)
  Hub, Late,  \* the hub driver, and the one that is registered while devices come and go
  ResetDelay, AddressDelay, PeekDelay, KillDelay, \* 500, 20, 240 and 200 frames
  MaxTries,   \* how often functionDelay is doubled
  MaxPlugs,   \* bound: how often devices are plugged in or out
  None

ASSUME PortsAssumption ==
  /\ {NumPorts, ResetDelay, AddressDelay, PeekDelay, KillDelay, MaxTries} \subseteq Nat \ {0}
  /\ MaxPlugs \in Nat
  /\ Kind \subseteq {"good", "dead", "large"} /\ None \notin Kind
  /\ Hub # Late /\ None \notin {Hub, Late, "irq", "reg"}

Port == 1 .. NumPorts
Driver == {Hub, Late}
Status == {"notconnected", "connected", "delayed", "pending", "complete", "ready"}

VARIABLES
  plug,   \* what is in a port, or None
  plugs,  \* how often a device was plugged in or out
  change, \* ports with a change the interrupt has not handled: of the connection, of the reset
  usb,    \* memPool and the devices of the ports
  irq,    \* the interrupt's thread: where it is, for which port and which driver
  reg,    \* the thread that registers Late: where it is, and curDevice
  drivers, \* drvListStart
  lock,   \* usbdSema: who holds it
  calls,  \* how often connect was called for the device of a port
  slips    \* what has happened that the code does not allow for: "mixed", a thread changed the
           \* devices or drivers while the other went through them without the semaphore;
           \* "torn", a device left that was not on the list of the connected devices;
           \* "stolen", a device failed that had given its turn back while another had one

vars == <<plug, plugs, change, usb, irq, reg, drivers, lock, calls, slips>>

Timer == [cb : {"reset", "address", "peek"}, of : Port, left : Nat]
         \cup [cb : {"kill"}, of : Ep, left : Nat]

\* The domains of the variables.
TypeOK ==
  /\ plug \in [Port -> Kind \cup {None}] /\ plugs \in 0 .. MaxPlugs
  /\ change \in [Port -> SUBSET {"connection", "reset"}]
  /\ usb.status \in [Port -> Status]
  /\ usb.resetFlag \in [Port -> BOOLEAN] /\ usb.delayResets \in BOOLEAN
  /\ usb.resetting \subseteq Port               \* HcRhPortStatus: PORT_RESET
  /\ usb.timers \in Seq(Timer)                  \* timerListStart, delays relative to the one before
  /\ usb.eps \in [Port -> Seq(Ep)] /\ usb.freeEps \subseteq Ep
  /\ usb.request \in [Port -> {"none", "address", "device", "config"}]
  /\ usb.tries \in [Port -> 0 .. MaxTries]      \* functionDelay
  /\ usb.first \in {0} \cup Port /\ usb.last \in {0} \cup Port \* deviceConnectedList
  /\ usb.next \in [Port -> {0} \cup Port] /\ usb.prev \in [Port -> {0} \cup Port]
  /\ usb.driver \in [Port -> Driver \cup {None}]
  /\ irq.pc \in {"idle", "rhsc", "disconnect", "after", "offer", "probe", "connect"}
  /\ irq.port \in 0 .. NumPorts /\ irq.drv \in 0 .. 2
  /\ irq.seen \in SUBSET {"plugged", "connection", "reset"}
  /\ reg.pc \in {"start", "list", "probe", "connect", "done"} /\ reg.cur \in {0} \cup Port
  /\ drivers \in Seq(Driver) /\ lock \in {None, "irq", "reg"}
  /\ calls \in [Port -> Nat] /\ slips \subseteq {"mixed", "torn", "stolen"}

(***************************************************************************)
(* Timers.  A timer is a device's or an endpoint's; delays are relative.   *)
(***************************************************************************)

DeviceTimer(t, p) == t.cb # "kill" /\ t.of = p
Active(s, cb, of) ==
  \E i \in DOMAIN s.timers : IF cb = "kill" THEN s.timers[i].cb = cb /\ s.timers[i].of = of
                             ELSE DeviceTimer(s.timers[i], of)

\* addTimerCallback: before the first one that is not earlier; nothing when it is active
Before(T, i) ==
  LET sum[j \in 0 .. Len(T)] == IF j = 0 THEN 0 ELSE sum[j - 1] + T[j].left IN sum[i]
Position(T, delay) ==
  CHOOSE i \in 0 .. Len(T) : /\ \A j \in 1 .. i : delay > Before(T, j)
                             /\ i = Len(T) \/ delay <= Before(T, i + 1)

AddTimer(s, cb, of, delay) ==
  LET T == s.timers
      at == Position(T, delay)
      new == [cb |-> cb, of |-> of, left |-> delay - Before(T, at)]
  IN IF Active(s, cb, of) THEN s
     ELSE [s EXCEPT !.timers =
             [i \in 1 .. (Len(T) + 1) |->
                CASE i <= at -> T[i]
                  [] i = at + 1 -> new
                  [] i = at + 2 -> [T[at + 1] EXCEPT !.left = @ - new.left]
                  [] i > at + 2 -> T[i - 1]]]

\* cancelTimerCallback: the delay of the next timer is not adjusted, which then fires early
CancelTimer(s, p) ==
  LET T == s.timers
      own == {i \in DOMAIN T : DeviceTimer(T[i], p)}
      k == CHOOSE i \in own : TRUE
  IN IF own = {} THEN s
     ELSE [s EXCEPT !.timers = [i \in 1 .. (Len(T) - 1) |-> IF i < k THEN T[i] ELSE T[i + 1]]]

(***************************************************************************)
(* Devices.  Each operator takes usb and returns what it becomes.          *)
(***************************************************************************)

\* openDeviceEndpoint, as far as endpoints go; the first endpoint is the control endpoint
OpenEndpoint(s, p) ==
  LET e == CHOOSE x \in s.freeEps : TRUE
  IN [s EXCEPT !.freeEps = @ \ {e}, !.eps[p] = Append(@, e)]

\* a mutant: the endpoint is the next device's, and free
RemoveEndpointsNow(s, p) ==
  [s EXCEPT !.freeEps = @ \cup ToSet(s.eps[p]), !.request[p] = "none"]

\* removeEndpointFromDevice for each endpoint: their requests get no callback any more
RemoveEndpoints(s, p) ==
  LET killed[i \in 0 .. Len(s.eps[p])] ==
        IF i = 0 THEN s ELSE AddTimer(killed[i - 1], "kill", s.eps[p][i], KillDelay)
  IN [killed[Len(s.eps[p])] EXCEPT !.eps[p] = <<>>, !.request[p] = "none"]

\* a mutant: a port is reset whatever the others do
ResetDeviceAlways(s, p) ==
  [s EXCEPT !.delayResets = TRUE, !.status[p] = "pending", !.resetFlag[p] = TRUE,
            !.resetting = @ \cup {p}]

\* hubResetDevice, on the root hub
ResetDevice(s, p) ==
  IF s.delayResets THEN [s EXCEPT !.status[p] = "delayed"]
  ELSE [s EXCEPT !.delayResets = TRUE, !.status[p] = "pending", !.resetFlag[p] = TRUE,
                 !.resetting = @ \cup {p}]

\* a mutant: nobody else has a turn
CheckDelayedResetsNot(s, p) == [s EXCEPT !.delayResets = FALSE, !.resetFlag[p] = FALSE]

\* checkDelayedResets: the first port that waits has its turn
CheckDelayedResets(s, p) ==
  LET free == [s EXCEPT !.delayResets = FALSE, !.resetFlag[p] = FALSE]
      waiting == {q \in Port : s.status[q] = "delayed"}
  IN IF waiting = {} THEN free ELSE ResetDevice(free, CHOOSE q \in waiting : \A r \in waiting : q <= r)

KillDevice(s, p) == ResetDevice(CheckDelayedResets(RemoveEndpoints(s, p), p), p)

\* a mutant: the device before keeps its link
UnlinkForward(s, p) ==
  LET n == s.next[p]
      v == s.prev[p]
      a == IF n # 0 THEN [s EXCEPT !.prev[n] = v] ELSE [s EXCEPT !.last = v]
  IN [(IF v # 0 THEN a ELSE [a EXCEPT !.first = n]) EXCEPT !.next[p] = 0, !.prev[p] = 0]

\* flushPort: the device leaves the list of the connected devices, on it or not
Unlink(s, p) ==
  LET n == s.next[p]
      v == s.prev[p]
      a == IF n # 0 THEN [s EXCEPT !.prev[n] = v] ELSE [s EXCEPT !.last = v]
      b == IF v # 0 THEN [a EXCEPT !.next[v] = n] ELSE [a EXCEPT !.first = n]
  IN [b EXCEPT !.next[p] = 0, !.prev[p] = 0]

\* flushPort from the disconnect callback on
FlushEnd(s, p) ==
  LET t == [s EXCEPT !.driver[p] = None]
      u == Unlink(RemoveEndpoints(CancelTimer(t, p), p), p)
  IN IF u.resetFlag[p] THEN CheckDelayedResets(u, p) ELSE u

\* fetchConfigDescriptors, at its end
Link(s, p) ==
  LET l == s.last
      a == [s EXCEPT !.prev[p] = l, !.next[p] = 0, !.last = p]
  IN IF l # 0 THEN [a EXCEPT !.next[l] = p] ELSE [a EXCEPT !.first = p]

\* the list of the connected devices, followed from its first one; 0 from its end on
Walk(s) ==
  LET at[k \in 0 .. NumPorts] ==
        IF k = 0 THEN s.first ELSE IF at[k - 1] = 0 THEN 0 ELSE s.next[at[k - 1]]
  IN at
Listed(s) == {Walk(s)[k] : k \in 0 .. NumPorts} \ {0}

(***************************************************************************)
(* What is outside: devices come and go, the host controller resets ports  *)
(***************************************************************************)

Plug(p, k) ==
  /\ plug[p] = None /\ plugs < MaxPlugs
  /\ plug' = [plug EXCEPT ![p] = k] /\ plugs' = plugs + 1
  /\ change' = [change EXCEPT ![p] = @ \cup {"connection"}]
  /\ UNCHANGED <<usb, irq, reg, drivers, lock, calls, slips>>

Unplug(p) ==
  /\ plug[p] # None /\ plugs < MaxPlugs
  /\ plug' = [plug EXCEPT ![p] = None] /\ plugs' = plugs + 1
  /\ change' = [change EXCEPT ![p] = @ \cup {"connection"}]
  /\ UNCHANGED <<usb, irq, reg, drivers, lock, calls, slips>>

\* the reset of a port ends; of one with nothing in it, the connection changes instead
ResetDone(p) ==
  /\ p \in usb.resetting
  /\ usb' = [usb EXCEPT !.resetting = @ \ {p}]
  /\ change' = [change EXCEPT ![p] = @ \cup {IF plug[p] = None THEN "connection" ELSE "reset"}]
  /\ UNCHANGED <<plug, plugs, irq, reg, drivers, lock, calls, slips>>

(***************************************************************************)
(* The interrupt's thread                                                  *)
(***************************************************************************)

Idle == [pc |-> "idle", port |-> 0, drv |-> 0, seen |-> {}]
Free == irq.pc = "idle" /\ lock = None

\* is the other thread, or this one, in a driver's function?
RegAway == reg.pc \in {"probe", "connect"}
IrqAway == irq.pc \in {"probe", "connect", "disconnect"}

Slip(mixed, torn, stolen) ==
  slips' = slips \cup (IF mixed THEN {"mixed"} ELSE {}) \cup (IF torn THEN {"torn"} ELSE {})
                 \cup (IF stolen THEN {"stolen"} ELSE {})

\* another device has its turn
Others(p) == usb.delayResets /\ ~usb.resetFlag[p]

\* handleRhsc looks at every port, one after the other
AtPort(p) == IF p > NumPorts THEN Idle ELSE [Idle EXCEPT !.pc = "rhsc", !.port = p]
Holder(next) == IF next.pc = "idle" THEN None ELSE "irq"
GoOn(next) == irq' = next /\ lock' = Holder(next)

Interrupt ==
  /\ Free /\ \E p \in Port : change[p] # {}
  /\ GoOn(AtPort(1))
  /\ UNCHANGED <<plug, plugs, change, usb, reg, drivers, calls, slips>>

\* handleRhsc after a port may have been flushed: a new device, or the end of a reset
Arrived(s, p, seen) ==
  IF "plugged" \notin seen THEN s
  ELSE IF s.status[p] = "notconnected" THEN
    AddTimer([s EXCEPT !.status[p] = "connected"], "reset", p, ResetDelay)
  ELSE IF s.status[p] = "pending" /\ p \notin s.resetting THEN
    LET c == [s EXCEPT !.status[p] = "complete"]
    IN IF s.freeEps = {} THEN c
       ELSE AddTimer([OpenEndpoint(c, p) EXCEPT !.tries[p] = 0], "address", p, AddressDelay)
  ELSE s

\* handleRhsc for a port, up to the disconnect callback if there is one
HandlePort ==
  LET p == irq.port
      seen == change[p] \cup (IF plug[p] = None THEN {} ELSE {"plugged"})
      flush == "plugged" \notin seen \/ (usb.status[p] # "notconnected" /\ "connection" \in seen)
      gone == [usb EXCEPT !.status[p] = "notconnected"]
      used == usb.driver[p] # None
      flushed == IF usb.status[p] = "notconnected"
                 THEN IF usb.resetFlag[p] THEN CheckDelayedResets(usb, p) ELSE usb
                 ELSE FlushEnd(gone, p)
  IN /\ irq.pc = "rhsc"
     /\ change' = [change EXCEPT ![p] = {}]
     /\ IF flush /\ usb.status[p] # "notconnected" /\ used THEN
          /\ usb' = gone
          /\ irq' = [irq EXCEPT !.pc = "disconnect", !.seen = seen] /\ lock' = None
        ELSE
          /\ usb' = Arrived(IF flush THEN flushed ELSE usb, p, seen)
          /\ GoOn(AtPort(p + 1))
     /\ calls' = IF flush THEN [calls EXCEPT ![p] = 0] ELSE calls
     /\ Slip(flush /\ RegAway, flush /\ usb.status[p] # "notconnected" /\ p \notin Listed(usb), FALSE)
     /\ UNCHANGED <<plug, plugs, reg, drivers>>

\* callUsbDriverFunc returns from disconnect: it waits for the semaphore again
Disconnected ==
  LET p == irq.port
  IN /\ irq.pc = "disconnect" /\ lock = None
     /\ usb' = Arrived(FlushEnd(usb, p), p, irq.seen)
     /\ Slip(RegAway, p \notin Listed(usb), FALSE)
     /\ GoOn(AtPort(p + 1))
     /\ UNCHANGED <<plug, plugs, change, reg, drivers, calls>>

\* handleTimerList, on a new frame: one timer's callback at a time
Fired(s, t) ==
  IF t.cb = "reset" THEN ResetDevice(s, t.of)
  ELSE IF t.cb = "address" THEN [s EXCEPT !.request[t.of] = "address"]
  ELSE IF t.cb = "peek" THEN CheckDelayedResets([s EXCEPT !.request[t.of] = "device"], t.of)
  ELSE [s EXCEPT !.freeEps = @ \cup {t.of}]

Due(s) == s.timers # <<>> /\ s.timers[1].left = 0
FireFirst(s) == Fired([s EXCEPT !.timers = Tail(@)], Head(s.timers))
FireAll(s) ==
  LET fired[k \in 0 .. Len(s.timers)] ==
        IF k = 0 THEN s ELSE IF Due(fired[k - 1]) THEN FireFirst(fired[k - 1]) ELSE fired[k - 1]
  IN fired[Len(s.timers)]

Frame ==
  LET down == IF usb.timers[1].left > 0 THEN [usb EXCEPT !.timers[1].left = @ - 1] ELSE usb
  IN /\ Free /\ usb.timers # <<>>
     /\ usb' = FireAll(down)
     /\ UNCHANGED <<plug, plugs, change, irq, reg, drivers, lock, calls, slips>>

\* a device answers that is not dead and has been there since its port was reset
Answers(p) == plug[p] \notin {None, "dead"} /\ "connection" \notin change[p]

\* hubSetFuncAddressCB; the delay, which the code doubles each time up to 1280 frames, is
\* the same for each try here, and MaxTries is how often that lets it try
Addressed(p) ==
  LET s == [usb EXCEPT !.request[p] = "none"]
      again == AddTimer([s EXCEPT !.tries[p] = @ + 1], "address", p, AddressDelay)
  IN /\ Free /\ usb.request[p] = "address"
     /\ usb' = IF Answers(p) THEN AddTimer([s EXCEPT !.status[p] = "ready"], "peek", p, PeekDelay)
               ELSE IF usb.tries[p] < MaxTries THEN again ELSE KillDevice(s, p)
     /\ UNCHANGED <<plug, plugs, change, irq, reg, drivers, lock, calls, slips>>

\* requestDevDescrptCb
Described(p) ==
  LET s == [usb EXCEPT !.request[p] = "none"]
  IN /\ Free /\ usb.request[p] = "device"
     /\ usb' = IF Answers(p) THEN [s EXCEPT !.request[p] = "config"] ELSE KillDevice(s, p)
     /\ Slip(FALSE, FALSE, ~Answers(p) /\ Others(p))
     /\ UNCHANGED <<plug, plugs, change, irq, reg, drivers, lock, calls>>

\* fetchConfigDescriptors: a device with large descriptors is ignored
Configured(p) ==
  LET s == [usb EXCEPT !.request[p] = "none"]
      fits == Answers(p) /\ plug[p] # "large"
  IN /\ Free /\ usb.request[p] = "config"
     /\ usb' = IF fits THEN Link(s, p) ELSE IF Answers(p) THEN s ELSE KillDevice(s, p)
     /\ GoOn(IF fits THEN [Idle EXCEPT !.pc = "offer", !.port = p, !.drv = 1] ELSE Idle)
     /\ Slip(fits /\ RegAway, FALSE, ~Answers(p) /\ Others(p))
     /\ UNCHANGED <<plug, plugs, change, reg, drivers, calls>>

\* connectNewDevice: the semaphore is free while a driver's function runs
Offer ==
  /\ irq.pc = "offer"
  /\ IF irq.drv > Len(drivers) THEN GoOn(Idle)
     ELSE irq' = [irq EXCEPT !.pc = "probe"] /\ lock' = None
  /\ UNCHANGED <<plug, plugs, change, usb, reg, drivers, calls, slips>>

Wants(drv, p) == drv = Late

ProbeReturns ==
  LET p == irq.port
  IN /\ irq.pc = "probe" /\ lock = None
     /\ IF Wants(drivers[irq.drv], p) THEN
          /\ usb' = [usb EXCEPT !.driver[p] = drivers[irq.drv]]
          /\ calls' = [calls EXCEPT ![p] = @ + 1]
          /\ irq' = [irq EXCEPT !.pc = "connect"] /\ UNCHANGED lock
        ELSE
          /\ irq' = [irq EXCEPT !.pc = "offer", !.drv = @ + 1] /\ lock' = "irq"
          /\ UNCHANGED <<usb, calls>>
     /\ UNCHANGED <<plug, plugs, change, reg, drivers, slips>>

ConnectReturns ==
  /\ irq.pc = "connect" /\ lock = None /\ irq' = Idle
  /\ UNCHANGED <<plug, plugs, change, usb, reg, drivers, lock, calls, slips>>

(***************************************************************************)
(* The thread that registers Late                                          *)
(***************************************************************************)

\* doRegisterDriver
Register ==
  /\ reg.pc = "start" /\ lock = None
  /\ drivers' = Append(drivers, Late) /\ lock' = "reg"
  /\ reg' = [pc |-> "list", cur |-> usb.first]
  /\ Slip(IrqAway, FALSE, FALSE)
  /\ UNCHANGED <<plug, plugs, change, usb, irq, calls>>

\* probeDeviceConnectList
Look ==
  /\ reg.pc = "list" /\ lock = "reg"
  /\ IF reg.cur = 0 THEN reg' = [reg EXCEPT !.pc = "done"] /\ lock' = None
     ELSE IF usb.status[reg.cur] = "ready" /\ usb.driver[reg.cur] = None
     THEN reg' = [reg EXCEPT !.pc = "probe"] /\ lock' = None
     ELSE reg' = [reg EXCEPT !.cur = usb.next[@]] /\ UNCHANGED lock
  /\ UNCHANGED <<plug, plugs, change, usb, irq, drivers, calls, slips>>

RegProbeReturns ==
  /\ reg.pc = "probe" /\ lock = None
  /\ usb' = [usb EXCEPT !.driver[reg.cur] = Late]
  /\ calls' = [calls EXCEPT ![reg.cur] = @ + 1]
  /\ reg' = [reg EXCEPT !.pc = "connect"]
  /\ UNCHANGED <<plug, plugs, change, irq, drivers, lock, slips>>

RegConnectReturns ==
  /\ reg.pc = "connect" /\ lock = None
  /\ reg' = [pc |-> "list", cur |-> usb.next[reg.cur]] /\ lock' = "reg"
  /\ UNCHANGED <<plug, plugs, change, usb, irq, drivers, calls, slips>>

Init ==
  /\ plug = [p \in Port |-> None] /\ plugs = 0 /\ change = [p \in Port |-> {}]
  /\ usb = [status |-> [p \in Port |-> "notconnected"], resetFlag |-> [p \in Port |-> FALSE],
            delayResets |-> FALSE, resetting |-> {}, timers |-> <<>>,
            eps |-> [p \in Port |-> <<>>], freeEps |-> Ep,
            request |-> [p \in Port |-> "none"], tries |-> [p \in Port |-> 0],
            first |-> 0, last |-> 0, next |-> [p \in Port |-> 0], prev |-> [p \in Port |-> 0],
            driver |-> [p \in Port |-> None]]
  /\ irq = Idle /\ reg = [pc |-> "start", cur |-> 0] /\ drivers = <<Hub>> /\ lock = None
  /\ calls = [p \in Port |-> 0] /\ slips = {}

Answered(p) == Addressed(p) \/ Described(p) \/ Configured(p)

IrqStep ==
  \/ Interrupt \/ Offer \/ ProbeReturns \/ ConnectReturns \/ Disconnected \/ HandlePort \/ Frame

RegStep == Register \/ Look \/ RegProbeReturns \/ RegConnectReturns

Next ==
  \/ IrqStep \/ RegStep
  \/ \E p \in Port : Answered(p) \/ Unplug(p) \/ ResetDone(p) \/ \E k \in Kind : Plug(p, k)

Spec == Init /\ [][Next]_vars

\* The interrupt's thread goes on with what it has and with the frames, every request is
\* answered or times out, every reset ends, and Late is registered at some time.
Fairness ==
  /\ WF_vars(IrqStep) /\ SF_vars(RegStep)
  /\ \A p \in Port : WF_vars(ResetDone(p)) /\ SF_vars(Answered(p))

FairSpec == Spec /\ Fairness

-----------------------------------------------------------------------------
(* Properties *)

InReset == {p \in Port : usb.status[p] \in {"pending", "complete"}}

\* At most one port is between the start of its reset and the address of its device, and
\* while resets are delayed one device has the turn, which gives it back when it is
\* addressed, fails or leaves; unless one has failed that had already given it back
\* (hubResetDevice, checkDelayedResets, flushPort).
OneReset ==
  "stolen" \notin slips =>
    /\ Cardinality(InReset) <= 1
    /\ IF usb.delayResets THEN Cardinality({p \in Port : usb.resetFlag[p]}) = 1
       ELSE \A p \in Port : ~usb.resetFlag[p] /\ usb.status[p] # "delayed"

\* An endpoint is free, or belongs to one device, or waits to be freed, whatever becomes of
\* the device while it is addressed (removeEndpointFromDevice, killEndpoint).
NoEndpointLost ==
  LET dying == {e \in Ep : Active(usb, "kill", e)}
      owned(p) == ToSet(usb.eps[p])
  IN \A e \in Ep : Cardinality({p \in Port : e \in owned(p)})
       + Cardinality({x \in {"dying"} : e \in dying}) + Cardinality({x \in {"free"} : e \in usb.freeEps}) = 1

\* The list of the connected devices, followed from its first one, ends, and all on it are
\* there with their descriptors; unless a device has left that was not on it, every device
\* that has a driver is on it; and a device is given to a driver once, unless one thread has
\* changed devices or drivers while the other was going through them (flushPort,
\* fetchConfigDescriptors, connectNewDevice, doRegisterDriver).
ListSound ==
  /\ Walk(usb)[NumPorts] = 0
  /\ \A p \in Listed(usb) : usb.status[p] = "ready" \/ (irq.pc = "disconnect" /\ irq.port = p)
  /\ slips \cap {"torn", "mixed"} = {} => \A p \in Port : usb.driver[p] # None => p \in Listed(usb)
  /\ "mixed" \notin slips => \A p \in Port : calls[p] <= 1

\* A good device that stays is given to the driver that wants it in the end, whatever
\* happens on the other port, unless the list was torn, the threads were mixed or the turn
\* of resetting was stolen, and as long as the endpoints do not run out (the run has as
\* many as two devices take).
Stays(p) == plug[p] = "good" /\ slips = {}
GoodServed == \A p \in Port : <>[]Stays(p) => <>[](usb.driver[p] = Late)

=============================================================================
