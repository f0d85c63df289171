---------------------------- MODULE UsbTransfer ----------------------------
(***************************************************************************)
(* Transfers in the USB host driver (usbd/src, and its copy in             *)
(* cdvdman/USBD): the pools of endpoints, transfer descriptors (TDs) and   *)
(* requests, the request list of an endpoint, the queues of endpoints that *)
(* wait for a TD, the OHCI controller with its done queue, the thread that *)
(* serves its interrupts, the closing of endpoints, and the thread that    *)
(* calls the users back.                                                   *)
(*                                                                         *)
(* A call or a callback holds usbdSema and is one action.  The interrupt   *)
(* thread holds it while it works through a done queue, one descriptor an  *)
(* action: the semaphore is free when done is empty.  The controller and   *)
(* the first half of the callback thread do not take it.                   *)
(*                                                                         *)
(* Result codes and lengths are left out.  The lists of free objects are   *)
(* sets, and allocation takes any member.                                  *)
(***************************************************************************)
EXTENDS Integers, Sequences, FiniteSets, SequencesExt

CONSTANTS
  Ep,          \* maxEndpoints endpoints
  GenTd,       \* maxTransfDesc general TDs
  IsoTd,       \* maxIsoTransfDesc isochronous TDs
  Req,         \* maxIoReqs requests
  Xfer,        \* users, each with one transfer at a time
  None,        \* no request
  Types,       \* the types of endpoint that get opened
  DataStages,  \* whether control transfers carry data
  MaxSent,     \* how many transfers users have under way on an endpoint
  Removable,   \* endpoints that users close, or that lose their device
  QuietBus     \* the controller may keep retired TDs for 200 frames

ASSUME UsbTransferAssumption ==
  /\ GenTd \cap IsoTd = {} /\ None \notin Req /\ None \notin Xfer
  /\ Types \subseteq {"control", "bulk", "iso"}
  /\ DataStages \subseteq BOOLEAN /\ MaxSent \in Nat /\ Removable \subseteq Ep /\ QuietBus \in BOOLEAN
  /\ IsFiniteSet(GenTd) /\ IsFiniteSet(IsoTd)

Td == GenTd \cup IsoTd

\* An interrupt endpoint is served as a bulk one.
AllTypes == {"control", "bulk", "iso"}
Queues == {"gen", "iso"}

VARIABLES
  freeTd, freeReq, freeEp,  \* the pools
  open,      \* endpoints with correspDevice; the others have HCED_SKIP
  type,      \* type[e]: endpointType
  list,      \* list[e]: ioReqListStart.., requests that have no TD yet
  waiting,   \* waiting[q]: tdQueue, endpoints with requests and no TD for them
  chain,     \* chain[e]: the TDs of hcEd from tdHead to tdTail
  halted,    \* endpoints the controller halted
  lut,       \* lut[t]: hcTdToIoReqLUT, the request TD t belongs to
  quiet,     \* TDs with delay interrupt 7: no interrupt when retired
  retired,   \* HcDoneHead, oldest first: TDs, and whether they failed
  written,   \* HCCA DoneHead, oldest first
  done,      \* what the interrupt thread has in hand, oldest first
  reqEp,     \* reqEp[r]: correspEndpoint
  data,      \* requests with a data stage
  owner,     \* owner[r]: userCallbackArg
  cbList,    \* requests to call back
  cbEvent,   \* the event flag of the callback thread
  cbPc,      \* where that thread is
  cbReq,     \* the request it took
  cbXfer,    \* reqCopy: the transfer of that
  sent,      \* sent[e]: transfers accepted and not called back
  earlier    \* earlier[x]: those that were accepted before x on its endpoint

pools == <<freeTd, freeReq, freeEp>>
eps == <<open, type, list, waiting>>
hc == <<chain, halted, retired, written>>
tds == <<lut, quiet, done>>
reqs == <<reqEp, data, owner>>
cb == <<cbList, cbEvent, cbPc, cbReq, cbXfer>>
log == <<sent, earlier>>
vars == <<pools, eps, hc, tds, reqs, cb, log>>

\* A type of endpoint, or the name of a queue, tells which TDs to use.
TdsFor(ty) == IF ty = "iso" THEN IsoTd ELSE GenTd
QueueOf(e) == IF type[e] = "iso" THEN "iso" ELSE "gen"
Sent == UNION {sent[e] : e \in Ep}

\* Transfers in S have ended.
Ended(S) ==
  /\ sent' = [e \in Ep |-> sent[e] \ S]
  /\ earlier' = [x \in Xfer |-> IF x \in S THEN {} ELSE earlier[x] \ S]

\* The semaphore is free: the interrupt thread is not at work.
Unlocked == done = <<>>

Init ==
  /\ freeTd = Td /\ freeReq = Req /\ freeEp = Ep
  /\ open = {} /\ type = [e \in Ep |-> "bulk"]
  /\ list = [e \in Ep |-> <<>>] /\ waiting = [q \in Queues |-> <<>>]
  /\ chain = [e \in Ep |-> <<>>] /\ halted = {}
  /\ lut = [t \in Td |-> None] /\ quiet = {}
  /\ retired = <<>> /\ written = <<>> /\ done = <<>>
  /\ reqEp \in [Req -> Ep] /\ \A r, s \in Req : reqEp[r] = reqEp[s]
  /\ data = {} /\ owner = [r \in Req |-> None]
  /\ cbList = <<>> /\ cbEvent = FALSE /\ cbPc = "wait" /\ cbReq = None /\ cbXfer = None
  /\ sent = [e \in Ep |-> {}] /\ earlier = [x \in Xfer |-> {}]
-----------------------------------------------------------------------------
(* Endpoints                                                               *)

\* openDeviceEndpoint: the new endpoint has one TD, the tail of its list.
\* Without one cleanUpFunc gives the endpoint back.
OpenEndpoint(e, ty) ==
  /\ Unlocked /\ e \in freeEp
  /\ \E t \in freeTd \cap TdsFor(ty) :
       /\ freeTd' = freeTd \ {t}
       /\ chain' = [chain EXCEPT ![e] = <<t>>]
  /\ freeEp' = freeEp \ {e} /\ open' = open \cup {e}
  /\ type' = [type EXCEPT ![e] = ty]
  /\ UNCHANGED <<freeReq, list, waiting, halted, retired, written, tds, reqs, cb, log>>

\* removeEndpointFromDevice: the controller is told to skip it, and a timer
\* is set that kills it.
RemoveEndpoint(e) ==
  /\ Unlocked /\ e \in open \cap Removable
  /\ open' = open \ {e}
  /\ UNCHANGED <<pools, type, list, waiting, hc, tds, reqs, cb, log>>

\* Mutant: requests with TDs are forgotten.
FlyingForgotten(e) == {}

InFlight(e) == {t \in Td : lut[t] # None /\ reqEp[lut[t]] = e}
Flying(e) == {lut[t] : t \in InFlight(e)}

\* removeEndpointFromQueue: e is in its queue at most once.
Dequeued(e) ==
  LET w == waiting[QueueOf(e)] IN
  IF e \in ToSet(w)
  THEN [waiting EXCEPT ![QueueOf(e)] = RemoveAt(w, CHOOSE i \in DOMAIN w : w[i] = e)]
  ELSE waiting

\* TDs the controller has retired and the driver has not seen.
Unseen == {d.td : d \in ToSet(retired) \cup ToSet(written)}

\* killEndpoint, 200 frames later, when the interrupt thread is through with
\* the done queue.  By then the controller has written its done queue,
\* unless all in it was quiet and nothing else was retired since.
KillEndpoint(e) ==
  LET dropped == Flying(e) \cup ToSet(list[e]) IN
  /\ Unlocked /\ e \notin open \cup freeEp
  /\ QuietBus \/ InFlight(e) \cap Unseen = {}
  /\ freeReq' = freeReq \cup dropped
  /\ freeTd' = freeTd \cup InFlight(e) \cup {Last(chain[e])}
  /\ lut' = [t \in Td |-> IF t \in InFlight(e) THEN None ELSE lut[t]]
  /\ quiet' = quiet \ InFlight(e)
  /\ chain' = [chain EXCEPT ![e] = <<>>] /\ halted' = halted \ {e}
  /\ list' = [list EXCEPT ![e] = <<>>]
  /\ waiting' = Dequeued(e)
  /\ freeEp' = freeEp \cup {e}
  /\ data' = data \ dropped /\ owner' = [r \in Req |-> IF r \in dropped THEN None ELSE owner[r]]
  /\ Ended({owner[r] : r \in dropped})
  /\ UNCHANGED <<open, type, retired, written, done, reqEp, cb>>
-----------------------------------------------------------------------------
(* Starting a request                                                      *)

Needed(e, r, D) == IF type[e] # "control" THEN 1 ELSE IF r \in D THEN 3 ELSE 2

\* Mutant: an endpoint without TDs is not queued.
EnqueuedNot(e) == waiting

Enqueued(e) == IF e \in ToSet(waiting[QueueOf(e)]) THEN waiting
               ELSE [waiting EXCEPT ![QueueOf(e)] = Append(@, e)]

\* n different TDs, in every order.
Picks(S, n) == {p \in [1..n -> S] : \A i, j \in 1..n : p[i] = p[j] => i = j}

\* handleIoReqList: set up the transfer of the first request of e.  The old
\* tail becomes its first TD, and a new one the tail; of a control transfer
\* only the last stage, status, interrupts.  Without TDs e has to wait, and
\* when it is halted or closed it is taken off the queue.  F, L, C, H, U, Q
\* and D are free TDs, lists, chains, halted, lut, quiet and data so far.
HandleIoReqList(e, F, L, C, H, U, Q, D) ==
  LET ready == L[e] # <<>> /\ e \in open /\ e \notin H
      r == Head(L[e])
      n == Needed(e, r, D)
      pool == F \cap TdsFor(type[e])
  IN IF ~ready \/ Cardinality(pool) < n
     THEN /\ freeTd' = F /\ list' = L /\ chain' = C /\ lut' = U /\ quiet' = Q /\ data' = D
          /\ waiting' = IF ready THEN Enqueued(e) ELSE Dequeued(e)
     ELSE \E new \in Picks(pool, n) :
            LET all == C[e] \o new
                tail == Len(C[e])
                mine == {all[i] : i \in tail..(tail + n - 1)}
            IN /\ freeTd' = F \ ToSet(new)
               /\ chain' = [C EXCEPT ![e] = all]
               /\ lut' = [t \in Td |-> IF t \in mine THEN r ELSE U[t]]
               /\ quiet' = IF type[e] = "control"
                           THEN Q \cup (mine \ {all[tail + n - 1]}) ELSE Q
               /\ list' = [L EXCEPT ![e] = Tail(@)]
               /\ data' = D \ {r}
               /\ waiting' = IF Len(L[e]) = 1 THEN Dequeued(e) ELSE waiting

\* checkTdQueue: go on with the first endpoint of the queue, if there is a TD.
CheckTdQueue(q, F, L, C, H, U, Q, D) ==
  IF waiting[q] # <<>> /\ F \cap TdsFor(q) # {}
  THEN HandleIoReqList(Head(waiting[q]), F, L, C, H, U, Q, D)
  ELSE /\ freeTd' = F /\ list' = L /\ chain' = C /\ lut' = U /\ quiet' = Q /\ data' = D
       /\ UNCHANGED waiting

\* attachIoReqToEndpoint puts the request at the end of the list.
Attached(e, r) == [list EXCEPT ![e] = Append(@, r)]

\* UsbTransfer attaches a request and handles the first of the list.  A call with a bad option, or for which
\* there is no request, changes nothing.
UsbTransfer(e, x, hasData) ==
  /\ Unlocked /\ e \in open
  /\ x \notin Sent /\ Cardinality(sent[e]) < MaxSent
  /\ hasData \in IF type[e] = "control" THEN DataStages ELSE {FALSE}
  /\ \E r \in freeReq :
       /\ freeReq' = freeReq \ {r}
       /\ reqEp' = [reqEp EXCEPT ![r] = e]
       /\ owner' = [owner EXCEPT ![r] = x]
       /\ HandleIoReqList(e, freeTd, Attached(e, r), chain, halted,
                          lut, quiet, IF hasData THEN data \cup {r} ELSE data)
  /\ sent' = [sent EXCEPT ![e] = @ \cup {x}] /\ earlier' = [earlier EXCEPT ![x] = sent[e]]
  /\ UNCHANGED <<freeEp, open, type, halted, retired, written, done, cb>>
-----------------------------------------------------------------------------
(* The controller                                                          *)

\* It retires the first TD of an endpoint, and halts the endpoint when that
\* failed, unless it is isochronous.  It may be at work on an endpoint that
\* has just been told to skip.
HcRetire(e, failed) ==
  /\ Len(chain[e]) > 1 /\ e \notin halted
  /\ retired' = Append(retired, [td |-> Head(chain[e]), failed |-> failed])
  /\ chain' = [chain EXCEPT ![e] = Tail(@)]
  /\ halted' = IF failed /\ type[e] # "iso" THEN halted \cup {e} ELSE halted
  /\ UNCHANGED <<pools, eps, written, tds, reqs, cb, log>>

\* It hands over the TDs it retired when one of them wants an interrupt, or
\* failed, and the driver has taken those before.
HcWriteDone ==
  /\ written = <<>>
  /\ \E d \in ToSet(retired) : d.failed \/ d.td \notin quiet
  /\ written' = retired /\ retired' = <<>>
  /\ UNCHANGED <<pools, eps, chain, halted, tds, reqs, cb, log>>
-----------------------------------------------------------------------------
(* The interrupt thread                                                    *)

\* Mutant: the done queue is not turned round.
TakeDoneReversed ==
  /\ Unlocked /\ written # <<>>
  /\ done' = Reverse(written) /\ written' = <<>>
  /\ UNCHANGED <<pools, eps, chain, halted, retired, lut, quiet, reqs, cb, log>>

\* hcdProcessIntr takes the done queue and turns it round.
TakeDone ==
  /\ Unlocked /\ written # <<>>
  /\ done' = written /\ written' = <<>>
  /\ UNCHANGED <<pools, eps, chain, halted, retired, lut, quiet, reqs, cb, log>>

\* signalCallbackThreadFunc, for one request after the other.
Signal(ends) ==
  /\ cbList' = cbList \o ends
  /\ cbEvent' = (cbEvent \/ ends # <<>>)

\* Different requests of a sequence, in the order of their first places in it.
Uniques(s) ==
  {l \in UNION {[1..n -> ToSet(s)] : n \in 0..Len(s)} :
     /\ ToSet(l) = ToSet(s)
     /\ \A i, j \in DOMAIN l : i < j =>
          \E h \in DOMAIN s : s[h] = l[i] /\ \A k \in 1..h : s[k] # l[j]}

\* processDoneQueue_GenTd, _IsoTd: the request is complete when its last TD is
\* or when one failed; then the endpoint's other TDs are taken back and their
\* requests aborted, and the endpoint is not halted any more.  Complete
\* requests are called back, or freed when the endpoint was closed.
ProcessDone ==
  LET d == Head(done)
      r == lut[d.td]
      e == reqEp[r]
      abort == d.failed /\ e \in halted
      last == Len(chain[e])
      undone == IF abort THEN {chain[e][i] : i \in 1..(last - 1)} ELSE {}
      first == IF d.failed \/ d.td \notin quiet THEN <<r>> ELSE <<>>
      aborted == IF abort THEN [i \in 1..(last - 1) |-> lut[chain[e][i]]] ELSE <<>>
      back == undone \cup {d.td}
  IN
  /\ done # <<>>
  /\ done' = Tail(done)
  /\ IF r = None
     THEN UNCHANGED <<freeTd, freeReq, list, waiting, chain, halted, lut, quiet, data, owner, cbList, cbEvent, log>>
     ELSE /\ halted' = IF abort THEN halted \ {e} ELSE halted
          /\ CheckTdQueue(QueueOf(e), freeTd \cup back, list,
                          IF abort THEN [chain EXCEPT ![e] = <<chain[e][last]>>] ELSE chain, halted',
                          [t \in Td |-> IF t \in back THEN None ELSE lut[t]], quiet \ back, data)
          /\ \E ends \in Uniques(first \o aborted) :
               IF e \in open
               THEN /\ Signal(ends)
                    /\ UNCHANGED <<freeReq, owner, log>>
               ELSE /\ freeReq' = freeReq \cup ToSet(ends)
                    /\ owner' = [s \in Req |-> IF s \in ToSet(ends) THEN None ELSE owner[s]]
                    /\ Ended({owner[s] : s \in ToSet(ends)})
                    /\ UNCHANGED <<cbList, cbEvent>>
  /\ UNCHANGED <<freeEp, open, type, retired, written, reqEp, cbPc, cbReq, cbXfer>>
-----------------------------------------------------------------------------
(* The callback thread                                                     *)

CbWake ==
  /\ cbPc = "wait" /\ cbEvent
  /\ cbEvent' = FALSE /\ cbPc' = "loop"
  /\ UNCHANGED <<pools, eps, hc, tds, reqs, cbList, cbReq, cbXfer, log>>

\* With interrupts suspended it takes the first request, and copies it.
CbTake ==
  /\ cbPc = "loop"
  /\ IF cbList = <<>>
     THEN cbPc' = "wait" /\ UNCHANGED <<cbList, cbReq, cbXfer>>
     ELSE /\ cbReq' = Head(cbList) /\ cbXfer' = owner[Head(cbList)]
          /\ cbList' = Tail(cbList) /\ cbPc' = "free"
  /\ UNCHANGED <<pools, eps, hc, tds, reqs, cbEvent, log>>

CbFree ==
  /\ cbPc = "free" /\ Unlocked
  /\ freeReq' = freeReq \cup {cbReq} /\ owner' = [owner EXCEPT ![cbReq] = None]
  /\ cbReq' = None /\ cbPc' = "call"
  /\ UNCHANGED <<freeTd, freeEp, eps, hc, tds, reqEp, data, cbList, cbEvent, cbXfer, log>>

\* The user is called, without the semaphore.
CbCall ==
  /\ cbPc = "call"
  /\ Ended({cbXfer})
  /\ cbXfer' = None /\ cbPc' = "loop"
  /\ UNCHANGED <<pools, eps, hc, tds, reqs, cbList, cbEvent, cbReq>>
-----------------------------------------------------------------------------
Next ==
  \/ \E e \in Ep, ty \in Types : OpenEndpoint(e, ty)
  \/ \E e \in Ep : RemoveEndpoint(e) \/ KillEndpoint(e)
  \/ \E e \in Ep, x \in Xfer, hasData \in BOOLEAN : UsbTransfer(e, x, hasData)
  \/ \E e \in Ep, failed \in BOOLEAN : HcRetire(e, failed)
  \/ HcWriteDone \/ TakeDone \/ ProcessDone
  \/ CbWake \/ CbTake \/ CbFree \/ CbCall

Spec == Init /\ [][Next]_vars

\* Devices answer, the controller and the threads go on.
Fairness ==
  /\ \A e \in Ep : WF_vars(\E failed \in BOOLEAN : HcRetire(e, failed)) /\ WF_vars(KillEndpoint(e))
  /\ WF_vars(HcWriteDone) /\ WF_vars(TakeDone) /\ WF_vars(ProcessDone)
  /\ WF_vars(CbWake) /\ WF_vars(CbTake) /\ WF_vars(CbFree) /\ WF_vars(CbCall)

FairSpec == Spec /\ Fairness
-----------------------------------------------------------------------------
(* Properties                                                              *)

DoneRec == [td : Td, failed : BOOLEAN]

\* The domains of the variables.
TypeOK ==
  /\ freeTd \subseteq Td /\ freeReq \subseteq Req /\ freeEp \subseteq Ep
  /\ open \subseteq Ep /\ type \in [Ep -> AllTypes]
  /\ list \in [Ep -> Seq(Req)] /\ waiting \in [Queues -> Seq(Ep)]
  /\ chain \in [Ep -> Seq(Td)] /\ halted \subseteq Ep
  /\ lut \in [Td -> Req \cup {None}] /\ quiet \subseteq Td
  /\ retired \in Seq(DoneRec) /\ written \in Seq(DoneRec) /\ done \in Seq(DoneRec)
  /\ reqEp \in [Req -> Ep] /\ data \subseteq Req /\ owner \in [Req -> Xfer \cup {None}]
  /\ cbList \in Seq(Req) /\ cbEvent \in BOOLEAN /\ cbPc \in {"wait", "loop", "free", "call"}
  /\ cbReq \in Req \cup {None} /\ cbXfer \in Xfer \cup {None}
  /\ sent \in [Ep -> SUBSET Xfer] /\ earlier \in [Xfer -> SUBSET Xfer]

\* TDs on their way back, oldest first.
Back == done \o written \o retired
BackTds == {Back[i].td : i \in DOMAIN Back}

\* A TD is in one place: free, or once in the list of one endpoint, or once on
\* its way back from the controller.  None is lost, none used twice, however
\* endpoints are closed and halted (mem.c allocTd, freeTd; "FreeTD: already free").
TdOneOwner ==
  /\ Td = freeTd \cup BackTds \cup UNION {ToSet(chain[e]) : e \in Ep}
  /\ freeTd \cap BackTds = {}
  /\ \A i, j \in DOMAIN Back : Back[i].td = Back[j].td => i = j
  /\ \A e \in Ep :
       /\ ToSet(chain[e]) \cap (freeTd \cup BackTds) = {}
       /\ \A i, j \in DOMAIN chain[e] : chain[e][i] = chain[e][j] => i = j
       /\ \A f \in Ep \ {e} : ToSet(chain[e]) \cap ToSet(chain[f]) = {}

\* Where a request can be: free, listed at its endpoint, with TDs under way,
\* to be called back, or in the callback thread.
Places ==
  [free |-> freeReq,
   listed |-> UNION {ToSet(list[e]) : e \in Ep},
   flying |-> {lut[t] : t \in Td} \ {None},
   back |-> ToSet(cbList),
   thread |-> {cbReq} \ {None}]

\* A request is in one place too, and there once.  In particular it is called
\* back after its last TD, and once.
ReqOneOwner ==
  /\ \A r \in Req : \E p \in DOMAIN Places :
       r \in Places[p] /\ \A q \in DOMAIN Places \ {p} : r \notin Places[q]
  /\ \A i, j \in DOMAIN cbList : cbList[i] = cbList[j] => i = j
  /\ \A e \in Ep :
       /\ \A i, j \in DOMAIN list[e] : list[e][i] = list[e][j] => i = j
       /\ \A i \in DOMAIN list[e] : reqEp[list[e][i]] = e

\* A transfer that was accepted and not called back has one request, or is
\* the one in the callback thread's copy: no callback is lost or goes to
\* another transfer, though requests are used again.
NoLostCallback ==
  LET Called(x) == cbPc = "call" /\ cbXfer = x IN
  /\ \A x \in Xfer : x \in Sent <=> Called(x) \/ \E r \in Req : owner[r] = x
  /\ \A r \in Req : owner[r] # None =>
       r \notin freeReq /\ ~Called(owner[r]) /\ \A s \in Req \ {r} : owner[s] # owner[r]

\* No TD, request or callback is lost or shared, whatever is done to the endpoints.
OneOwner == TdOneOwner /\ ReqOneOwner /\ NoLostCallback

\* Users of an endpoint are called back in the order of their transfers, also
\* when some failed, were aborted, or waited for a TD.
CallbackInOrder ==
  [][CbCall => cbXfer \in Sent /\ earlier[cbXfer] = {}]_vars

\* Where endpoints stay open and users have one transfer under way on each,
\* every transfer ends in a callback, though TDs may run out.
EveryTransferEnds == \A x \in Xfer : (x \in Sent) ~> (x \notin Sent)
=============================================================================
