--------------------------- MODULE CdvdNCmd_proofs ---------------------------
(* Theorems about CdvdNCmd, for every value of its constants.               *)
EXTENDS CdvdNCmd, TLAPS

-----------------------------------------------------------------------------
(* Types.  One lemma per part of TypeOK, one step per action.                *)

\* What a step assigns to a bit is a Boolean.
LEMMA BitsTyping == BitsOK /\ Next => BitsOK'
<1> SUFFICES ASSUME BitsOK, Next PROVE BitsOK'  OBVIOUS
<1> USE DEF BitsOK, shared, drive, hist
<1>1. ASSUME NEW t \in Threads, NEW c \in CallNames, Begin(t, c) PROVE BitsOK'
  BY <1>1, Zenon DEF Begin
<1>2. ASSUME NEW t \in Threads, TakeFio(t) PROVE BitsOK'
  BY <1>2, Zenon DEF TakeFio
<1>3. ASSUME NEW t \in Threads, Lock(t) PROVE BitsOK'
  BY <1>3, Zenon DEF Lock
<1>4. ASSUME NEW t \in Threads, SyncBefore(t) PROVE BitsOK'
  BY <1>4, Zenon DEF SyncBefore
<1>5. ASSUME NEW t \in Threads, SyncAfter(t) PROVE BitsOK'
  BY <1>5, Zenon DEF SyncAfter
<1>6. ASSUME NEW t \in Threads, CheckFlag(t) PROVE BitsOK'
  BY <1>6, Zenon DEF CheckFlag
<1>7. ASSUME NEW t \in Threads, Poll(t) PROVE BitsOK'
  BY <1>7, Zenon DEF Poll
<1>8. ASSUME NEW t \in Threads, Mark(t) PROVE BitsOK'
  BY <1>8, Zenon DEF Mark
<1>9. ASSUME NEW t \in Threads, Post(t) PROVE BitsOK'
  BY <1>9, Zenon DEF Post
<1>10. ASSUME NEW t \in Threads, Clear(t) PROVE BitsOK'
  BY <1>10, Zenon DEF Clear
<1>11. ASSUME NEW t \in Threads, Wake(t) PROVE BitsOK'
  BY <1>11, Zenon DEF Wake
<1>12. ASSUME NEW t \in Threads, Unlock(t) PROVE BitsOK'
  BY <1>12, Zenon DEF Unlock
<1>13. ASSUME NEW t \in Threads, Return(t) PROVE BitsOK'
  BY <1>13, Zenon DEF Return
<1>14. ASSUME NEW t \in Threads, Abort(t) PROVE BitsOK'
  BY <1>14, Zenon DEF Abort
<1>15. ASSUME NEW t \in Threads, SetCallback(t) PROVE BitsOK'
  BY <1>15, Zenon DEF SetCallback
<1>16. ASSUME NEW t \in Threads, Reset(t) PROVE BitsOK'
  BY <1>16, Zenon DEF Reset
<1>17. CASE AsyncWake
  BY <1>17, Zenon DEF AsyncWake
<1>18. CASE Dispatch
  BY <1>18, ZenonT(40) DEF Dispatch, StartRead, SeekTo, ChangeSpeed, NoCase
<1>19. CASE Finish
  BY <1>19, Zenon DEF Finish, ReportEnd
<1>20. CASE AsyncNop
  BY <1>20, Zenon DEF AsyncNop
<1>21. CASE UsbComplete
  BY <1>21, Zenon DEF UsbComplete
<1>22. CASE IntrQuiet
  BY <1>22, Zenon DEF IntrQuiet, ReportEnd
<1>23. CASE IntrBreak
  BY <1>23, Zenon DEF IntrBreak, ReportEnd
<1>24. ASSUME NEW c \in CbCalls, IntrSend(c) PROVE BitsOK'
  BY <1>24, Zenon DEF IntrSend
<1>25. QED
  BY <1>1, <1>2, <1>3, <1>4, <1>5, <1>6, <1>7, <1>8, <1>9, <1>10, <1>11, <1>12,
     <1>13, <1>14, <1>15, <1>16, <1>17, <1>18, <1>19, <1>20, <1>21, <1>22, <1>23, <1>24
     DEF Next, Semaphores, Waits, Computes, AsyncThread, Interrupt


\* What it assigns to another shared word, or to a variable of the drive, is in
\* the domain of that word.
LEMMA WordsTyping == WordsOK /\ ClientsOK /\ Next => WordsOK'
<1> SUFFICES ASSUME WordsOK, ClientsOK, Next PROVE WordsOK'  OBVIOUS
<1> USE ConstantsOK DEF WordsOK, Sides
<1>1. ASSUME NEW t \in Threads, NEW c \in CallNames, Begin(t, c) PROVE WordsOK'
  BY <1>1 DEF Begin, drive, hist
<1>2. ASSUME NEW t \in Threads, Semaphores(t) \/ Waits(t) PROVE WordsOK'
  BY <1>2 DEF Semaphores, Waits, TakeFio, Lock, SyncBefore, SyncAfter, shared, drive, hist
<1>3. ASSUME NEW t \in Threads, CheckFlag(t) \/ Poll(t) PROVE WordsOK'
  BY <1>3 DEF CheckFlag, Poll, shared, drive, hist
<1>4. ASSUME NEW t \in Threads, Mark(t) PROVE WordsOK'
  BY <1>4 DEF Mark, FuncOf, Funcs, drive
<1>5. ASSUME NEW t \in Threads, Post(t) PROVE WordsOK'
  <2>1. req[t].cmd \in Cmds  BY DEF ClientsOK
  <2>2. ncmd_buf' \in [ok : BOOLEAN, left : 0..MaxChunks]  BY <1>5 DEF Post
  <2>3. QED  BY <1>5, <2>1, <2>2 DEF Post, Senders, drive
<1>6. ASSUME NEW t \in Threads, Clear(t) PROVE WordsOK'
  BY <1>6 DEF Clear, drive, hist
<1>7. ASSUME NEW t \in Threads, Wake(t) PROVE WordsOK'
  BY <1>7 DEF Wake, shared, hist
<1>8. ASSUME NEW t \in Threads, Unlock(t) PROVE WordsOK'
  BY <1>8 DEF Unlock, Drive, drive, hist
<1>9. ASSUME NEW t \in Threads, Return(t) \/ SetCallback(t) PROVE WordsOK'
  BY <1>9 DEF Return, SetCallback, drive, hist
<1>10. ASSUME NEW t \in Threads, Abort(t) PROVE WordsOK'
  BY <1>10 DEF Abort, Cmds, drive, hist
<1>11. ASSUME NEW t \in Threads, Reset(t) PROVE WordsOK'
  BY <1>11 DEF Reset, Funcs, Cmds, Drive, drive
<1>12. CASE AsyncWake
  BY <1>12 DEF AsyncWake, shared, hist
<1>13. CASE Dispatch
  BY <1>13 DEF Dispatch, StartRead, SeekTo, ChangeSpeed, NoCase, Drive
<1>14. CASE Finish
  BY <1>14 DEF Finish, ReportEnd, hist
<1>15. CASE AsyncNop
  BY <1>15 DEF AsyncNop, Drive, Cmds
<1>16. CASE UsbComplete
  BY <1>16 DEF UsbComplete, NoTransfer
<1>17. CASE IntrQuiet \/ IntrBreak
  BY <1>17 DEF IntrQuiet, IntrBreak, ReportEnd, Funcs, Cmds
<1>18. ASSUME NEW c \in CbCalls, IntrSend(c) PROVE WordsOK'
  BY <1>18 DEF IntrSend, Funcs, Cmds, ReadCmds, MoveCmds, Senders
<1>19. QED
  BY <1>1, <1>2, <1>3, <1>4, <1>5, <1>6, <1>7, <1>8, <1>9, <1>10, <1>11, <1>12, <1>13,
     <1>14, <1>15, <1>16, <1>17, <1>18 DEF Next, Computes, AsyncThread, Interrupt

\* A client is at a step of its call.
LEMMA ClientsTyping == ClientsOK /\ Next => ClientsOK'
<1> SUFFICES ASSUME ClientsOK, Next PROVE ClientsOK'  OBVIOUS
<1> USE ConstantsOK DEF ClientsOK, Goto
<1>1. ASSUME NEW t \in Threads, NEW c \in CallNames, Begin(t, c) PROVE ClientsOK'
  <2>1. First(c) \in Steps  BY DEF First, Steps
  <2>2. CmdsOf(c) \subseteq Cmds  BY DEF CmdsOf, Cmds, ReadCmds, MoveCmds
  <2>3. PICK m \in CmdsOf(c), s \in 1..MaxSegs :
          req' = [req EXCEPT ![t] = [call |-> c, cmd |-> m, segs |-> s]]
    BY <1>1 DEF Begin
  <2>4. QED  BY <1>1, <2>1, <2>2, <2>3 DEF Begin
<1>2. ASSUME NEW t \in Threads, Semaphores(t) \/ Waits(t) PROVE ClientsOK'
  <2>1. CASE Semaphores(t) \/ SyncBefore(t)
    BY <2>1 DEF Semaphores, TakeFio, Lock, SyncBefore, Steps
  <2>2. CASE SyncAfter(t)
    <3>1. pc' \in [Threads -> Steps]  BY <2>2 DEF SyncAfter, Steps
    <3>2. CASE req[t].segs > 1
      <4>1. req[t].segs - 1 \in 0..MaxSegs  BY <3>2
      <4>2. QED  BY <2>2, <3>1, <3>2, <4>1 DEF SyncAfter
    <3>3. CASE ~(req[t].segs > 1)
      BY <2>2, <3>1, <3>3 DEF SyncAfter
    <3>4. QED  BY <3>2, <3>3
  <2>3. QED  BY <1>2, <2>1, <2>2 DEF Waits
<1>3. ASSUME NEW t \in Threads, CheckFlag(t) \/ Poll(t) \/ Return(t) PROVE ClientsOK'
  <2>1. NoCall \in [call : CallNames \cup {"none"}, cmd : Cmds, segs : 0..MaxSegs]
    BY DEF NoCall, Cmds
  <2>2. pc' \in [Threads -> Steps]  BY <1>3 DEF CheckFlag, Poll, Return, Steps
  <2>3. req' = req \/ req' = [req EXCEPT ![t] = NoCall]
    BY <1>3, Zenon DEF CheckFlag, Poll, Return
  <2>4. QED  BY <2>1, <2>2, <2>3
<1>4. ASSUME NEW t \in Threads, Mark(t) \/ Clear(t) \/ Wake(t) PROVE ClientsOK'
  BY <1>4 DEF Mark, Clear, Wake, Steps
<1>5. ASSUME NEW t \in Threads, Post(t) PROVE ClientsOK'
  <2>1. AfterPost(req[t].cmd) \in Steps  BY DEF AfterPost, Steps
  <2>2. QED  BY <1>5, <2>1 DEF Post
<1>6. ASSUME NEW t \in Threads, Unlock(t) PROVE ClientsOK'
  <2>1. AfterSend(req[t].call) \subseteq Steps  BY DEF AfterSend, Steps
  <2>2. QED  BY <1>6, <2>1 DEF Unlock
<1>7. ASSUME NEW t \in Threads, Abort(t) \/ SetCallback(t) \/ Reset(t) PROVE ClientsOK'
  BY <1>7 DEF Abort, SetCallback, Reset, Steps
<1>8. CASE AsyncThread \/ UsbComplete \/ Interrupt
  BY <1>8 DEF AsyncThread, AsyncWake, Dispatch, Finish, AsyncNop, UsbComplete,
              Interrupt, IntrQuiet, IntrSend, IntrBreak, hist
<1>9. QED
  BY <1>1, <1>2, <1>3, <1>4, <1>5, <1>6, <1>7, <1>8 DEF Next, Computes

\* The initial state has the types, and every step keeps them.
LEMMA InitTyping == Init => TypeOK
<1>1. Init => BitsOK  BY Zenon DEF Init, BitsOK
<1>2. Init => WordsOK
  BY ConstantsOK DEF Init, WordsOK, Funcs, Sides, Cmds, Drive, NoTransfer, Senders
<1>3. Init => ClientsOK  BY ConstantsOK DEF Init, ClientsOK, Cmds, Steps, NoCall
<1>4. QED  BY <1>1, <1>2, <1>3 DEF TypeOK

\* A step of the engine, or of its environment, keeps the types.
LEMMA StepTyping == TypeOK /\ [Next]_vars => TypeOK'
<1>1. TypeOK /\ Next => TypeOK'
  BY BitsTyping, WordsTyping, ClientsTyping DEF TypeOK
<1>2. TypeOK /\ UNCHANGED vars => TypeOK'
  <2>1. BitsOK /\ UNCHANGED vars => BitsOK'
    BY Zenon DEF BitsOK, vars, shared, drive, hist
  <2>2. WordsOK /\ UNCHANGED vars => WordsOK'
    BY DEF WordsOK, vars, shared, drive, hist
  <2>3. ClientsOK /\ UNCHANGED vars => ClientsOK'
    BY DEF ClientsOK, vars
  <2>4. QED  BY <2>1, <2>2, <2>3 DEF TypeOK
<1>3. QED  BY <1>1, <1>2

\* Every variable of the engine stays in its domain, whatever the threads, their
\* priorities, their calls and the callback are.
THEOREM Typing == Spec => []TypeOK
  BY InitTyping, StepTyping, PTL DEF Spec

-----------------------------------------------------------------------------
(* A busy drive has its completion on the way, provided that no client sends *)
(* a command that send_asynccmd() does not list: such a command leaves waf 0 *)
(* with nothing to put it back.  The invariant needs that the drive is never *)
(* asleep, or about to take a command, in the state "stop".                  *)

AllListed == \A t \in Threads : "Unlisted" \notin Calls[t]
NoneUnlisted == \A t \in Threads : req[t].cmd # "UNLISTED"

IInv == TypeOK /\ NoneUnlisted /\ StopIsTransient /\ CompletionPending

\* Only Begin and the end of a call change the command of a client.
LEMMA ListedStep ==
  ASSUME AllListed, ClientsOK, NoneUnlisted, Next
  PROVE  NoneUnlisted'
<1> USE DEF NoneUnlisted, ClientsOK
<1>1. ASSUME NEW t \in Threads, NEW c \in CallNames, Begin(t, c) PROVE NoneUnlisted'
  <2>1. c # "Unlisted"  BY <1>1 DEF Begin, AllListed
  <2>2. "UNLISTED" \notin CmdsOf(c)  BY <2>1 DEF CmdsOf, MoveCmds
  <2>3. PICK m \in CmdsOf(c), s \in 1..MaxSegs :
          req' = [req EXCEPT ![t] = [call |-> c, cmd |-> m, segs |-> s]]
    BY <1>1 DEF Begin
  <2>4. QED  BY <2>2, <2>3
<1>2. ASSUME NEW t \in Threads, SyncAfter(t) PROVE NoneUnlisted'
  BY <1>2 DEF SyncAfter
<1>3. ASSUME NEW t \in Threads, CheckFlag(t) \/ Poll(t) \/ Return(t) PROVE NoneUnlisted'
  <2>1. req' = req \/ req' = [req EXCEPT ![t] = NoCall]
    BY <1>3, Zenon DEF CheckFlag, Poll, Return
  <2>2. QED  BY <2>1 DEF NoCall
<1>4. CASE UNCHANGED req
  BY <1>4
<1>5. QED
  BY <1>1, <1>2, <1>3, <1>4
     DEF Next, Semaphores, Waits, Computes, TakeFio, Lock, SyncBefore, Mark, Post, Clear,
         Wake, Unlock, Abort, SetCallback, Reset, AsyncThread, AsyncWake, Dispatch, Finish,
         AsyncNop, UsbComplete, Interrupt, IntrQuiet, IntrSend, IntrBreak

\* The state "stop" is set by Dispatch only, on the way to async_nop:.
LEMMA StopStep == StopIsTransient /\ WordsOK /\ Next => StopIsTransient'
<1> SUFFICES ASSUME StopIsTransient, WordsOK, Next PROVE StopIsTransient'  OBVIOUS
<1> USE DEF StopIsTransient
<1>1. ASSUME NEW t \in Threads, Unlock(t) \/ Reset(t) PROVE StopIsTransient'
  BY <1>1 DEF Unlock, Reset, drive
<1>2. CASE AsyncWake
  BY <1>2 DEF AsyncWake, shared
<1>3. CASE Dispatch
  BY <1>3 DEF Dispatch, StartRead, SeekTo, ChangeSpeed, NoCase
<1>4. CASE Finish \/ AsyncNop \/ UsbComplete
  BY <1>4 DEF Finish, AsyncNop, UsbComplete
<1>5. CASE UNCHANGED <<apc, drivestate>>
  BY <1>5
<1>6. QED
  BY <1>1, <1>2, <1>3, <1>4, <1>5
     DEF Next, Begin, Semaphores, Waits, Computes, TakeFio, Lock, SyncBefore, SyncAfter,
         CheckFlag, Poll, Mark, Post, Clear, Wake, Return, Abort, SetCallback,
         AsyncThread, Interrupt, IntrQuiet, IntrSend, IntrBreak, shared, drive

\* A sender passes the duty to report on to the wakeup, the wakeup to the loop of
\* the drive, and the loop to the alarm.
LEMMA PendingStep ==
  ASSUME TypeOK, NoneUnlisted, StopIsTransient, CompletionPending, Next
  PROVE  CompletionPending'
<1> USE DEF CompletionPending
<1> DEFINE Sending == {"post", "clear", "wake"}
<1>1. ASSUME NEW t \in Threads, Mark(t) PROVE CompletionPending'
  BY <1>1 DEF Mark, Goto, TypeOK, ClientsOK
<1>2. ASSUME NEW t \in Threads, Post(t) PROVE CompletionPending'
  <2>1. AfterPost(req[t].cmd) \in Sending
    BY DEF AfterPost, NoneUnlisted
  <2>2. QED  BY <1>2, <2>1 DEF Post, Goto, TypeOK, ClientsOK
<1>3. ASSUME NEW t \in Threads, Clear(t) PROVE CompletionPending'
  BY <1>3 DEF Clear, Goto, TypeOK, ClientsOK
<1>4. ASSUME NEW t \in Threads, Wake(t) PROVE CompletionPending'
  BY <1>4 DEF Wake, TypeOK, WordsOK
<1>5. ASSUME NEW t \in Threads,
             \/ \E c \in CallNames : Begin(t, c)
             \/ Semaphores(t) \/ Waits(t) \/ CheckFlag(t) \/ Poll(t)
             \/ Unlock(t) \/ Return(t) \/ Abort(t) \/ SetCallback(t)
      PROVE CompletionPending'
  <2>1. /\ waf' = waf /\ wakeups' = wakeups /\ apc' = apc /\ alarm' = alarm
        /\ pc[t] \notin Sending
    BY <1>5 DEF Begin, Semaphores, TakeFio, Lock, Waits, SyncBefore, SyncAfter, CheckFlag,
                Poll, Unlock, Return, Abort, SetCallback, At, shared, drive
  <2>2. \E s : pc' = [pc EXCEPT ![t] = s]
    BY <1>5 DEF Begin, Semaphores, TakeFio, Lock, Waits, SyncBefore, SyncAfter, CheckFlag,
                Poll, Unlock, Return, Abort, SetCallback, Goto
  <2>3. QED  BY <2>1, <2>2 DEF TypeOK, ClientsOK
<1>6. ASSUME NEW t \in Threads, Reset(t) PROVE CompletionPending'
  BY <1>6 DEF Reset
<1>7. CASE AsyncWake
  BY <1>7 DEF AsyncWake
<1>8. CASE Dispatch
  BY <1>8 DEF Dispatch, StartRead, SeekTo, ChangeSpeed, NoCase, StopIsTransient
<1>9. CASE UsbComplete
  BY <1>9 DEF UsbComplete
<1>10. CASE Finish
  BY <1>10 DEF Finish, ReportEnd
<1>11. CASE AsyncNop
  BY <1>11 DEF AsyncNop
<1>12. CASE IntrQuiet \/ IntrBreak
  BY <1>12 DEF IntrQuiet, IntrBreak, ReportEnd
<1>13. ASSUME NEW c \in CbCalls, IntrSend(c) PROVE CompletionPending'
  BY <1>13 DEF IntrSend, TypeOK, WordsOK
<1>14. QED
  BY <1>1, <1>2, <1>3, <1>4, <1>5, <1>6, <1>7, <1>8, <1>9, <1>10, <1>11, <1>12, <1>13
     DEF Next, Computes, AsyncThread, Interrupt

\* If every command a client sends is listed in send_asynccmd(), a drive that
\* reports itself busy always has its completion on the way, for every mix of
\* threads, priorities, calls and callbacks, and however early the alarm fires.
THEOREM BusyDriveCompletes == ASSUME AllListed PROVE Spec => []CompletionPending
<1>1. Init => IInv
  <2>1. Init => TypeOK  BY InitTyping
  <2>2. Init => NoneUnlisted
    <3>1. NoCall.cmd # "UNLISTED"  BY DEF NoCall
    <3>2. QED  BY <3>1 DEF Init, NoneUnlisted
  <2>3. Init => StopIsTransient /\ CompletionPending
    BY DEF Init, StopIsTransient, CompletionPending
  <2>4. QED  BY <2>1, <2>2, <2>3 DEF IInv
<1>2. IInv /\ [Next]_vars => IInv'
  <2>1. IInv /\ Next => IInv'
    BY AllListed, StepTyping, ListedStep, StopStep, PendingStep DEF IInv, TypeOK
  <2>2. IInv /\ UNCHANGED vars => IInv'
    <3>1. TypeOK /\ UNCHANGED vars => TypeOK'  BY StepTyping
    <3>2. (NoneUnlisted /\ StopIsTransient /\ UNCHANGED vars)
            => (NoneUnlisted /\ StopIsTransient)'
      BY DEF NoneUnlisted, StopIsTransient, vars, shared, drive
    <3>3. CompletionPending /\ UNCHANGED vars => CompletionPending'
      BY DEF CompletionPending, vars, shared, drive
    <3>4. QED  BY <3>1, <3>2, <3>3 DEF IInv
  <2>3. QED  BY <2>1, <2>2
<1>3. IInv => CompletionPending  BY DEF IInv
<1>4. QED  BY <1>1, <1>2, <1>3, PTL DEF Spec
-----------------------------------------------------------------------------
(* Two kinds of clients keep the protocol of the emulated drive, which        *)
(* send_asynccmd() itself does not enforce.  Threads that only read files,   *)
(* break, poll or wait, and register callbacks are kept apart by             *)
(* cdvdman_fio_sema.  A game with one thread that polls the drive before it  *)
(* sends a command keeps it with every call there is, and with a callback    *)
(* that sends commands itself.                                               *)

-----------------------------------------------------------------------------
(* Threads that read files.                                                  *)

FileClients == \A t \in Threads : Calls[t] \subseteq {"FileRead", "Break", "Sync", "SetCb"}

InRead   == {"sync", "lock", "mark", "post", "clear", "wake", "unlock", "wait", "ret"}
Storing  == {"post", "clear", "wake"}

\* The thread is in cdrom_read, past WaitSema(cdvdman_fio_sema).
Holds(t) == req[t].call = "FileRead" /\ pc[t] # "fio"

\* Where a thread can be, by the call it has made.
Shape(t) ==
  \/ req[t].call = "none" /\ pc[t] = "idle"
  \/ req[t].call = "FileRead" /\ req[t].cmd = "READ" /\ pc[t] \in InRead \cup {"fio"}
  \/ req[t].call = "Break" /\ req[t].segs = 1 /\ pc[t] \in {"lock", "abort", "unlock", "wait", "ret"}
  \/ req[t].call = "SetCb" /\ req[t].segs = 1 /\ pc[t] \in {"poll", "lock", "setcb", "unlock", "ret"}
  \/ req[t].call = "Sync" /\ req[t].segs = 1 /\ pc[t] \in {"wait", "ret"}
Shapes == \A t \in Threads : Shape(t)

\* The drive reports without the alarm, and is given nothing but reads.
DriveReads == /\ cmdfunc = "none" /\ ~alarm /\ drivestate # "stop"
              /\ asyncCmd \in {"NOP", "READ", "ABORT"}

\* cdvdman_fio_sema: one thread at a time is in cdrom_read.
OneReader == /\ \A t \in Threads : Holds(t) => ~fio_sema
             /\ \A t, u \in Threads : Holds(t) /\ Holds(u) => t = u

\* A free drive has nothing to do, and still is when the reader stores its command.
FreeIsIdle == waf => apc \in {"sleep", "nop"} /\ wakeups = 0 /\ posted = {}
ReaderSawFree == \A t \in Threads : Holds(t) /\ pc[t] \in {"lock", "mark"} => waf
StoringAlone ==
  \A t \in Threads : pc[t] \in Storing =>
     /\ ~waf /\ apc = "sleep" /\ wakeups = 0
     /\ IF pc[t] = "post" THEN posted = {} ELSE posted = {t} /\ poster = t

\* The command on its way: queued at the drive, then taken from the queue, then run.
OneCommand ==
  /\ wakeups > 0 => wakeups = 1 /\ apc = "sleep" /\ posted = {poster}
  /\ apc = "top" => posted = {poster}
  /\ apc \in {"usb", "fin", "nop"} => posted = {}

Protocol == /\ Shapes /\ DriveReads /\ OneReader
            /\ FreeIsIdle /\ ReaderSawFree /\ StoringAlone /\ OneCommand

\* A client that begins a call is nowhere near the drive.
LEMMA FilesBegin ==
  ASSUME FileClients, ClientsOK, Protocol, NEW t \in Threads, NEW c \in CallNames, Begin(t, c)
  PROVE  Protocol'
<1>1. c \in {"FileRead", "Break", "Sync", "SetCb"}  BY DEF Begin, FileClients
<1>2. PICK m \in CmdsOf(c), s \in 1..MaxSegs :
        /\ c # "FileRead" => s = 1
        /\ req' = [req EXCEPT ![t] = [call |-> c, cmd |-> m, segs |-> s]]
  BY DEF Begin
<1>3. c = "FileRead" => m = "READ"  BY DEF CmdsOf
<1>4. pc' = [pc EXCEPT ![t] = First(c)]  BY DEF Begin, Goto
<1>5. First(c) = CASE c = "FileRead" -> "fio" [] c = "SetCb" -> "poll"
                   [] c = "Sync" -> "wait" [] OTHER -> "lock"
  BY <1>1 DEF First
<1>6. pc[t] = "idle" /\ UNCHANGED <<fio_sema, waf, cmdfunc, asyncCmd, drivestate, drive, hist>>
  BY DEF Begin, At
<1>7. Shapes'  BY <1>1, <1>2, <1>3, <1>4, <1>5, <1>6 DEF Protocol, Shapes, Shape, ClientsOK
<1>8. QED
  BY <1>1, <1>2, <1>4, <1>5, <1>6, <1>7
     DEF Protocol, DriveReads, OneReader, Holds, FreeIsIdle, ReaderSawFree, StoringAlone,
         Storing, OneCommand, ClientsOK, Shapes, Shape, drive, hist

\* The steps of a call: the reader alone clears waf and stores a command.
LEMMA FilesCall ==
  ASSUME ClientsOK, Protocol, NEW t \in Threads,
         Semaphores(t) \/ Waits(t) \/ Computes(t)
  PROVE  Protocol'
<1> USE DEF Protocol, Shapes, Shape, DriveReads, OneReader, Holds, InRead, Storing,
        FreeIsIdle, ReaderSawFree, StoringAlone, OneCommand, ClientsOK
<1>1. CASE TakeFio(t)
  BY <1>1 DEF TakeFio, At, Goto, shared, drive, hist
<1>2. CASE SyncBefore(t)
  BY <1>2 DEF SyncBefore, At, Goto, shared, drive, hist
<1>3. CASE SyncAfter(t)
  BY <1>3, SMTT(30) DEF SyncAfter, At, Goto, shared, drive, hist
<1>4. CASE Lock(t)
  BY <1>4 DEF Lock, At, Goto, shared, drive, hist
<1>5. CASE CheckFlag(t)
  BY <1>5 DEF CheckFlag, At, Goto, shared, drive, hist, NoCall
<1>6. CASE Poll(t)
  <2>1. /\ pc[t] = "poll" /\ UNCHANGED <<shared, drive, hist>>
        /\ \/ pc' = [pc EXCEPT ![t] = "lock"] /\ req' = req
           \/ pc' = [pc EXCEPT ![t] = "idle"] /\ req' = [req EXCEPT ![t] = NoCall]
    BY <1>6, Zenon DEF Poll, At, Goto
  <2>2. req[t].call = "SetCb"  BY <2>1
  <2>3. QED  BY <2>1, <2>2, SMTT(30) DEF shared, drive, hist, NoCall
<1>7. CASE Mark(t)
  BY <1>7 DEF Mark, At, Goto, shared, drive, hist, FuncOf, CanRun, AsyncReady
<1>8. CASE Post(t)
  BY <1>8 DEF Post, At, Goto, shared, drive, hist, AfterPost, ReadCmds
<1>9. CASE Clear(t)
  BY <1>9 DEF Clear, At, Goto, shared, drive, hist
<1>10. CASE Wake(t)
  BY <1>10 DEF Wake, At, Goto, shared, drive, hist
<1>11. CASE Unlock(t)
  BY <1>11 DEF Unlock, At, Goto, shared, drive, hist, AfterSend
<1>12. CASE Return(t)
  <2>1. CASE req[t].call = "FileRead"
    <3>1. fio_sema'  BY <1>12, <2>1, Zenon DEF Return
    <3>2. \A u \in Threads \ {t} : ~Holds(u)  BY <1>12, <2>1 DEF Return, At
    <3>3. QED  BY <1>12, <2>1, <3>1, <3>2 DEF Return, At, Goto, drive, hist, NoCall
  <2>2. CASE req[t].call # "FileRead"
    <3>1. fio_sema' <=> fio_sema  BY <1>12, <2>2, Zenon DEF Return
    <3>2. QED  BY <1>12, <2>2, <3>1 DEF Return, At, Goto, drive, hist, NoCall
  <2>3. QED  BY <2>1, <2>2
<1>13. CASE Abort(t)
  BY <1>13 DEF Abort, At, Goto, shared, drive, hist
<1>14. CASE SetCallback(t)
  BY <1>14 DEF SetCallback, At, Goto, shared, drive, hist
<1>15. CASE Reset(t)
  BY <1>15 DEF Reset, At, Goto, shared, drive, hist
<1>16. QED
  BY <1>1, <1>2, <1>3, <1>4, <1>5, <1>6, <1>7, <1>8, <1>9, <1>10, <1>11, <1>12, <1>13,
     <1>14, <1>15 DEF Semaphores, Waits, Computes

\* The steps of the drive: it runs a command only while nobody stores one.
LEMMA FilesDrive ==
  ASSUME TypeOK, Protocol, AsyncThread \/ UsbComplete \/ Interrupt
  PROVE  Protocol'
<1> USE DEF TypeOK, WordsOK, Protocol, Shapes, Shape, DriveReads, OneReader, Holds, InRead, Storing,
        FreeIsIdle, ReaderSawFree, StoringAlone, OneCommand
<1>1. CASE AsyncWake
  BY <1>1 DEF AsyncWake, shared, hist
<1>2. CASE Dispatch
  BY <1>2 DEF Dispatch, StartRead, SeekTo, ChangeSpeed, NoCase
<1>3. CASE Finish
  BY <1>3 DEF Finish, Reports, ReportEnd, hist
<1>4. CASE AsyncNop
  BY <1>4 DEF AsyncNop
<1>5. CASE UsbComplete
  BY <1>5 DEF UsbComplete
<1>6. CASE Interrupt
  BY <1>6 DEF Interrupt, IntrQuiet, IntrSend, IntrBreak, AlarmFires
<1>7. QED  BY <1>1, <1>2, <1>3, <1>4, <1>5, <1>6 DEF AsyncThread

\* The protocol holds initially, and every step keeps it.
LEMMA FilesInit == Init => Protocol
  BY DEF Init, Protocol, Shapes, Shape, DriveReads, OneReader, Holds, FreeIsIdle,
         ReaderSawFree, StoringAlone, Storing, OneCommand, NoCall

\* Nothing but the steps of the clients and of the drive touches it.
LEMMA FilesStep ==
  ASSUME FileClients
  PROVE  TypeOK /\ Protocol /\ [Next]_vars => Protocol'
<1> SUFFICES ASSUME TypeOK, Protocol, [Next]_vars PROVE Protocol'  OBVIOUS
<1>1. CASE Next
  BY <1>1, FileClients, FilesBegin, FilesCall, FilesDrive DEF Next, TypeOK
<1>2. CASE UNCHANGED vars
  <2> USE <1>2 DEF vars, shared, drive, hist
  <2>1. Shapes' /\ DriveReads' /\ OneReader'
    BY DEF Protocol, Shapes, Shape, DriveReads, OneReader, Holds
  <2>2. FreeIsIdle' /\ ReaderSawFree' /\ StoringAlone' /\ OneCommand'
    BY DEF Protocol, FreeIsIdle, ReaderSawFree, Holds, StoringAlone, Storing, OneCommand
  <2>3. QED  BY <2>1, <2>2 DEF Protocol
<1>3. QED  BY <1>1, <1>2

\* When clients only read files (cdrom_read), break, wait and register callbacks,
\* a drive that reports itself free has carried out every command it was handed:
\* cdrom_read's buffer is complete when its sceCdSync() returns.
THEOREM FilesServed == ASSUME FileClients PROVE Spec => []ReportedMeansServed
<1>1. Init => TypeOK /\ Protocol  BY InitTyping, FilesInit
<1>2. TypeOK /\ Protocol /\ [Next]_vars => (TypeOK /\ Protocol)'
  BY FileClients, StepTyping, FilesStep
<1>3. Protocol => ReportedMeansServed
  BY DEF Protocol, FreeIsIdle, ReportedMeansServed
<1>4. QED  BY <1>1, <1>2, <1>3, PTL DEF Spec

\* Under the same clients, send_asynccmd() never stores a command over one that
\* the drive has not finished, although it does not test whether there is one.
THEOREM FilesNoOverwrite == ASSUME FileClients PROVE Spec => NoOverwrite
<1> DEFINE Done == /\ \A t \in Threads : pc[t] \in {"post", "reset"} /\ pc'[t] # pc[t]
                                        => apc = "sleep" /\ wakeups = 0
                   /\ (\E c \in CbCalls : IntrSend(c)) => apc = "sleep" /\ wakeups = 0
<1>1. Init => TypeOK /\ Protocol  BY InitTyping, FilesInit
<1>2. TypeOK /\ Protocol /\ [Next]_vars => (TypeOK /\ Protocol)'
  BY FileClients, StepTyping, FilesStep
<1>3. Protocol => Done
  <2>1. Protocol => ~\E c \in CbCalls : IntrSend(c)
    BY DEF Protocol, DriveReads, IntrSend, AlarmFires
  <2>2. Protocol => \A t \in Threads : pc[t] \in {"post", "reset"} => apc = "sleep" /\ wakeups = 0
    BY DEF Protocol, StoringAlone, Storing, Shapes, Shape, InRead
  <2>3. QED  BY <2>1, <2>2
<1>4. TypeOK /\ Protocol /\ [Next]_vars => [Done]_vars
  BY <1>3
<1>5. QED  BY <1>1, <1>2, <1>4, PTL DEF Spec, NoOverwrite

\* An error outlives the command: ABORT is stored with it, and async_read() puts
\* it back only when it starts on a command that it accepts.
AbortTold == asyncCmd = "ABORT" => cderror = "ABRT" \/ \E t \in Threads : pc[t] = "post"
Told == /\ ~owed /\ AbortTold
        /\ waf \/ apc \in {"fin", "nop"} => (failed => cderror # "NO")
        /\ \/ apc = "top" \/ wakeups > 0
           \/ \E t \in Threads : pc[t] \in {"clear", "wake"}
           => asyncCmd \in {"READ", "ABORT"}

\* The steps of a call.  The drive sleeps while a thread stores its command, so
\* a break does not come between that and the start of the command.
LEMMA ToldCall ==
  ASSUME ClientsOK, Protocol, Told, NEW t \in Threads,
         \/ \E c \in CallNames : Begin(t, c)
         \/ Semaphores(t) \/ Waits(t) \/ Computes(t)
  PROVE  Told'
<1> USE DEF Told, AbortTold
<1>1. CASE Mark(t)
  <2>1. req[t].call = "FileRead" /\ req[t].cmd = "READ"
    BY <1>1 DEF Mark, At, Protocol, Shapes, Shape
  <2>2. FuncOf(req[t]) = "none"  BY <2>1 DEF FuncOf
  <2>3. ~owed'  BY <1>1, <2>2, Zenon DEF Mark
  <2>4. waf /\ apc \in {"sleep", "nop"} /\ wakeups = 0 /\ ~AsyncReady
    BY <1>1, <2>1 DEF Mark, At, CanRun, Protocol, ReaderSawFree, Holds, FreeIsIdle
  <2>5. pc' = [pc EXCEPT ![t] = "post"] /\ ~waf'  BY <1>1, Zenon DEF Mark, Goto
  <2>6. pc[t] = "mark" /\ UNCHANGED <<asyncCmd, apc, wakeups>>  BY <1>1 DEF Mark, At, drive
  <2>7. QED  BY <2>3, <2>4, <2>5, <2>6 DEF ClientsOK, AsyncReady
<1>2. CASE Post(t)
  <2>1. req[t].cmd = "READ" /\ AfterPost(req[t].cmd) = "clear"
    BY <1>2 DEF Post, At, Protocol, Shapes, Shape, AfterPost, ReadCmds
  <2>2. QED
    BY <1>2, <2>1 DEF Post, At, Goto, drive, ClientsOK, Protocol, StoringAlone, Storing
<1>3. CASE Clear(t)
  BY <1>3 DEF Clear, At, Goto, drive, hist, ClientsOK
<1>4. CASE Wake(t)
  BY <1>4 DEF Wake, At, Goto, shared, hist, ClientsOK
<1>5. CASE Abort(t)
  BY <1>5 DEF Abort, At, Goto, drive, hist, ClientsOK
<1>6. CASE Reset(t)
  BY <1>6 DEF Reset, At, Protocol, Shapes, Shape, InRead
<1>7. ASSUME \/ \E c \in CallNames : Begin(t, c)
             \/ Semaphores(t) \/ Waits(t) \/ CheckFlag(t) \/ Poll(t)
             \/ Unlock(t) \/ Return(t) \/ SetCallback(t)
      PROVE  Told'
  <2>1. /\ UNCHANGED <<waf, cderror, asyncCmd, apc, wakeups, failed, owed>>
        /\ pc[t] \notin Storing
    BY <1>7 DEF Begin, Semaphores, TakeFio, Lock, Waits, SyncBefore, SyncAfter, CheckFlag,
                Poll, Unlock, Return, SetCallback, At, shared, drive, hist, Storing
  <2>2. \E s : s \notin Storing /\ pc' = [pc EXCEPT ![t] = s]
    BY <1>7 DEF Begin, First, Semaphores, TakeFio, Lock, Waits, SyncBefore, SyncAfter,
                CheckFlag, Poll, Unlock, AfterSend, Return, SetCallback, Goto, Storing
  <2>3. \A u \in Threads : pc'[u] \in Storing \/ pc[u] \in Storing => pc'[u] = pc[u]
    BY <2>1, <2>2 DEF ClientsOK
  <2>4. QED  BY <2>1, <2>3 DEF Storing
<1>8. QED
  BY <1>1, <1>2, <1>3, <1>4, <1>5, <1>6, <1>7 DEF Computes

\* The steps of the drive: it puts the error back only for a command it accepts.
LEMMA ToldDrive ==
  ASSUME TypeOK, Protocol, Told, AsyncThread \/ UsbComplete \/ Interrupt
  PROVE  Told'
<1> USE DEF Told, AbortTold
<1>1. CASE AsyncWake
  BY <1>1 DEF AsyncWake, shared, hist
<1>2. CASE Dispatch
  <2>1. drivestate # "stop" /\ ~waf
    BY <1>2 DEF Dispatch, Protocol, DriveReads, FreeIsIdle
  <2>2. \A t \in Threads : pc[t] \notin Storing
    BY <1>2 DEF Dispatch, Protocol, StoringAlone
  <2>3. asyncCmd \in {"READ", "ABORT"}  BY <1>2 DEF Dispatch
  <2>4. QED
    BY <1>2, <2>1, <2>2, <2>3
       DEF Dispatch, StartRead, SeekTo, ChangeSpeed, NoCase, ReadCmds, Storing, TypeOK, BitsOK
<1>3. CASE Finish
  BY <1>3 DEF Finish, Reports, ReportEnd, hist
<1>4. CASE AsyncNop
  BY <1>4 DEF AsyncNop, Protocol, OneCommand, StoringAlone, Storing
<1>5. CASE UsbComplete
  BY <1>5 DEF UsbComplete, Protocol, FreeIsIdle
<1>6. CASE Interrupt
  BY <1>6 DEF Interrupt, IntrQuiet, IntrSend, IntrBreak, AlarmFires, Protocol, DriveReads
<1>7. QED  BY <1>1, <1>2, <1>3, <1>4, <1>5, <1>6 DEF AsyncThread

\* Under the same clients, the end of a read is always told: once the drive reports
\* itself free, sceCdGetError() still tells of a read that was refused or aborted,
\* whichever thread broke it off, and the callback is owed nothing.
THEOREM FilesEndReported == ASSUME FileClients PROVE Spec => []EndIsReported
<1>1. Init => TypeOK /\ Protocol /\ Told
  <2>1. Init => Told  BY DEF Init, Told, AbortTold
  <2>2. QED  BY <2>1, InitTyping, FilesInit
<1>2. TypeOK /\ Protocol /\ Told /\ [Next]_vars => (TypeOK /\ Protocol /\ Told)'
  <2>1. TypeOK /\ Protocol /\ Told /\ Next => Told'
    BY ToldCall, ToldDrive DEF Next, TypeOK
  <2>2. Told /\ UNCHANGED vars => Told'
    BY DEF Told, AbortTold, vars, shared, drive, hist
  <2>3. QED  BY <2>1, <2>2, FileClients, StepTyping, FilesStep
<1>3. Told => EndIsReported
  BY DEF Told, EndIsReported
<1>4. QED  BY <1>1, <1>2, <1>3, PTL DEF Spec

-----------------------------------------------------------------------------
(* A game with one thread that looks at the drive before it sends a command. *)

OneGame == /\ \A t, u \in Threads : t = u
           /\ AllListed /\ Polite /\ ~PromptAlarm

SendsRead == {"lock", "mark", "post", "clear", "wake", "unlock", "ret"}
Sends     == SendsRead \ {"clear"}

\* Where the thread can be, by the call it has made.
GameShape(t) ==
  \/ req[t].call = "none" /\ pc[t] = "idle"
  \/ req[t].call = "FileRead" /\ req[t].cmd = "READ" /\ pc[t] \in SendsRead \cup {"fio", "sync", "wait"}
  \/ req[t].call = "Read" /\ req[t].cmd = "READ" /\ pc[t] \in SendsRead \cup {"sync", "check"}
  \/ req[t].call = "ReadEE" /\ req[t].cmd = "READEE" /\ pc[t] \in SendsRead \cup {"wait"}
  \/ req[t].call = "Move" /\ req[t].cmd \in MoveCmds /\ pc[t] \in Sends \cup {"wait"}
  \/ req[t].call = "Break" /\ pc[t] \in {"lock", "abort", "unlock", "wait", "ret"}
  \/ req[t].call = "SetCb" /\ pc[t] \in {"poll", "lock", "setcb", "unlock", "ret"}
  \/ req[t].call = "Init" /\ pc[t] \in {"sync", "lock", "reset", "unlock", "ret"}
  \/ req[t].call = "Sync" /\ pc[t] \in {"wait", "ret"}
GameShapes == \A t \in Threads : /\ GameShape(t)
                                 /\ req[t].segs > 1 => req[t].call = "FileRead"

\* What the thread saw of the drive still holds when it acts on it: nothing that
\* could change it is left once the drive has reported itself free.
SawFree == \A t \in Threads :
             \/ pc[t] \in {"check", "mark", "setcb", "reset"}
             \/ pc[t] = "lock" /\ req[t].call # "Break"
             => waf

\* A free drive has nothing to do and nothing to tell.
FreeIsDone == waf => /\ apc \in {"sleep", "nop"} /\ wakeups = 0 /\ ~alarm
                     /\ posted = {} /\ ~owed

\* While a command is stored, the drive sleeps and no alarm is armed.
StoresAlone ==
  \A t \in Threads : pc[t] \in Storing =>
     /\ ~waf /\ ~alarm /\ apc = "sleep" /\ wakeups = 0
     /\ pc[t] = "post" => posted = {} /\ rd_buf = "iop"
     /\ pc[t] # "post" => /\ posted = {t} /\ poster = t /\ asyncCmd = req[t].cmd
                          /\ flags = rd_buf

\* The command on its way: queued at the drive, taken, run, and reported by the alarm.
Queued == wakeups > 0 \/ apc = "top"
OnItsWay ==
  /\ Queued => /\ posted = {poster} /\ asyncCmd \in ReadCmds \cup MoveCmds
               /\ flags = rd_buf
  /\ wakeups > 0 => wakeups = 1 /\ apc = "sleep"
  /\ Queued \/ apc \in {"usb", "fin"} => ~waf /\ ~alarm
  /\ apc \in {"usb", "fin", "nop"} \/ alarm => posted = {}
  /\ apc \in {"sleep", "top"} => drivestate # "stop"
  /\ alarm => apc \in {"sleep", "nop"} /\ ~waf

\* A callback that is owed is still registered, with the function id it was sent with.
OwedReports == owed => cmdfunc # "none" /\ user_cb

\* The error of a command that was refused or aborted stays until the next one.
ErrorStays == /\ AbortTold
              /\ waf \/ alarm \/ apc \in {"fin", "nop"} => (failed => cderror # "NO")

\* The flags that async_read() looks at after a transfer are those of its command.
Placed == ~misplaced /\ (apc = "usb" => flags = cur.dest)

GameProtocol == /\ GameShapes /\ SawFree /\ FreeIsDone /\ StoresAlone /\ OnItsWay
                /\ OwedReports /\ ErrorStays /\ Placed

\* A thread between two calls begins one: it is nowhere near the drive, or has just
\* looked at it (Polite).
LEMMA GameBegin ==
  ASSUME OneGame, ClientsOK, GameProtocol, NEW t \in Threads, NEW c \in CallNames, Begin(t, c)
  PROVE  GameProtocol'
<1>1. /\ c # "Unlisted" /\ (c \in {"ReadEE", "Move"} => waf)
      /\ \A u \in Threads : u = t
  BY DEF Begin, OneGame, AllListed, Unsynced
<1>2. PICK m \in CmdsOf(c), s \in 1..MaxSegs :
        /\ c # "FileRead" => s = 1
        /\ req' = [req EXCEPT ![t] = [call |-> c, cmd |-> m, segs |-> s]]
  BY DEF Begin
<1>3. /\ c \in {"FileRead", "Read"} => m = "READ"
      /\ c = "ReadEE" => m = "READEE"
      /\ c = "Move" => m \in MoveCmds
  BY DEF CmdsOf
<1>4. /\ c = "FileRead" => First(c) = "fio"
      /\ c \in {"Read", "Init"} => First(c) = "sync"
      /\ c \in {"ReadEE", "Move", "Break"} => First(c) = "lock"
      /\ c = "SetCb" => First(c) = "poll"
      /\ c = "Sync" => First(c) = "wait"
  BY DEF First
<1>5. pc[t] = "idle" /\ pc' = [pc EXCEPT ![t] = First(c)]  BY DEF Begin, At, Goto
<1>6. UNCHANGED <<waf, intr_ef, cmdfunc, user_cb, cderror, rd_buf, asyncCmd, flags,
                  drivestate, drive, hist>>
  BY DEF Begin
<1>7. GameShapes' /\ SawFree'
  BY <1>1, <1>2, <1>3, <1>4, <1>5, <1>6
     DEF CallNames, GameShapes, GameShape, SawFree, SendsRead, Sends, ClientsOK
<1>8. StoresAlone' /\ AbortTold'
  BY <1>1, <1>4, <1>5, <1>6
     DEF CallNames, GameProtocol, StoresAlone, Storing, ErrorStays, AbortTold, ClientsOK
<1>9. QED
  BY <1>6, <1>7, <1>8
     DEF GameProtocol, FreeIsDone, OnItsWay, Queued, OwedReports, ErrorStays, Placed, drive, hist

\* The steps of a call.
LEMMA GameCall ==
  ASSUME OneGame, ClientsOK, BitsOK, GameProtocol, NEW t \in Threads,
         Semaphores(t) \/ Waits(t) \/ Computes(t)
  PROVE  GameProtocol'
<1>1. \A u \in Threads : u = t  BY DEF OneGame
<1> USE <1>1 DEF ClientsOK, GameProtocol, GameShapes, GameShape, SendsRead, Sends, SawFree,
        FreeIsDone, StoresAlone, Storing, OnItsWay, Queued, OwedReports, ErrorStays,
        AbortTold, Placed
<1>2. CASE TakeFio(t)
  BY <1>2 DEF TakeFio, At, Goto, drive, hist
<1>3. CASE SyncBefore(t)
  BY <1>3 DEF SyncBefore, At, Goto, shared, drive, hist
<1>4. CASE SyncAfter(t)
  BY <1>4 DEF SyncAfter, At, Goto, shared, drive, hist
<1>5. CASE Lock(t)
  BY <1>5 DEF Lock, At, Goto, drive, hist
<1>6. CASE CheckFlag(t)
  BY <1>6 DEF CheckFlag, At, Goto, shared, drive, hist, NoCall
<1>7. CASE Poll(t)
  <2>1. /\ pc[t] = "poll" /\ UNCHANGED <<shared, drive, hist>>
        /\ \/ waf /\ pc' = [pc EXCEPT ![t] = "lock"] /\ req' = req
           \/ pc' = [pc EXCEPT ![t] = "idle"] /\ req' = [req EXCEPT ![t] = NoCall]
    BY <1>7, Zenon DEF Poll, At, Goto
  <2>2. QED  BY <2>1 DEF shared, drive, hist, NoCall
<1>8. CASE Mark(t)
  <2>1. /\ pc[t] = "mark" /\ waf /\ ~AsyncReady /\ ~owed
        /\ pc' = [pc EXCEPT ![t] = "post"] /\ ~waf' /\ rd_buf' = "iop" /\ cderror' = "NO"
        /\ UNCHANGED <<asyncCmd, flags, drivestate, drive, req, poster, posted, failed, misplaced>>
    BY <1>8 DEF Mark, At, Goto, CanRun
  <2>2. owed' => cmdfunc' # "none" /\ user_cb'
    BY <1>8, <2>1, Zenon DEF Mark
  <2>3. QED  BY <2>1, <2>2 DEF drive, AsyncReady
<1>9. CASE Post(t)
  <2>1. req[t].cmd \in ReadCmds \cup MoveCmds
    BY <1>9 DEF Post, At, ReadCmds
  <2>2. /\ req[t].cmd \in ReadCmds => AfterPost(req[t].cmd) = "clear"
        /\ req[t].cmd \in MoveCmds => AfterPost(req[t].cmd) = "wake"
    BY DEF AfterPost, ReadCmds, MoveCmds
  <2>3. QED
    BY <1>9, <2>1, <2>2 DEF Post, At, Goto, drive, ReadCmds, MoveCmds
<1>10. CASE Clear(t)
  BY <1>10 DEF Clear, At, Goto, drive, hist
<1>11. CASE Wake(t)
  BY <1>11 DEF Wake, At, Goto, shared, hist, ReadCmds, MoveCmds
<1>12. CASE Unlock(t)
  BY <1>12 DEF Unlock, At, Goto, drive, hist, AfterSend
<1>13. CASE Return(t)
  BY <1>13 DEF Return, At, Goto, drive, hist, NoCall
<1>14. CASE Abort(t)
  BY <1>14 DEF Abort, At, Goto, drive, hist, CanRun, AsyncReady
<1>15. CASE SetCallback(t)
  BY <1>15 DEF SetCallback, At, Goto, drive, hist
<1>16. CASE Reset(t)
  BY <1>16 DEF Reset, At, Goto, drive, hist
<1>17. QED
  BY <1>2, <1>3, <1>4, <1>5, <1>6, <1>7, <1>8, <1>9, <1>10, <1>11, <1>12, <1>13,
     <1>14, <1>15, <1>16 DEF Semaphores, Waits, Computes

\* The steps of the drive.
LEMMA GameDrive ==
  ASSUME TypeOK, GameProtocol, AsyncThread \/ UsbComplete
  PROVE  GameProtocol'
<1> USE DEF GameProtocol, GameShapes, GameShape, SawFree, FreeIsDone, StoresAlone,
        Storing, OnItsWay, Queued, OwedReports, ErrorStays, AbortTold, Placed
<1>1. CASE AsyncWake
  BY <1>1 DEF AsyncWake, shared, hist, TypeOK, WordsOK
<1>2. CASE Dispatch
  BY <1>2 DEF Dispatch, StartRead, SeekTo, ChangeSpeed, NoCase, ReadCmds, MoveCmds,
              TypeOK, BitsOK
<1>3. CASE Finish
  <2>1. /\ apc = "fin" /\ apc' = "nop" /\ ~alarm
        /\ UNCHANGED <<cmdfunc, user_cb, cderror, rd_buf, asyncCmd, flags, drivestate, wakeups,
                       cur, pc, req, hist>>
    BY <1>3 DEF Finish
  <2>2. CASE Reports
    BY <1>3, <2>1, <2>2 DEF Finish, hist, TypeOK, WordsOK
  <2>3. CASE ~Reports
    <3>1. ~owed /\ waf' /\ UNCHANGED alarm
      BY <1>3, <2>3, Zenon DEF Finish, Reports, ReportEnd
    <3>2. QED  BY <2>1, <3>1 DEF hist, TypeOK, WordsOK
  <2>4. QED  BY <2>2, <2>3
<1>4. CASE AsyncNop
  BY <1>4 DEF AsyncNop
<1>5. CASE UsbComplete
  <2>1. /\ apc = "usb" /\ ~waf /\ ~alarm /\ posted = {} /\ ~Queued /\ ~misplaced'
        /\ UNCHANGED <<waf, cmdfunc, user_cb, rd_buf, asyncCmd, flags, drivestate, wakeups,
                       alarm, pc, req, poster, posted, owed>>
    <3>1. ~misplaced /\ flags = cur.dest /\ misplaced' = (misplaced \/ flags # cur.dest)
      BY <1>5 DEF UsbComplete
    <3>2. ~misplaced'  BY <3>1, Zenon
    <3>3. QED  BY <1>5, <3>2 DEF UsbComplete
  <2>2. CASE asyncCmd = "ABORT"
    BY <1>5, <2>1, <2>2 DEF UsbComplete, TypeOK, WordsOK
  <2>3. CASE asyncCmd # "ABORT"
    <3>1. ~failed' /\ cderror' = cderror  BY <1>5, <2>3, Zenon DEF UsbComplete
    <3>2. apc' = "fin" \/ (apc' = "usb" /\ cur' = [cur EXCEPT !.left = @ - 1])
      BY <1>5, Zenon DEF UsbComplete
    <3>3. apc' = "usb" => flags' = cur'.dest
      BY <2>1, <3>2 DEF TypeOK, WordsOK
    <3>4. QED  BY <2>1, <2>3, <3>1, <3>2, <3>3 DEF TypeOK, WordsOK
  <2>4. QED  BY <2>2, <2>3
<1>6. QED  BY <1>1, <1>2, <1>3, <1>4, <1>5 DEF AsyncThread

\* The interrupt finds the drive asleep: a command that the callback sends is queued
\* as one of the thread's is.
LEMMA GameInterrupt ==
  ASSUME OneGame, TypeOK, GameProtocol, Interrupt
  PROVE  GameProtocol'
<1> USE DEF GameProtocol, GameShapes, GameShape, SawFree, FreeIsDone, StoresAlone,
        Storing, OnItsWay, Queued, OwedReports, ErrorStays, AbortTold, Placed
<1>1. alarm /\ apc = "sleep" /\ ~waf /\ wakeups = 0 /\ posted = {}
  BY DEF Interrupt, IntrQuiet, IntrBreak, IntrSend, AlarmFires, OneGame, TypeOK, WordsOK
<1>2. CASE IntrQuiet
  <2>1. ~owed'  BY <1>2, Zenon DEF IntrQuiet, Reports
  <2>2. QED  BY <1>1, <1>2, <2>1 DEF IntrQuiet, ReportEnd
<1>3. CASE IntrBreak
  BY <1>1, <1>3 DEF IntrBreak, ReportEnd
<1>4. ASSUME NEW c \in CbCalls, IntrSend(c) PROVE GameProtocol'
  BY <1>1, <1>4 DEF IntrSend, Reports, ReadCmds, MoveCmds
<1>5. QED  BY <1>2, <1>3, <1>4 DEF Interrupt

\* The protocol of the game holds initially.
LEMMA GameInit == Init => GameProtocol
  BY DEF Init, GameProtocol, GameShapes, GameShape, SawFree, FreeIsDone, StoresAlone,
         Storing, OnItsWay, Queued, OwedReports, ErrorStays, AbortTold, Placed, NoCall

\* Every step keeps it.
LEMMA GameStep ==
  ASSUME OneGame
  PROVE  TypeOK /\ GameProtocol /\ [Next]_vars => (TypeOK /\ GameProtocol)'
<1>1. TypeOK /\ GameProtocol /\ Next => GameProtocol'
  BY OneGame, GameBegin, GameCall, GameDrive, GameInterrupt DEF Next, TypeOK
<1>2. GameProtocol /\ UNCHANGED vars => GameProtocol'
  BY DEF vars, shared, drive, hist, GameProtocol, GameShapes, GameShape, SawFree, FreeIsDone,
         StoresAlone, Storing, OnItsWay, Queued, OwedReports, ErrorStays, AbortTold, Placed
<1>3. QED  BY <1>1, <1>2, StepTyping

\* Whatever calls the one thread of a game makes, in whatever order, and whatever its
\* callback sends or breaks off: a drive that reports itself free has carried out all it
\* was handed, has called the callback and kept the error of what it refused or aborted,
\* and no read was delivered into the other processor's memory.
THEOREM GameServed ==
  ASSUME OneGame PROVE Spec => [](ReportedMeansServed /\ EndIsReported /\ DataInPlace)
<1>1. Init => TypeOK /\ GameProtocol  BY InitTyping, GameInit
<1>2. GameProtocol => ReportedMeansServed /\ EndIsReported /\ DataInPlace
  BY DEF GameProtocol, FreeIsDone, ErrorStays, Placed, ReportedMeansServed, EndIsReported,
         DataInPlace
<1>3. QED  BY OneGame, <1>1, <1>2, GameStep, PTL DEF Spec

\* Its commands are not stored over one another either, the callback's included, and
\* cdvdman_initcfg resets a drive that is done, though it looked before it took the lock.
THEOREM GameNoOverwrite == ASSUME OneGame PROVE Spec => NoOverwrite
<1> DEFINE Done == /\ \A t \in Threads : pc[t] \in {"post", "reset"} /\ pc'[t] # pc[t]
                                        => apc = "sleep" /\ wakeups = 0
                   /\ (\E c \in CbCalls : IntrSend(c)) => apc = "sleep" /\ wakeups = 0
<1>1. Init => TypeOK /\ GameProtocol  BY InitTyping, GameInit
<1>2. ASSUME TypeOK, GameProtocol, Next, NEW t \in Threads, pc[t] = "reset", pc'[t] # "reset"
      PROVE  ~AsyncReady
  <2>1. \A u \in Threads : u = t  BY OneGame DEF OneGame
  <2>2. CASE UNCHANGED pc
    BY <1>2, <2>2
  <2>3. CASE ~UNCHANGED pc
    <3>1. PICK u \in Threads : (\E c \in CallNames : Begin(u, c))
                              \/ Semaphores(u) \/ Waits(u) \/ Computes(u)
      BY <1>2, <2>3
         DEF Next, AsyncThread, AsyncWake, Dispatch, Finish, AsyncNop, UsbComplete, Interrupt,
             IntrQuiet, IntrSend, IntrBreak
    <3>2. CanRun(u)
      BY <3>1 DEF Begin, Semaphores, TakeFio, Lock, Waits, SyncBefore, SyncAfter, Computes,
                  CheckFlag, Poll, Mark, Post, Clear, Wake, Unlock, Return, Abort,
                  SetCallback, Reset, At
    <3>3. QED  BY <3>2 DEF CanRun
  <2>4. QED  BY <2>2, <2>3
<1>3. TypeOK /\ GameProtocol /\ Next => Done
  <2> SUFFICES ASSUME TypeOK, GameProtocol, Next PROVE Done
    OBVIOUS
  <2>1. ASSUME NEW t \in Threads, pc[t] \in {"post", "reset"}, pc'[t] # pc[t]
        PROVE  apc = "sleep" /\ wakeups = 0
    <3>1. CASE pc[t] = "post"
      BY <3>1 DEF GameProtocol, StoresAlone, Storing
    <3>2. CASE pc[t] = "reset"
      BY <1>2, <2>1, <3>2 DEF GameProtocol, SawFree, FreeIsDone, AsyncReady
    <3>3. QED  BY <2>1, <3>1, <3>2
  <2>2. ASSUME NEW c \in CbCalls, IntrSend(c) PROVE apc = "sleep" /\ wakeups = 0
    <3>1. alarm /\ apc \in {"sleep", "top", "usb", "fin", "nop"} /\ apc # "nop"
      BY <2>2, OneGame DEF IntrSend, AlarmFires, OneGame, TypeOK, WordsOK
    <3>2. QED  BY <3>1 DEF GameProtocol, OnItsWay, Queued, TypeOK, WordsOK
  <2>3. QED  BY <2>1, <2>2
<1>4. QED  BY OneGame, <1>1, <1>3, GameStep, PTL DEF Spec, NoOverwrite

=============================================================================
