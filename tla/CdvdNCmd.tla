------------------------------ MODULE CdvdNCmd ------------------------------
(***************************************************************************)
(* The N-command engine of the emulated CDVDMAN (modules/cdvdman).         *)
(*                                                                         *)
(* Client threads hand commands to the emulated drive with                 *)
(* send_asynccmd(), under the semaphore ncmd_sema; the drive is the thread *)
(* cdvd_asyncthread, which runs at priority 1 and is therefore ahead of    *)
(* every client whenever it is ready.  Completion is reported by the event *)
(* flag intr_ef and the word waf ("wait flag": 1 when the drive is free),  *)
(* either by the drive itself or, when a user callback is registered, by   *)
(* an alarm that emulates the CD/DVD interrupt (intr_cb).                  *)
(*                                                                         *)
(* A read is a sequence of USB transfers; the drive sleeps in each, and    *)
(* that is when client threads run beside it.                              *)
(***************************************************************************)
EXTENDS Naturals

CONSTANTS
  Threads,      \* the client threads: RPC servers of cdvdfsv, threads of the game
  Prio,         \* their IOP priorities; a smaller number is more urgent
  Calls,        \* Calls[t]: the calls thread t makes, a subset of CallNames
  CbCalls,      \* what the user callback does in the interrupt
  MaxChunks,    \* bound: USB transfers of one read
  MaxSegs,      \* bound: reads of one cdrom_read (the code makes up to three)
  MaxWakeups,   \* bound: no call starts with more wakeups queued at the drive
  Polite,       \* clients poll sceCdSync(1) before a call that does not itself wait
  PromptAlarm,  \* the alarm may fire before the drive reaches SleepThread()
  ForceSync     \* SYS_FORCESYN: sceCdSync() always blocks

CallNames == {"FileRead", "Read", "ReadEE", "Move", "Unlisted",
              "Break", "SetCb", "Init", "Sync"}
CbCallNames == {"Read", "Seek", "Break"}

ASSUME ConstantsOK ==
  /\ Prio \in [Threads -> Nat]
  /\ Calls \in [Threads -> SUBSET CallNames]
  /\ CbCalls \subseteq CbCallNames
  /\ MaxChunks \in Nat /\ MaxSegs \in Nat \ {0} /\ MaxWakeups \in Nat
  /\ Polite \in BOOLEAN /\ PromptAlarm \in BOOLEAN /\ ForceSync \in BOOLEAN

Callback == "callback"          \* the user callback, as a sender of commands
Nobody   == "nobody"
Senders  == Threads \cup {Callback}
ASSUME SendersDistinct == Callback \notin Threads /\ Nobody \notin Threads

ReadCmds == {"READ", "READEE"}
MoveCmds == {"SEEK", "PAUSE", "STANDBY", "STOP"}
Cmds     == ReadCmds \cup MoveCmds \cup {"NOP", "ABORT", "UNLISTED"}
Funcs    == {"none", "Read", "Seek", "Pause", "Standby", "Stop"}
Sides    == {"iop", "ee"}       \* the two memories data can be delivered to
Drive    == {"pause", "spin", "stop", "seek", "read"}
Steps    == {"idle", "fio", "sync", "check", "poll", "lock", "mark", "post",
             "clear", "wake", "abort", "setcb", "reset", "unlock", "wait", "ret"}

VARIABLES
  \* shared state of cdvdman
  waf,          \* cdvdman_cmdstruct.cdvdman_waf
  intr_ef,      \* bit 0 of the event flag cdvdman_intr_ef
  ncmd_sema,    \* cdvdman_ncmd_sema is free
  fio_sema,     \* cdvdman_fio_sema is free
  cmdfunc,      \* cdvdman_cmdfunc
  user_cb,      \* cdvdman_user_cb is not NULL
  cderror,      \* cdvdman_cmdstruct.cdvdman_cderror
  rd_buf,       \* the memory cdvdman_cmdstruct.cdvdman_rd_buf points into
  ncmd_buf,     \* async_config.ncmd_buf: is the LSN valid, how many transfers
  asyncCmd,     \* async_config.asyncCmd
  flags,        \* async_config.flags, the bit SYS_EE_RAM_DEST
  drivestate,   \* async_config.drivestate
  status,       \* async_config.status is SCECdComplete
  \* the drive's thread and the alarm
  apc,          \* where cdvd_asyncthread is
  wakeups,      \* wakeups queued at it
  cur,          \* locals of async_read(): destination, transfers left
  alarm,        \* intr_cb is armed
  \* the client threads
  pc,           \* the step each is at
  req,          \* its call: the command it sends and the reads it still makes
  \* history
  poster,       \* whose command asyncCmd holds
  posted,       \* the senders of a command the drive has not started on
  failed,       \* the last command the drive started on was refused or aborted
  owed,         \* a command was accepted whose end the callback must report
  misplaced     \* data of a read was delivered into the other memory

shared == <<waf, intr_ef, ncmd_sema, fio_sema, cmdfunc, user_cb, cderror, rd_buf,
            ncmd_buf, asyncCmd, flags, drivestate, status>>
drive  == <<apc, wakeups, cur, alarm>>
hist   == <<poster, posted, failed, owed, misplaced>>
vars   == <<shared, drive, pc, req, hist>>

NoTransfer == [dest |-> "iop", left |-> 0]
NoCall == [call |-> "none", cmd |-> "NOP", segs |-> 0]

-----------------------------------------------------------------------------
(* Scheduling on the IOP: fixed priorities, the drive's thread first.        *)

AsyncReady == \/ apc \in {"top", "fin", "nop"}
              \/ apc = "sleep" /\ wakeups > 0

\* A thread that has a step to make.  In sceCdSync() a thread sleeps only while
\* the event flag is clear: with the flag set and waf 0 it spins.
Runnable(t) ==
  CASE pc[t] = "idle"             -> FALSE
    [] pc[t] = "fio"              -> fio_sema
    [] pc[t] = "lock"             -> ncmd_sema
    [] pc[t] \in {"sync", "wait"} -> waf \/ intr_ef
    [] pc[t] = "poll"             -> ~ForceSync \/ waf \/ intr_ef
    [] OTHER                      -> TRUE

CanRun(t) == ~AsyncReady /\ \A u \in Threads : Prio[u] < Prio[t] => ~Runnable(u)

At(t, s)   == pc[t] = s /\ CanRun(t)
Goto(t, s) == pc' = [pc EXCEPT ![t] = s]

-----------------------------------------------------------------------------
(* The calls.  First(c) is where a call starts.  An unsynchronised call sends  *)
(* its command without waiting for the drive: a polite client polls waf first. *)

Unsynced == {"ReadEE", "Move", "Unlisted"}

\* Fault: cdrom_read does not take cdvdman_fio_sema.
FirstWithoutFio(c) ==
  CASE c \in {"FileRead", "Read", "Init"} -> "sync"
    [] c = "SetCb"                        -> "poll"
    [] c = "Sync"                         -> "wait"
    [] OTHER                              -> "lock"

\* Fault: sceCdRead and cdvdman_initcfg do not call sceCdSync(0).
FirstWithoutSync(c) ==
  CASE c = "FileRead" -> "fio"
    [] c = "SetCb"    -> "poll"
    [] c = "Sync"     -> "wait"
    [] OTHER          -> "lock"

First(c) == CASE c = "FileRead"         -> "fio"
              [] c \in {"Read", "Init"} -> "sync"
              [] c = "SetCb"            -> "poll"
              [] c = "Sync"             -> "wait"
              [] OTHER                  -> "lock"

CmdsOf(c) == CASE c \in {"FileRead", "Read"} -> {"READ"}
               [] c = "ReadEE"               -> {"READEE"}
               [] c = "Move"                 -> MoveCmds
               [] c = "Unlisted"             -> {"UNLISTED"}
               [] OTHER                      -> {"NOP"}

\* The function id a command is sent with; 0 ("none") asks for no callback.
FuncOf(r) == IF r.call = "Read" THEN "Read"
             ELSE CASE r.cmd = "SEEK"    -> "Seek"
                    [] r.cmd = "PAUSE"   -> "Pause"
                    [] r.cmd = "STANDBY" -> "Standby"
                    [] r.cmd = "STOP"    -> "Stop"
                    [] OTHER             -> "none"

Begin(t, c) ==
  /\ At(t, "idle")
  /\ c \in Calls[t]
  /\ wakeups <= MaxWakeups
  /\ Polite /\ c \in Unsynced => waf
  /\ \E m \in CmdsOf(c), s \in 1..MaxSegs :
       /\ c # "FileRead" => s = 1
       /\ req' = [req EXCEPT ![t] = [call |-> c, cmd |-> m, segs |-> s]]
  /\ status' = (status /\ c # "Init")
  /\ Goto(t, First(c))
  /\ UNCHANGED <<waf, intr_ef, ncmd_sema, fio_sema, cmdfunc, user_cb, cderror, rd_buf,
                 ncmd_buf, asyncCmd, flags, drivestate, drive, hist>>

\* cdrom_read: WaitSema(cdvdman_fio_sema)
TakeFio(t) ==
  /\ At(t, "fio") /\ fio_sema
  /\ fio_sema' = FALSE
  /\ Goto(t, "sync")
  /\ UNCHANGED <<waf, intr_ef, ncmd_sema, cmdfunc, user_cb, cderror, rd_buf, ncmd_buf,
                 asyncCmd, flags, drivestate, status, drive, req, hist>>

\* sceCdSync(0) ahead of a command; while waf is 0 the thread sleeps or spins.
SyncBefore(t) ==
  /\ At(t, "sync") /\ waf
  /\ Goto(t, IF req[t].call = "Read" THEN "check" ELSE "lock")
  /\ UNCHANGED <<shared, drive, req, hist>>

\* sceCdRead: the event flag must be set, or the call fails.
CheckFlag(t) ==
  /\ At(t, "check")
  /\ Goto(t, IF intr_ef THEN "lock" ELSE "idle")
  /\ req' = IF intr_ef THEN req ELSE [req EXCEPT ![t] = NoCall]
  /\ UNCHANGED <<shared, drive, hist>>

\* sceCdCallback: sceCdSync(1); gives up when the drive is busy.
Poll(t) ==
  /\ At(t, "poll")
  /\ \/ /\ waf
        /\ Goto(t, "lock")
        /\ req' = req
     \/ /\ ~waf /\ ~ForceSync
        /\ Goto(t, "idle")
        /\ req' = [req EXCEPT ![t] = NoCall]
  /\ UNCHANGED <<shared, drive, hist>>

\* WaitSema(cdvdman_ncmd_sema) in send_asynccmd, sceCdBreak, sceCdCallback, cdvdman_initcfg
Lock(t) ==
  /\ At(t, "lock") /\ ncmd_sema
  /\ ncmd_sema' = FALSE
  /\ Goto(t, CASE req[t].call = "Break" -> "abort"
               [] req[t].call = "SetCb" -> "setcb"
               [] req[t].call = "Init"  -> "reset"
               [] OTHER                 -> "mark")
  /\ UNCHANGED <<waf, intr_ef, fio_sema, cmdfunc, user_cb, cderror, rd_buf, ncmd_buf,
                 asyncCmd, flags, drivestate, status, drive, req, hist>>

-----------------------------------------------------------------------------
(* send_asynccmd, in the steps between which the drive can finish a transfer. *)

Mark(t) ==
  /\ At(t, "mark")
  /\ cmdfunc' = FuncOf(req[t])
  /\ cderror' = "NO"
  /\ waf' = FALSE
  /\ rd_buf' = "iop"
  /\ owed' = (owed \/ (FuncOf(req[t]) # "none" /\ user_cb))
  /\ Goto(t, "post")
  /\ UNCHANGED <<intr_ef, ncmd_sema, fio_sema, user_cb, ncmd_buf, asyncCmd, flags,
                 drivestate, status, drive, req, poster, posted, failed, misplaced>>

\* Fault: the switch has no case for READEE.
AfterPostNoReadEE(m) == CASE m = "READ"                    -> "clear"
                          [] m \in {"READEE", "UNLISTED"} -> "wait"
                          [] OTHER                         -> "wake"

\* The switch: a command that it does not list returns, without the wakeup and
\* without SignalSema.
AfterPost(m) == CASE m \in ReadCmds  -> "clear"
                  [] m = "UNLISTED" -> "wait"
                  [] OTHER          -> "wake"

\* The parameters are copied (reads and SEEK have some), then the command is stored.
Post(t) ==
  /\ At(t, "post")
  /\ IF req[t].cmd \in ReadCmds \cup {"SEEK"}
     THEN \E ok \in BOOLEAN, n \in 0..MaxChunks : ncmd_buf' = [ok |-> ok, left |-> n]
     ELSE UNCHANGED ncmd_buf
  /\ asyncCmd' = req[t].cmd
  /\ flags' = "iop"
  /\ poster' = t
  /\ posted' = posted \cup {t}
  /\ Goto(t, AfterPost(req[t].cmd))
  /\ UNCHANGED <<waf, intr_ef, ncmd_sema, fio_sema, cmdfunc, user_cb, cderror, rd_buf,
                 drivestate, status, drive, req, failed, owed, misplaced>>

\* Fault: the flags are cleared after READEE has set its bit.
ClearWithoutFlag(t) ==
  /\ At(t, "clear")
  /\ rd_buf' = IF req[t].cmd = "READEE" THEN "ee" ELSE rd_buf
  /\ intr_ef' = FALSE
  /\ Goto(t, "wake")
  /\ UNCHANGED <<waf, ncmd_sema, fio_sema, cmdfunc, user_cb, cderror, ncmd_buf,
                 asyncCmd, flags, drivestate, status, drive, req, hist>>

\* The READ cases of the switch.
Clear(t) ==
  /\ At(t, "clear")
  /\ IF req[t].cmd = "READEE" THEN flags' = "ee" /\ rd_buf' = "ee"
                              ELSE UNCHANGED <<flags, rd_buf>>
  /\ intr_ef' = FALSE
  /\ Goto(t, "wake")
  /\ UNCHANGED <<waf, ncmd_sema, fio_sema, cmdfunc, user_cb, cderror, ncmd_buf,
                 asyncCmd, drivestate, status, drive, req, hist>>

\* wakeup_thread(async_config.asyncthreadID)
Wake(t) ==
  /\ At(t, "wake")
  /\ wakeups' = wakeups + 1
  /\ Goto(t, "unlock")
  /\ UNCHANGED <<shared, apc, cur, alarm, req, hist>>

\* SignalSema(cdvdman_ncmd_sema); cdvdman_init sets the flag just before.  The
\* devctl calls and the RPC servers wait after the command, the exports
\* sceCdRead, sceCdSeek, sceCdBreak ... do not.
AfterSend(c) == CASE c \in {"FileRead", "ReadEE", "Unlisted"} -> {"wait"}
                  [] c \in {"Move", "Break"}                  -> {"wait", "ret"}
                  [] OTHER                                    -> {"ret"}

\* the SignalSema that ends send_asynccmd, sceCdCallback, sceCdBreak and cdvdman_init
Unlock(t) ==
  /\ At(t, "unlock")
  /\ ncmd_sema' = TRUE
  /\ IF req[t].call = "Init"
     THEN intr_ef' = TRUE /\ drivestate' = "pause" /\ status' = TRUE
     ELSE UNCHANGED <<intr_ef, drivestate, status>>
  /\ \E s \in AfterSend(req[t].call) : Goto(t, s)
  /\ UNCHANGED <<waf, fio_sema, cmdfunc, user_cb, cderror, rd_buf, ncmd_buf, asyncCmd,
                 flags, drive, req, hist>>

\* sceCdSync(0 | 4 | 6) after a command; cdrom_read goes on to its next read.
SyncAfter(t) ==
  /\ At(t, "wait") /\ waf
  /\ IF req[t].segs > 1
     THEN /\ Goto(t, "sync")
          /\ req' = [req EXCEPT ![t].segs = @ - 1]
     ELSE /\ Goto(t, "ret")
          /\ req' = req
  /\ UNCHANGED <<shared, drive, hist>>

\* Fault: cdrom_read returns without SignalSema(cdvdman_fio_sema).
ReturnKeepingFio(t) ==
  /\ At(t, "ret")
  /\ req' = [req EXCEPT ![t] = NoCall]
  /\ Goto(t, "idle")
  /\ UNCHANGED <<shared, drive, hist>>

\* The call returns; cdrom_read releases fio_sema.
Return(t) ==
  /\ At(t, "ret")
  /\ fio_sema' = (fio_sema \/ req[t].call = "FileRead")
  /\ req' = [req EXCEPT ![t] = NoCall]
  /\ Goto(t, "idle")
  /\ UNCHANGED <<waf, intr_ef, ncmd_sema, cmdfunc, user_cb, cderror, rd_buf, ncmd_buf,
                 asyncCmd, flags, drivestate, status, drive, hist>>

-----------------------------------------------------------------------------
(* The other users of ncmd_sema.                                             *)

\* sceCdBreak: the drive looks at asyncCmd between two transfers of a read.
Abort(t) ==
  /\ At(t, "abort")
  /\ asyncCmd' = "ABORT"
  /\ cderror' = "ABRT"
  /\ Goto(t, "unlock")
  /\ UNCHANGED <<waf, intr_ef, ncmd_sema, fio_sema, cmdfunc, user_cb, rd_buf, ncmd_buf,
                 flags, drivestate, status, drive, req, hist>>

\* sceCdCallback
SetCallback(t) ==
  /\ At(t, "setcb")
  /\ user_cb' \in BOOLEAN
  /\ Goto(t, "unlock")
  /\ UNCHANGED <<waf, intr_ef, ncmd_sema, fio_sema, cmdfunc, cderror, rd_buf, ncmd_buf,
                 asyncCmd, flags, drivestate, status, drive, req, hist>>

\* cdvdman_initcfg, once the module has been started.
Reset(t) ==
  /\ At(t, "reset")
  /\ user_cb' = FALSE /\ cmdfunc' = "none"
  /\ rd_buf' = "iop"
  /\ ncmd_buf' = [ok |-> TRUE, left |-> 0]
  /\ cderror' = "NO" /\ waf' = TRUE
  /\ asyncCmd' = "NOP"
  /\ drivestate' = "pause" /\ status' = FALSE
  /\ failed' = FALSE
  /\ Goto(t, "unlock")
  /\ UNCHANGED <<intr_ef, ncmd_sema, fio_sema, flags, drive, req,
                 poster, posted, owed, misplaced>>

-----------------------------------------------------------------------------
(* cdvd_asyncthread.                                                         *)

\* SleepThread() returns: wakeups are counted.
AsyncWake ==
  /\ apc = "sleep" /\ wakeups > 0
  /\ wakeups' = wakeups - 1
  /\ apc' = "top"
  /\ UNCHANGED <<shared, cur, alarm, pc, req, hist>>

\* async_read() up to its first transfer.  A read of 0 sectors has none.
StartRead ==
  /\ asyncCmd \in ReadCmds
  /\ IF ncmd_buf.ok
     THEN /\ status' = FALSE /\ cderror' = "NO" /\ drivestate' = "read"
          /\ IF ncmd_buf.left = 0
             THEN apc' = "fin" /\ UNCHANGED cur
             ELSE apc' = "usb" /\ cur' = [dest |-> rd_buf, left |-> ncmd_buf.left]
     ELSE cderror' = "IPI" /\ apc' = "fin" /\ UNCHANGED <<status, drivestate, cur>>
  /\ failed' = ~ncmd_buf.ok

\* async_lseek()
SeekTo ==
  /\ asyncCmd = "SEEK"
  /\ IF ncmd_buf.ok
     THEN status' = FALSE /\ cderror' = "NO" /\ drivestate' = "seek"
     ELSE cderror' = "IPI" /\ UNCHANGED <<status, drivestate>>
  /\ failed' = ~ncmd_buf.ok
  /\ apc' = "fin"
  /\ UNCHANGED cur

ChangeSpeed ==
  /\ asyncCmd \in {"PAUSE", "STANDBY", "STOP"}
  /\ drivestate' = CASE asyncCmd = "PAUSE"   -> "pause"
                     [] asyncCmd = "STANDBY" -> "spin"
                     [] asyncCmd = "STOP"    -> "stop"
  /\ failed' = FALSE
  /\ apc' = "fin"
  /\ UNCHANGED <<status, cderror, cur>>

\* NOP, and an ABORT that found no transfer to stop: no case of the switch.
NoCase ==
  /\ asyncCmd \in {"NOP", "ABORT", "UNLISTED"}
  /\ apc' = "fin"
  /\ UNCHANGED <<status, cderror, drivestate, cur, failed>>

\* The top of the loop.  A stopped drive completes without reporting.
Dispatch ==
  /\ apc = "top"
  /\ IF drivestate = "stop"
     THEN apc' = "nop" /\ UNCHANGED <<status, cderror, drivestate, cur, posted, failed>>
     ELSE /\ StartRead \/ SeekTo \/ ChangeSpeed \/ NoCase
          /\ posted' = posted \ {poster}
  /\ UNCHANGED <<waf, intr_ef, ncmd_sema, fio_sema, cmdfunc, user_cb, rd_buf, ncmd_buf,
                 asyncCmd, flags, wakeups, alarm, pc, req, poster, owed, misplaced>>

\* A transfer completes; its data is delivered by what flags says now, and the
\* loop goes on unless it is the last one or an abort has been requested.
UsbComplete ==
  LET aborted == asyncCmd = "ABORT"
      over    == aborted \/ cur.left = 1
  IN
  /\ apc = "usb"
  /\ misplaced' = (misplaced \/ flags # cur.dest)
  /\ cur' = IF over THEN NoTransfer ELSE [cur EXCEPT !.left = @ - 1]
  /\ apc' = IF over THEN "fin" ELSE "usb"
  /\ cderror' = IF aborted THEN "ABRT" ELSE cderror
  /\ failed' = aborted
  /\ UNCHANGED <<waf, intr_ef, ncmd_sema, fio_sema, cmdfunc, user_cb, rd_buf, ncmd_buf,
                 asyncCmd, flags, drivestate, status, wakeups, alarm, pc, req,
                 poster, posted, owed>>

\* Fault: a callback is only called for reads.
ReportsReads == cmdfunc = "Read" /\ user_cb

\* There is a callback, and the command was sent with a function id for it.
Reports == cmdfunc # "none" /\ user_cb

ReportFlagOnly == intr_ef' = TRUE /\ UNCHANGED waf

\* Sets the event flag and waf.
ReportEnd == intr_ef' = TRUE /\ waf' = TRUE

\* The end of the command: report it, or arm the alarm that will.
Finish ==
  /\ apc = "fin"
  /\ IF Reports
     THEN alarm' = TRUE /\ UNCHANGED <<intr_ef, waf>>
     ELSE ReportEnd /\ UNCHANGED alarm
  /\ apc' = "nop"
  /\ UNCHANGED <<ncmd_sema, fio_sema, cmdfunc, user_cb, cderror, rd_buf, ncmd_buf,
                 asyncCmd, flags, drivestate, status, wakeups, cur, pc, req, hist>>

\* async_nop: and SleepThread().
AsyncNop ==
  /\ apc = "nop"
  /\ status' = TRUE /\ drivestate' = "pause" /\ asyncCmd' = "NOP"
  /\ apc' = "sleep" /\ poster' = Nobody
  /\ UNCHANGED <<waf, intr_ef, ncmd_sema, fio_sema, cmdfunc, user_cb, cderror, rd_buf,
                 ncmd_buf, flags, wakeups, cur, alarm, pc, req,
                 posted, failed, owed, misplaced>>

-----------------------------------------------------------------------------
(* intr_cb, run by the alarm interrupt: nothing interleaves with it.         *)

AlarmFires == alarm /\ (PromptAlarm \/ apc # "nop")

\* The callback, if there is one, only takes note.
IntrQuiet ==
  /\ AlarmFires
  /\ alarm' = FALSE
  /\ ReportEnd /\ cmdfunc' = "none"
  /\ owed' = (owed /\ ~Reports)
  /\ UNCHANGED <<ncmd_sema, fio_sema, user_cb, cderror, rd_buf, ncmd_buf, asyncCmd,
                 flags, drivestate, status, apc, wakeups, cur, pc, req,
                 poster, posted, failed, misplaced>>

\* The callback sends the next command with sceCdRead or sceCdSeek: semaphore
\* calls fail in interrupt context, the rest of send_asynccmd is carried out,
\* and as waf is 0 again, intr_cb leaves cmdfunc to the new command.
IntrSend(c) ==
  /\ AlarmFires /\ Reports
  /\ c \in CbCalls \cap {"Read", "Seek"}
  /\ wakeups <= MaxWakeups
  /\ alarm' = FALSE
  /\ waf' = FALSE
  /\ intr_ef' = (c # "Read")
  /\ cmdfunc' = c
  /\ cderror' = "NO"
  /\ rd_buf' = "iop" /\ flags' = "iop"
  /\ \E ok \in BOOLEAN, n \in 0..MaxChunks : ncmd_buf' = [ok |-> ok, left |-> n]
  /\ asyncCmd' = IF c = "Read" THEN "READ" ELSE "SEEK"
  /\ wakeups' = wakeups + 1
  /\ poster' = Callback
  /\ posted' = posted \cup {Callback}
  /\ owed' = TRUE
  /\ UNCHANGED <<ncmd_sema, fio_sema, user_cb, drivestate, status, apc, cur, pc, req,
                 failed, misplaced>>

\* The callback calls sceCdBreak.
IntrBreak ==
  /\ AlarmFires /\ Reports
  /\ "Break" \in CbCalls
  /\ alarm' = FALSE
  /\ ReportEnd /\ cmdfunc' = "none"
  /\ asyncCmd' = "ABORT" /\ cderror' = "ABRT"
  /\ owed' = FALSE
  /\ UNCHANGED <<ncmd_sema, fio_sema, user_cb, rd_buf, ncmd_buf, flags, drivestate,
                 status, apc, wakeups, cur, pc, req, poster, posted, failed, misplaced>>

-----------------------------------------------------------------------------
\* cdrom_init() has run: AddDrv() calls it before any client can reach the module.
Init ==
  /\ waf = TRUE /\ intr_ef = TRUE
  /\ ncmd_sema = TRUE /\ fio_sema = TRUE
  /\ cmdfunc = "none" /\ user_cb = FALSE /\ cderror = "NO"
  /\ rd_buf = "iop" /\ flags = "iop"
  /\ ncmd_buf = [ok |-> TRUE, left |-> 0]
  /\ asyncCmd = "NOP" /\ drivestate = "pause" /\ status = TRUE
  /\ apc = "sleep" /\ wakeups = 0 /\ alarm = FALSE
  /\ cur = NoTransfer
  /\ pc = [t \in Threads |-> "idle"]
  /\ req = [t \in Threads |-> NoCall]
  /\ poster = Nobody /\ posted = {} /\ failed = FALSE
  /\ owed = FALSE /\ misplaced = FALSE

Semaphores(t) == TakeFio(t) \/ Lock(t)
Waits(t)      == SyncBefore(t) \/ SyncAfter(t)
Computes(t)   == \/ CheckFlag(t) \/ Poll(t) \/ Mark(t) \/ Post(t) \/ Clear(t) \/ Wake(t)
                 \/ Unlock(t) \/ Return(t) \/ Abort(t) \/ SetCallback(t) \/ Reset(t)
AsyncThread   == AsyncWake \/ Dispatch \/ Finish \/ AsyncNop
Interrupt     == IntrQuiet \/ IntrBreak \/ \E c \in CbCalls : IntrSend(c)

Next ==
  \/ \E t \in Threads :
       \/ \E c \in CallNames : Begin(t, c)
       \/ Semaphores(t) \/ Waits(t) \/ Computes(t)
  \/ AsyncThread
  \/ UsbComplete
  \/ Interrupt

Spec == Init /\ [][Next]_vars

\* The drive's thread is scheduled whenever it is ready, transfers end, alarms
\* fire.  A preempted client resumes when the threads ahead of it block, and
\* semaphores serve their waiters in FIFO order (attr 0): strong fairness.  A
\* waiter of sceCdSync() that wakes up too late to see waf set sleeps again:
\* weak fairness only.  A callback does not send a command each time, forever.
Fairness ==
  /\ WF_vars(AsyncThread) /\ WF_vars(UsbComplete)
  /\ WF_vars(Interrupt) /\ SF_vars(IntrQuiet)
  /\ \A t \in Threads : /\ SF_vars(Semaphores(t))
                        /\ SF_vars(Computes(t))
                        /\ WF_vars(Waits(t))

FairSpec == Spec /\ Fairness

-----------------------------------------------------------------------------
(* Properties.                                                               *)

BitsOK ==
  /\ waf \in BOOLEAN /\ intr_ef \in BOOLEAN
  /\ ncmd_sema \in BOOLEAN /\ fio_sema \in BOOLEAN
  /\ user_cb \in BOOLEAN /\ status \in BOOLEAN /\ alarm \in BOOLEAN
  /\ failed \in BOOLEAN /\ owed \in BOOLEAN /\ misplaced \in BOOLEAN

WordsOK ==
  /\ cmdfunc \in Funcs /\ cderror \in {"NO", "ABRT", "IPI"}
  /\ rd_buf \in Sides /\ flags \in Sides
  /\ ncmd_buf \in [ok : BOOLEAN, left : 0..MaxChunks]
  /\ asyncCmd \in Cmds /\ drivestate \in Drive
  /\ apc \in {"sleep", "top", "usb", "fin", "nop"} /\ wakeups \in Nat
  /\ cur \in [dest : Sides, left : 0..MaxChunks]
  /\ apc = "usb" => cur.left > 0
  /\ poster \in Senders \cup {Nobody} /\ posted \subseteq Senders

ClientsOK ==
  /\ pc \in [Threads -> Steps]
  /\ req \in [Threads -> [call : CallNames \cup {"none"}, cmd : Cmds, segs : 0..MaxSegs]]

\* Every variable stays in its domain: in particular the number of transfers left,
\* an unsigned count of bytes in the code, never passes below 0.
TypeOK == BitsOK /\ WordsOK /\ ClientsOK

\* A drive that reports itself busy (waf 0) has a completion on its way: a sender
\* that will still wake it, a queued wakeup, a command it is executing, or an
\* armed alarm.  Otherwise every caller of sceCdSync() waits forever.
CompletionPending ==
  ~waf => \/ \E t \in Threads : pc[t] \in {"post", "clear", "wake"}
          \/ wakeups > 0
          \/ apc \in {"top", "usb", "fin"}
          \/ alarm

\* The state "stop" is gone before the drive sleeps: the test of it at the top of the
\* loop, which would drop a command without reporting its end, never succeeds.
StopIsTransient == apc \in {"sleep", "top", "usb"} => drivestate # "stop"

\* When the drive reports itself free, every command handed to it has been
\* carried out, refused or aborted: none is waiting and no transfer is running.
ReportedMeansServed == waf => posted = {} /\ apc # "usb"

\* A drive that reports itself free has told how the command ended: the callback has been
\* called for a command sent with a function id while one was registered, and sceCdGetError()
\* tells of a command that was refused or aborted: nothing has put the error back.
EndIsReported == waf => ~owed /\ (failed => cderror # "NO")

\* Data of a read never reaches the other processor's memory: flags is re-read
\* after each transfer, the destination only once.
DataInPlace == ~misplaced

\* Every call of a client returns, or others make calls meanwhile: a waiter of sceCdSync() may
\* always be too late.  cdrom_read returns whatever the others do.
CallsReturn ==
  \A t \in Threads :
    /\ pc[t] # "idle" ~> pc[t] = "idle" \/ \E u \in Threads \ {t} : pc[u] # "idle"
    /\ req[t].call = "FileRead" ~> pc[t] = "idle"

\* send_asynccmd stores a command, from a thread or from the callback, and cdvdman_initcfg
\* resets the drive, only when the drive is done with the last command, though a thread looked
\* at it before it took the lock, and the callback is called before the thread knows.
NoOverwrite ==
  [][/\ \A t \in Threads : pc[t] \in {"post", "reset"} /\ pc'[t] # pc[t]
                             => apc = "sleep" /\ wakeups = 0
     /\ (\E c \in CbCalls : IntrSend(c)) => apc = "sleep" /\ wakeups = 0]_vars

=============================================================================
