------------------------------ MODULE IopReset ------------------------------
(***************************************************************************)
(* The EE core (EE_core): its hooks of the system calls SifSetDma and      *)
(* SifSetReg, through which a game resets the IOP, and what it does        *)
(* instead, New_SifIopReset: a reset without an image, UDNL without        *)
(* arguments, and UDNL with the game's images.  On the IOP, Udnl loads the *)
(* modules, and EESYNC tells the EE that all were started.                 *)
(*                                                                         *)
(* The library's SifIopReset, which games and the core call, clears        *)
(* BOOTEND, sends a packet with SifSetDma and calls SifSetReg four times.  *)
(* The IOP takes longer to start than the EE to do that.                   *)
(***************************************************************************)
EXTENDS Udnl

CONSTANTS
  GameArgs,  \* what games reset the IOP with: names of images, <<>> for no argument
  Mode3      \* values of the flag HDL_MODE_3

VARIABLES
  game,      \* what the game does: "main" is the EE core, before the game starts
  core,      \* where New_SifIopReset is
  todo,      \* SifSetReg calls to come, the bits of SMFLAG that each clears
  dmaLock,   \* SifSetDma_lock
  regLock,   \* SifSetReg_lock
  hooked,    \* the system calls are the hooks
  installed, \* ori_SifSetDma # NULL
  mode3,     \* mode3_enabled
  caller,    \* who called New_SifIopReset
  ioprp,     \* its argument, without the first 10 bytes
  smflag,    \* SIF_REG_SMFLAG
  iop,       \* what the IOP was last reset to
  booting    \* and whether it is still at that

evars == <<game, core, todo, dmaLock, regLock, hooked, installed, mode3, caller, ioprp, smflag, iop, booting>>
locks == <<dmaLock, regLock, hooked, installed, mode3>>
vars == <<uvars, evars>>

\* SIF_STAT_SIFINIT, CMDINIT and BOOTEND, 0x70000.
Up == {"sifinit", "cmdinit", "bootend"}

\* What SifIopReset writes after its packet, and SifIopResetUDNL.
ResetRegs == <<{"sifinit"}, {"cmdinit"}, {}, {}>>
UdnlRegs == <<Up, {}, {}>>

Init ==
  /\ UdnlInit
  /\ game = "main" /\ core = "idle" /\ todo = <<>>
  /\ dmaLock = 1 /\ regLock = 0 /\ hooked = FALSE /\ installed = FALSE /\ mode3 = FALSE
  /\ caller = "main" /\ ioprp = <<>>
  /\ smflag = Up /\ iop = "rom" /\ booting = FALSE
-----------------------------------------------------------------------------
(* System calls                                                            *)

\* A DMA transfer is a reset packet by its size, its attributes, and the size
\* and the command in its header.
Headers == [size : BOOLEAN, attr : BOOLEAN, psize : BOOLEAN, cid : BOOLEAN]
IsReset(h) == h.size /\ h.attr /\ h.psize /\ h.cid
ResetHeader == [size |-> TRUE, attr |-> TRUE, psize |-> TRUE, cid |-> TRUE]

\* Hook_SifSetDma: New_SifSetDma is called instead.
Intercepts(h) == hooked /\ dmaLock = 1 /\ IsReset(h)

\* The packet of a reset reaches the IOP.
Packet(os) == iop' = os /\ booting' = TRUE /\ todo' = ResetRegs

\* Hook_SifSetReg: while its lock is not 0 the call does nothing.  The last of
\* those takes the hooks out, in mode 3 (reset_Syscalls).
SifSetReg ==
  /\ todo # <<>> /\ todo' = Tail(todo)
  /\ IF hooked /\ regLock > 0
     THEN /\ regLock' = regLock - 1 /\ hooked' = ~(regLock = 1 /\ mode3)
          /\ UNCHANGED smflag
     ELSE smflag' = smflag \ Head(todo) /\ UNCHANGED <<regLock, hooked>>
  /\ UNCHANGED <<uvars, game, core, dmaLock, installed, mode3, caller, ioprp, iop, booting>>
-----------------------------------------------------------------------------
(* New_SifIopReset                                                         *)

\* Mutant: the lock of SifSetDma stays set.
LocksKept == regLock' = 0 /\ UNCHANGED dmaLock

\* What the core itself calls is not intercepted.
Unlocked == regLock' = 0 /\ dmaLock' = 0

Begin(a, by) ==
  /\ core' = "plain" /\ caller' = by /\ ioprp' = a
  /\ Unlocked

\* The first reset.  Were it intercepted, New_SifIopReset would begin again,
\* on the same stack.
PlainReset ==
  /\ core = "plain" /\ todo = <<>>
  /\ smflag' = smflag \ {"bootend"}
  /\ IF Intercepts(ResetHeader)
     THEN UNCHANGED <<core, iop, booting, todo>>
     ELSE core' = "sync" /\ Packet("rom")
  /\ UNCHANGED <<uvars, game, locks, caller, ioprp>>

\* SifIopSync
Synced == todo = <<>> /\ "bootend" \in smflag

\* SifIopResetUDNL sends UDNL to the IOP and has it started.
StartUdnl(args) ==
  /\ Start(args)
  /\ iop' = "core" /\ booting' = TRUE /\ todo' = UdnlRegs
  /\ UNCHANGED <<game, locks, caller, ioprp, smflag>>

FirstUdnl == core = "sync" /\ Synced /\ StartUdnl(<<>>) /\ core' = "first"

SecondUdnl == core = "first" /\ Synced /\ ioprp # <<>> /\ StartUdnl(ioprp) /\ core' = "second"

\* How many calls of SifSetReg the game's SifIopReset still makes.
Skipped == 4

\* The game's call of SifSetDma returns, and it calls SifSetReg; or main goes
\* on to load the game.
EndReset ==
  /\ core \in {"first", "second"} /\ Synced /\ (core = "first" => ioprp = <<>>)
  /\ core' = "idle" /\ dmaLock' = 1
  /\ IF caller = "game"
     THEN game' = "regs" /\ todo' = ResetRegs /\ regLock' = Skipped
     ELSE game' = "elf" /\ UNCHANGED <<todo, regLock>>
  /\ UNCHANGED <<uvars, hooked, installed, mode3, caller, ioprp, smflag, iop, booting>>
-----------------------------------------------------------------------------
(* main, and the game                                                      *)

\* The core is started in the place of EELOAD, for every program.  It hooks
\* the system calls once.
Main ==
  /\ game = "main" /\ core = "idle"
  /\ installed' = TRUE
  /\ IF installed THEN UNCHANGED <<hooked, mode3>> ELSE hooked' = TRUE /\ mode3' \in Mode3
  /\ Begin(<<>>, "main")
  /\ UNCHANGED <<uvars, game, todo, smflag, iop, booting>>

\* New_LoadExecPS2: the program runs, or could not be loaded.
LoadElf ==
  /\ game = "elf" /\ game' \in {"run", "dead"}
  /\ UNCHANGED <<uvars, core, todo, locks, caller, ioprp, smflag, iop, booting>>

LoadExecPS2 ==
  /\ game = "run" /\ game' = "main"
  /\ UNCHANGED <<uvars, core, todo, locks, caller, ioprp, smflag, iop, booting>>

\* The game sends something to the IOP.
SifSetDma(h, a) ==
  /\ game = "run"
  /\ IF Intercepts(h)
     THEN /\ Begin(a, "game") /\ game' = "reset"
          /\ UNCHANGED <<uvars, todo, hooked, installed, mode3, iop, booting>>
     ELSE IF IsReset(h)
     THEN /\ game' = "regs" /\ ioprp' = a /\ Packet("game")
          /\ UNCHANGED <<uvars, core, caller, locks>>
     ELSE UNCHANGED <<uvars, game, core, todo, locks, caller, ioprp, iop, booting>>
  /\ smflag' = IF IsReset(h) THEN smflag \ {"bootend"} ELSE smflag

\* It goes on when the IOP can be talked to.
ResetDone ==
  /\ game = "regs" /\ Synced /\ smflag = Up
  /\ game' = "run"
  /\ UNCHANGED <<uvars, core, todo, locks, caller, ioprp, smflag, iop, booting>>
-----------------------------------------------------------------------------
(* The IOP                                                                 *)

Listed(name) == \E i \in 0..(num - 1) : list[i].name = name

\* All modules were started.  EESYNC, where it is among them, says so.
IopUp ==
  /\ booting /\ todo = <<>> /\ (iop = "core" => upc = "booted")
  /\ booting' = FALSE
  /\ smflag' = smflag \cup (IF iop = "core" /\ ~Listed("EESYNC") THEN Up \ {"bootend"} ELSE Up)
  /\ loaded' = NotLoaded
  /\ UNCHANGED <<disc, argv, arg, upc, images, total, next, buf, mem, stack, list, num, start>>
  /\ UNCHANGED <<game, core, todo, locks, caller, ioprp, iop>>

Next ==
  \/ iop = "core" /\ booting /\ todo = <<>> /\ UdnlNext /\ UNCHANGED evars
  \/ SifSetReg \/ PlainReset \/ FirstUdnl \/ SecondUdnl \/ EndReset
  \/ Main \/ LoadElf \/ LoadExecPS2 \/ ResetDone
  \/ \E h \in Headers, a \in GameArgs : SifSetDma(h, a)
  \/ IopUp

Spec == Init /\ [][Next]_vars
-----------------------------------------------------------------------------
(* Properties                                                              *)

\* Of the modules that the core brings, those that the list has are the
\* core's, unless an image has a newer one.
CoreServes ==
  \A i \in 0..(num - 1) :
    LET e == list[i] IN
    \A j \in DOMAIN Own.ents : Own.ents[j].name = e.name =>
      e.image = 2 \/ Version(e.image, e.name) >= Own.ents[j].ver

\* While a game runs with the hooks in place, the IOP is up, was loaded by the
\* core's UDNL with what the game last asked for, and serves with the core's
\* modules; the flags say that it is up, the next reset will be intercepted,
\* and no register the game writes is kept back.  What the core calls for a
\* reset of its own is neither intercepted nor kept back.
ResetKeepsCore ==
  /\ game = "run" /\ hooked =>
       /\ iop = "core" /\ ~booting /\ argv = ioprp /\ CoreServes
       /\ dmaLock = 1 /\ regLock = 0
  /\ game = "regs" /\ todo = <<>> /\ ~booting => smflag = Up
  /\ core # "idle" => ~Intercepts(ResetHeader) /\ regLock = 0
=============================================================================
