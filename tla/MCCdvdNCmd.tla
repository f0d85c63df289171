----------------------------- MODULE MCCdvdNCmd -----------------------------
(* Two kinds of clients of CdvdNCmd, for TLC: an instance has either.        *)
EXTENDS CdvdNCmd, TLC

CONSTANTS t1, t2, t3

\* All threads at one priority, as the RPC servers of cdvdfsv are.
EqualPrio == [t \in {t1, t2, t3} |-> 1]

\* Two readers of files through the cdrom device and a caller of CDIOC_BREAK.
FileCalls == t1 :> {"FileRead"} @@ t2 :> {"FileRead"} @@ t3 :> {"Break"}

\* A game with a single thread and every call but the unlisted commands.
GameCalls == t1 :> (CallNames \ {"Unlisted"}) @@ t2 :> {} @@ t3 :> {}

AllCalls == [t \in {t1, t2, t3} |-> FileCalls[t] \cup GameCalls[t]]

VARIABLE clients  \* who calls what, from the start

MCInit == Init /\ clients \in {FileCalls, GameCalls}

\* A file is read in up to two reads of the drive; by the game, in one.
Fits ==
  \A t \in Threads : req[t].call # "none" =>
    req[t].call \in clients[t] /\ (clients = GameCalls => req[t].segs = 1)

MCNext == UNCHANGED clients /\ Next /\ Fits'

MCSpec == MCInit /\ [][MCNext]_<<vars, clients>> /\ Fairness
=============================================================================
