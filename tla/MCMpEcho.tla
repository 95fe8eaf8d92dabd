------------------------------ MODULE MCMpEcho ------------------------------
(***************************************************************************)
(* The multi-process echo server for TLC, and what its comment on zombies  *)
(* says that the code does not do.                                         *)
(***************************************************************************)
EXTENDS MpEcho

\* One client sends two units, the other only comes and goes.
TalkAndVisit == <<2, 0>>
NoTalk == <<0, 0>>

\* Line 36: the handler is there to prevent zombies, so when the parent waits in
\* accept with no signal left to handle, there is none.
NoZombieStays ==
  pcS = "accept" /\ Backlog = {} /\ ~sigchld /\ ~handling => Zombies = {}
=============================================================================
