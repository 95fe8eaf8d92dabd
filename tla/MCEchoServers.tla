---------------------------- MODULE MCEchoServers ----------------------------
(***************************************************************************)
(* The echo servers for TLC, and what the completion port server's comment *)
(* says of it that the code does not do.                                   *)
(***************************************************************************)
EXTENDS EchoServers

\* The first client sends three units, the second none (one in Units31).
Units31 == <<3, 1>>
Units30 == <<3, 0>>

\* IOCPEchoServ_win.c:159: after the answer comes "the receiving of the messages
\* the client sends" next, so a client that stays gets all of them back.
MessagesAfterTheFirst ==
  \A c \in Clients : \A n \in 1..MaxUnits[c] :
    sent[c] >= n ~> got[c] >= n \/ Gone(c)
=============================================================================
