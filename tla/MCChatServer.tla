---------------------------- MODULE MCChatServer ----------------------------
(***************************************************************************)
(* The chat server for TLC, and what the comments of chat_server.c say of  *)
(* it that the code does not do.                                           *)
(***************************************************************************)
EXTENDS ChatServer

\* Lines 65-66: the thread is created "to serve the added client".  Thread k is
\* created for the client of the k-th accept, so it only ever reads from that one.
ServesAddedClient ==
  \A t \in Threads : file[t] \in {NoConn, t}

\* Line 90: the loop is to "remove disconnected client", so afterwards its
\* descriptor is not registered any more.
RemovesDisconnected ==
  [][\A t \in Threads :
       pc[t] = "remove" /\ pc'[t] = "close" => sock[t] \notin Registered']_vars
=============================================================================
