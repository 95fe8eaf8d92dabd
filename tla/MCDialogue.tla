------------------------------ MODULE MCDialogue ------------------------------
(***************************************************************************)
(* Two clients of every pair of programs, for TLC, and what the pairs are  *)
(* expected to achieve.                                                    *)
(***************************************************************************)
EXTENDS Dialogue

\* Types and ranges; a count is under way only inside a loop of reads.
TypeOK ==
  /\ pair \in Pairs
  /\ \A p \in Procs :
       /\ pc[p] \in 1..Len(Program(p)) + 1
       /\ stat[p] \in {"run", "ended", "killed"}
       /\ rem[p] \in 0..Request
       /\ rem[p] > 0 => At(p, "readAll") \/ At(p, "echo") \/ stat[p] = "killed"
  /\ turn \in 0..Turns /\ cur \in Procs /\ listening \in BOOLEAN
  /\ conn \in [Clients -> {"none", "queued", "accepted"}]
  /\ \A e \in Ends, c \in Clients :
       /\ flow[e][c] \in 0..wr[e][c]
       /\ shut[e][c] \in {"open", "half", "closed"}
       /\ told[e][c] \in {"ok", "reset", "dead"}
  /\ \A c \in Clients : rd["server"][c] <= wr["client"][c] /\ rd["client"][c] <= wr["server"][c]

\* Clients that read until they have what they wrote.
InStepPairs == {"echo2", "stable", "std"}

Forsaken(c) == conn[c] = "queued" /\ stat[Server] # "run"

\* Whenever such a client turns to its user, all it sent has come back and nothing
\* of it is still on its way (echo_client2.c:58-60): no answer is mistaken for the next.
\* Of the clients that a server which has ended left in its backlog, only echo_client2's
\* keep to it: echo_stdclnt.c:56 does not see the reset and prints the client's own
\* line, StableEchoClnt_win.c:62 counts SOCKET_ERROR until the count wraps round.
InStep ==
  pair.name \in InStepPairs =>
    \A c \in Clients : At(c, "prompt") \/ At(c, "close") =>
      \/ rd["client"][c] = wr["client"][c] /\ flow["server"][c] = 0
      \/ Forsaken(c) /\ pair.name # "echo2"

\* Receivers that read until the end of file and senders that announce it.
TransferPairs == {"file", "sep", "tcp", "tcp_win"}

\* What such a receiver takes for the end of the transfer is not the end of a
\* buffer: when it goes on it has everything its server wrote.  And after the
\* half-close the other direction still works: a server that has reached its close
\* has got the client's message (file_client.c:46-47).
WholeTransfer ==
  /\ pair.name \in TransferPairs =>
       \A c \in Clients :
         At(c, "close") /\ conn[c] = "accepted" => rd["client"][c] = wr["server"][c]
  /\ pair.name \in {"file", "sep"} /\ At(Server, "close") => rd["server"][cur] > 0

\* The calculating server answers when it has read the request to its last byte,
\* however TCP has cut it up.  The exercise's server (me_op_server.c) does not.
RequestComplete ==
  pair.name = "op" /\ At(Server, "write") => rd["server"][cur] = Request

\* A server dies of SIGPIPE only by a client that closed with some of its answer
\* unread; of the clients here only those that read once do.
DiesOfUnreadAnswer ==
  stat[Server] = "killed" =>
    /\ shut["client"][cur] = "closed"
    /\ rd["client"][cur] < wr["client"][cur]
    /\ pair.name \notin InStepPairs

\* Every client comes to its end: the half-closes and closes are enough for the
\* other side's loops.  In the test pair both sides wait for ever; the Windows
\* echo server loops on SOCKET_ERROR after a client has reset the connection, and its
\* stable client when the server has ended with the client in the backlog.
Stuck == {"test", "echo_win", "stable"}
Finishes == pair.name \notin Stuck => <>(\A c \in Clients : stat[c] # "run")
=============================================================================
