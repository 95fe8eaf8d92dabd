--------------------------- MODULE CompletionServer ---------------------------
(***************************************************************************)
(* CmplRouEchoServ_win.c: one thread, one overlapped operation in flight   *)
(* per client, and completion routines that the system runs on that thread *)
(* while it sleeps alertably in SleepEx.  ReadRoutine starts the send,     *)
(* WriteRoutine the next receive, both on the client's one buffer.         *)
(***************************************************************************)
EXTENDS EchoNet

VARIABLES
  pc,      \* "sleep", "accept"
  op,      \* the client's operation: "recv", "recvdone", "send", ...
  len,     \* wsaBuf.len, in units
  failed,  \* the operation completed with an error
  blocks   \* clients whose lpOvLp and hbInfo are allocated

completionVars == <<pc, op, len, failed, blocks>>

Init ==
  /\ pc = "sleep"
  /\ op = [c \in Clients |-> "none"]
  /\ len = [c \in Clients |-> 0]
  /\ failed = [c \in Clients |-> FALSE]
  /\ blocks = {}

Start(c, what) == op' = [op EXCEPT ![c] = what]

\* WSARecv or WSASend.  On a connection that has been reset the call itself
\* fails: nothing is in flight, no routine will run, and the code goes on.
Call(c, what) == Start(c, IF conn[c] = "reset" THEN "lost" ELSE what)

\* The system completes a receive: data, end of file, or a reset.
RecvCompletes(c) ==
  /\ op[c] = "recv"
  /\ \/ ReadUpTo(c, len[c]) /\ UNCHANGED failed
     \/ AtEof(c) /\ UNCHANGED <<netVars, failed>>
     \/ ReadReset(c) /\ failed' = [failed EXCEPT ![c] = TRUE]
  /\ Start(c, "recvdone")
  /\ UNCHANGED <<pc, len, blocks>>

\* The system completes a send: all of it, however long that takes.
SendCompletes(c) ==
  /\ op[c] = "send"
  /\ \/ WriteOne(c) /\ UNCHANGED failed
     \/ WriteLost(c) /\ failed' = [failed EXCEPT ![c] = (conn[c] = "reset")]
  /\ IF held'[c] = 0 THEN Start(c, "senddone") ELSE UNCHANGED op
  /\ UNCHANGED <<pc, len, blocks>>

\* ErrorHandling: exit(1).
Exit == alive' = FALSE /\ UNCHANGED <<sst, tcp>>

\* ReadRoutine
RecvFailed(c) ==
  /\ failed[c]
  /\ Exit
  /\ UNCHANGED completionVars

RecvEndedLeaks(c) ==
  /\ ~failed[c] /\ held[c] = 0
  /\ Close(c)
  /\ Start(c, "none")
  /\ UNCHANGED <<pc, len, failed, blocks>>

RecvEnded(c) ==
  /\ ~failed[c] /\ held[c] = 0
  /\ Close(c)
  /\ blocks' = blocks \ {c}
  /\ Start(c, "none")
  /\ UNCHANGED <<pc, len, failed>>

\* Sends the whole buffer, whatever the receive has brought.
RecvBroughtWholeBuffer(c) ==
  /\ ~failed[c] /\ held[c] > 0
  /\ held' = [held EXCEPT ![c] = len[c]]
  /\ Call(c, "send")
  /\ UNCHANGED <<alive, sst, conn, sent, taken, out, got, cut, pc, len, failed, blocks>>

RecvBrought(c) ==
  /\ ~failed[c] /\ held[c] > 0
  /\ len' = [len EXCEPT ![c] = held[c]]
  /\ Call(c, "send")
  /\ UNCHANGED <<netVars, pc, failed, blocks>>

\* An end of file treated as the error it is not.
EndIsError(c) ==
  /\ pc = "sleep" /\ op[c] = "recvdone"
  /\ \/ held[c] = 0 /\ Exit /\ UNCHANGED completionVars
     \/ RecvBrought(c)

ReadRoutine(c) ==
  /\ pc = "sleep" /\ op[c] = "recvdone"
  /\ RecvFailed(c) \/ RecvEnded(c) \/ RecvBrought(c)

\* WriteRoutine: receive again, into what wsaBuf.len has become.
WriteRoutine(c) ==
  /\ pc = "sleep" /\ op[c] = "senddone"
  /\ IF failed[c] THEN Exit /\ UNCHANGED op
                  ELSE Call(c, "recv") /\ UNCHANGED netVars
  /\ UNCHANGED <<pc, len, failed, blocks>>

\* SleepEx returns when every queued routine has run, or after 50 ms without any.
Wake ==
  /\ pc = "sleep"
  /\ \A c \in Clients : op[c] \notin {"recvdone", "senddone"}
  /\ pc' = "accept"
  /\ UNCHANGED <<netVars, op, len, failed, blocks>>

\* accept on a socket that does not block, the blocks, the first WSARecv.  A client that
\* waits here has been sent nothing, so it cannot have left with a reset, and accept does
\* not fail because of it; a lack of resources (line 89) is left out, like that of memory.
AcceptOne ==
  /\ pc = "accept"
  /\ Backlog # {}
  /\ Accept(NextQueued)
  /\ blocks' = blocks \cup {NextQueued}
  /\ len' = [len EXCEPT ![NextQueued] = Buf]
  /\ Call(NextQueued, "recv")
  /\ pc' = "sleep"
  /\ UNCHANGED failed

AcceptNone ==
  /\ pc = "accept"
  /\ Backlog = {}
  /\ pc' = "sleep"
  /\ UNCHANGED <<netVars, op, len, failed, blocks>>

MainStep == Wake \/ AcceptOne \/ AcceptNone
Routine(c) == ReadRoutine(c) \/ WriteRoutine(c)
System(c) == RecvCompletes(c) \/ SendCompletes(c)

Step == MainStep \/ \E c \in Clients : Routine(c) \/ System(c)

\* A client's blocks live exactly as long as the server's socket for it, and its
\* buffer never shrinks to nothing, which would read as an end of file.
BlocksLive ==
  \A c \in Clients :
    /\ c \in blocks <=> sst[c] = "open"
    /\ c \in blocks <=> op[c] # "none"
    /\ c \in blocks => len[c] > 0

TypeOK ==
  /\ pc \in {"sleep", "accept"}
  /\ op \in [Clients -> {"none", "recv", "recvdone", "send", "senddone", "lost"}]
  /\ len \in [Clients -> 0..Buf]
  /\ failed \in [Clients -> BOOLEAN]
  /\ blocks \subseteq Clients
=============================================================================
