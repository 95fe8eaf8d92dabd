----------------------------- MODULE PortServer -----------------------------
(***************************************************************************)
(* IOCPEchoServ_win.c: completed operations queue up in a completion port, *)
(* from which as many worker threads as there are CPUs take them.  main    *)
(* accepts and starts each client's first receive; a worker that takes a   *)
(* receive sends the data back and starts the next receive, one that takes *)
(* a send frees its block.  Two clients, or a send and a receive of one    *)
(* client, may be in the hands of two workers at once.  The return 0 at    *)
(* the bottom of the workers' loop ends a worker with the first completion *)
(* that is not an end of file.                                             *)
(***************************************************************************)
EXTENDS EchoNet

CONSTANT NumberOfProcessors

Workers == 1..NumberOfProcessors

VARIABLES
  queue,   \* the completions in the port, first in, first out
  rcv,     \* clients with a receive in flight
  snd,     \* sends in flight of a client
  wpc,     \* where a worker is: "get", "send", "recv", "close", "free", "ended"
  ioInfo,  \* the completion it has taken
  handles  \* clients whose handleInfo is allocated

portVars == <<queue, rcv, snd, wpc, ioInfo, handles>>

\* n units behind the first k: what a receive brought.  A send brings nothing.
Completion(c, mode, k, n) == [clnt |-> c, rwMode |-> mode, from |-> k, bytesTrans |-> n]
NoInfo == Completion(0, "none", 0, 0)

Init ==
  /\ queue = << >>
  /\ rcv = {}
  /\ snd = [c \in Clients |-> 0]
  /\ wpc = [w \in Workers |-> "get"]
  /\ ioInfo = [w \in Workers |-> NoInfo]
  /\ handles = {}

\* main: accept, handleInfo, the association with the port, WSARecv.
AcceptOne ==
  /\ Backlog # {}
  /\ Accept(NextQueued)
  /\ handles' = handles \cup {NextQueued}
  /\ rcv' = rcv \cup {NextQueued}
  /\ UNCHANGED <<queue, snd, wpc, ioInfo>>

\* The system completes a receive: with data, or with 0 bytes at the end of
\* file or after a reset.
RecvCompletes(c) ==
  /\ c \in rcv
  /\ Unread(c) > 0 \/ Gone(c)
  /\ LET n == Least(Buf, Unread(c)) IN
       /\ queue' = Append(queue, Completion(c, "READ", taken[c], n))
       /\ taken' = [taken EXCEPT ![c] = @ + n]
  /\ rcv' = rcv \ {c}
  /\ UNCHANGED <<alive, sst, conn, sent, held, out, got, cut, snd, wpc, ioInfo, handles>>

\* The system completes a send once the send buffer has the room.
SendCompletes(c) ==
  /\ snd[c] > 0
  /\ Room(c) >= 0 \/ Gone(c)
  /\ snd' = [snd EXCEPT ![c] = @ - 1]
  /\ queue' = Append(queue, Completion(c, "WRITE", 0, 0))
  /\ UNCHANGED <<netVars, rcv, wpc, ioInfo, handles>>

AnswerThenReceive == [get |-> "send", send |-> "recv", recv |-> "ended"]
ReceiveThenAnswer == [get |-> "recv", recv |-> "send", send |-> "ended"]

\* What a worker does with data, in this order; then return 0.
Order == AnswerThenReceive

\* GetQueuedCompletionStatus.  That line 137 reads handleInfo for a send too, perhaps after
\* line 148 has freed it, is left out: what it reads is used for a receive alone.
Get(w) ==
  /\ wpc[w] = "get"
  /\ queue # << >>
  /\ queue' = Tail(queue)
  /\ ioInfo' = [ioInfo EXCEPT ![w] = Head(queue)]
  /\ wpc' = [wpc EXCEPT ![w] =
               IF Head(queue).rwMode = "WRITE" THEN "free"
               ELSE IF Head(queue).bytesTrans = 0 THEN "close" ELSE Order.get]
  /\ UNCHANGED <<netVars, rcv, snd, handles>>

Goes(w, to) ==
  /\ wpc' = [wpc EXCEPT ![w] = to]
  /\ ioInfo' = IF to \in {"get", "ended"} THEN [ioInfo EXCEPT ![w] = NoInfo] ELSE ioInfo

\* closesocket, and both blocks are freed.
CloseClient(w) ==
  /\ wpc[w] = "close"
  /\ Close(ioInfo[w].clnt)
  /\ handles' = handles \ {ioInfo[w].clnt}
  /\ Goes(w, "get")
  /\ UNCHANGED <<queue, rcv, snd>>

\* WSASend.  It fails at once when a reset has arrived; the code does not look.
SendBack(w) ==
  /\ wpc[w] = "send"
  /\ LET c == ioInfo[w].clnt IN
       /\ IF conn[c] = "open"
            THEN out' = [out EXCEPT ![c] = @ \o Units(ioInfo[w].from, ioInfo[w].bytesTrans)]
            ELSE UNCHANGED out
       /\ IF conn[c] = "reset" THEN UNCHANGED snd ELSE snd' = [snd EXCEPT ![c] = @ + 1]
       /\ conn' \in IF conn[c] = "fin" THEN {conn, [conn EXCEPT ![c] = "reset"]} ELSE {conn}
  /\ Goes(w, Order.send)
  /\ UNCHANGED <<alive, sst, sent, taken, held, got, cut, queue, rcv, handles>>

\* A new block and WSARecv, which also fails at once after a reset.
ReceiveNext(w) ==
  /\ wpc[w] = "recv"
  /\ rcv' = IF conn[ioInfo[w].clnt] = "reset" THEN rcv ELSE rcv \cup {ioInfo[w].clnt}
  /\ Goes(w, Order.recv)
  /\ UNCHANGED <<netVars, queue, snd, handles>>

\* A send has completed: free(ioInfo), and return 0.
FreeBlock(w) ==
  /\ wpc[w] = "free"
  /\ Goes(w, "ended")
  /\ UNCHANGED <<netVars, queue, rcv, snd, handles>>

Worker(w) ==
  Get(w) \/ CloseClient(w) \/ SendBack(w) \/ ReceiveNext(w) \/ FreeBlock(w)
System(c) == RecvCompletes(c) \/ SendCompletes(c)

Step ==
  \/ AcceptOne
  \/ \E w \in Workers : Worker(w)
  \/ \E c \in Clients : System(c)

\* The clients a worker is sending to or receiving from, and has not let go of.
Serving == {ioInfo[w].clnt : w \in {v \in Workers : wpc[v] \in {"send", "recv", "close"}}}

NoWorkerLeft == \A w \in Workers : wpc[w] = "ended"

TypeOK ==
  /\ rcv \subseteq Clients /\ handles \subseteq Clients
  /\ snd \in [Clients -> Nat]
  /\ wpc \in [Workers -> {"get", "send", "recv", "close", "free", "ended"}]
=============================================================================
