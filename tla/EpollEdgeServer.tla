--------------------------- MODULE EpollEdgeServer ---------------------------
(***************************************************************************)
(* echo_EPETserv.c: clients are registered with EPOLLET and their sockets  *)
(* do not block.  epoll_wait reports a client only when something has      *)
(* arrived since it last did, so the loop reads until EAGAIN; and a write  *)
(* takes what fits in the send buffer, the rest of buf is forgotten.       *)
(***************************************************************************)
EXTENDS EchoNet

VARIABLES
  pc,      \* "wait", "events", "read", "write"
  epfd,    \* sockets registered with epoll_ctl
  events,  \* entries of ep_events still to be served
  cur,     \* the entry being served
  told     \* what had arrived from c when epoll_wait last looked at it

edgeVars == <<pc, epfd, events, cur, told>>

serv_sock == 0

Init ==
  /\ pc = "wait"
  /\ epfd = {serv_sock}
  /\ events = {}
  /\ cur = serv_sock
  /\ told = [c \in Clients |-> <<0, FALSE>>]

Arrived(c) == <<sent[c], Gone(c)>>

\* The listening socket is level-triggered, a client edge-triggered.
Pending(s) ==
  IF s = serv_sock THEN Backlog # {} ELSE Readable(s) /\ told[s] # Arrived(s)

Wait ==
  /\ pc = "wait"
  /\ events' = {s \in epfd : Pending(s)}
  /\ events' # {}
  /\ told' = [c \in Clients |-> IF c \in epfd THEN Arrived(c) ELSE told[c]]
  /\ pc' = "events"
  /\ UNCHANGED <<netVars, epfd, cur>>

AfterEvent(left) == IF left = {} THEN "wait" ELSE "events"

\* accept, O_NONBLOCK, EPOLL_CTL_ADD with EPOLLIN | EPOLLET.
AcceptOne ==
  /\ pc = "events" /\ serv_sock \in events
  /\ Accept(NextQueued)
  /\ epfd' = epfd \cup {NextQueued}
  /\ events' = events \ {serv_sock}
  /\ pc' = AfterEvent(events')
  /\ UNCHANGED <<cur, told>>

\* The entry of a client: enter the inner loop.
NextEvent(c) ==
  /\ pc = "events" /\ c \in events
  /\ events' = events \ {c}
  /\ cur' = c
  /\ pc' = "read"
  /\ UNCHANGED <<netVars, epfd, told>>

LeaveLoop ==
  /\ pc' = AfterEvent(events)
  /\ cur' = serv_sock
  /\ UNCHANGED <<events, told>>

ReadSome ==
  /\ pc = "read"
  /\ ReadData(cur)
  /\ pc' = "write"
  /\ UNCHANGED <<epfd, events, cur, told>>

\* EAGAIN taken for the end of the connection.
ReadNothingCloses ==
  /\ pc = "read"
  /\ NothingToRead(cur)
  /\ epfd' = epfd \ {cur}
  /\ Close(cur)
  /\ LeaveLoop

\* EAGAIN ends the loop.
ReadNothing ==
  /\ pc = "read"
  /\ NothingToRead(cur)
  /\ LeaveLoop
  /\ UNCHANGED <<netVars, epfd>>

\* -1 for another reason: read again.
ReadFails ==
  /\ pc = "read"
  /\ ReadReset(cur)
  /\ UNCHANGED edgeVars

ReadZero ==
  /\ pc = "read"
  /\ AtEof(cur)
  /\ epfd' = epfd \ {cur}
  /\ Close(cur)
  /\ LeaveLoop

WriteAndLeave == WriteNonBlocking(cur) /\ LeaveLoop
WriteAndReadOn ==
  /\ WriteNonBlocking(cur)
  /\ pc' = "read"
  /\ UNCHANGED <<events, cur, told>>

Write ==
  /\ pc = "write"
  /\ WriteAndReadOn
  /\ UNCHANGED epfd

Step ==
  \/ Wait \/ AcceptOne \/ ReadSome \/ ReadNothing \/ ReadFails \/ ReadZero \/ Write
  \/ \E c \in Clients : NextEvent(c)

TypeOK ==
  /\ pc \in {"wait", "events", "read", "write"}
  /\ epfd \subseteq Clients \cup {serv_sock}
  /\ events \subseteq epfd
  /\ cur \in Clients \cup {serv_sock}
  /\ told \in [Clients -> Nat \X BOOLEAN]
=============================================================================
