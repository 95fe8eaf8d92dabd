----------------------------- MODULE EpollServer -----------------------------
(***************************************************************************)
(* echo_EPLTserv.c: epoll_wait fills an array with every descriptor that   *)
(* is readable (level-triggered), and the loop serves the entries one by   *)
(* one: an accept, or one read and one blocking write.  Descriptors need   *)
(* no numbers here: an entry names the socket it was registered with.      *)
(***************************************************************************)
EXTENDS EchoNet

VARIABLES
  pc,      \* "wait", "events", "write"
  epfd,    \* sockets registered with epoll_ctl
  events,  \* entries of ep_events still to be served
  cur      \* the entry being served

epollVars == <<pc, epfd, events, cur>>

serv_sock == 0

Init ==
  /\ pc = "wait"
  /\ epfd = {serv_sock}
  /\ events = {}
  /\ cur = serv_sock

Pending(s) == IF s = serv_sock THEN Backlog # {} ELSE Readable(s)

\* epoll_wait, without a timeout.
Wait ==
  /\ pc = "wait"
  /\ events' = {s \in epfd : Pending(s)}
  /\ events' # {}
  /\ pc' = "events"
  /\ UNCHANGED <<netVars, epfd, cur>>

\* The next entry; their order is epoll's business.
NextEvent(s) ==
  /\ pc = "events"
  /\ s \in events
  /\ events' = events \ {s}
  /\ pc' = IF events' = {} THEN "wait" ELSE "events"

AcceptOne ==
  /\ NextEvent(serv_sock)
  /\ Backlog # {}
  /\ Accept(NextQueued)
  /\ epfd' = epfd \cup {NextQueued}
  /\ UNCHANGED cur

ReadSome(c) ==
  /\ pc = "events" /\ c \in events
  /\ ReadData(c)
  /\ events' = events \ {c}
  /\ pc' = "write"
  /\ cur' = c
  /\ UNCHANGED epfd

\* str_len = -1: the write is refused, and epoll_wait reports the socket again.
ReadFails(c) ==
  /\ NextEvent(c)
  /\ ReadReset(c)
  /\ UNCHANGED <<epfd, cur>>

\* EPOLL_CTL_DEL without close.
ReadZeroForgotten(c) ==
  /\ NextEvent(c)
  /\ AtEof(c)
  /\ epfd' = epfd \ {c}
  /\ UNCHANGED <<netVars, cur>>

\* EPOLL_CTL_DEL and close.
ReadZero(c) ==
  /\ NextEvent(c)
  /\ AtEof(c)
  /\ epfd' = epfd \ {c}
  /\ Close(c)
  /\ UNCHANGED cur

Write ==
  /\ pc = "write"
  /\ WriteBlocking(cur)
  /\ IF held'[cur] > 0 THEN UNCHANGED <<pc, cur>>
     ELSE /\ pc' = IF events = {} THEN "wait" ELSE "events"
          /\ cur' = serv_sock
  /\ UNCHANGED <<epfd, events>>

Step ==
  \/ Wait \/ AcceptOne \/ Write
  \/ \E c \in Clients : ReadSome(c) \/ ReadFails(c) \/ ReadZero(c)

Waits ==
  /\ pc = "events"
  /\ \E s \in events : IF s = serv_sock THEN Backlog = {} ELSE NothingToRead(s)

TypeOK ==
  /\ pc \in {"wait", "events", "write"}
  /\ epfd \subseteq Clients \cup {serv_sock}
  /\ events \subseteq epfd
  /\ cur \in Clients \cup {serv_sock}
=============================================================================
