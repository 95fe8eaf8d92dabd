----------------------------- MODULE EventServer -----------------------------
(***************************************************************************)
(* AsynNotiEchoServ_win.c: WSAEventSelect ties an event object to every    *)
(* socket and makes the socket non-blocking.  Sockets and events stand in  *)
(* two parallel arrays; main waits for any event, then tries each index    *)
(* from there on, and takes the entry of a closed client out of both       *)
(* arrays in the middle of that walk, so the entry that moves up is not    *)
(* looked at this time.                                                    *)
(*                                                                         *)
(* Winsock records FD_READ and signals the event when data is there, and   *)
(* again after a recv that leaves some; it records FD_CLOSE once.          *)
(* Enumerating the events of a socket resets its event.                    *)
(***************************************************************************)
EXTENDS EchoNet

VARIABLES
  pc,         \* "wait", "scan"
  hSockArr,   \* numOfClntSock is its length
  hEventArr,  \* an event is named by the socket it was created for
  i,          \* loop index, from 1 here
  closeSeen   \* clients whose FD_CLOSE has been enumerated

eventVars == <<pc, hSockArr, hEventArr, i, closeSeen>>

hServSock == 0

Init ==
  /\ pc = "wait"
  /\ hSockArr = <<hServSock>>
  /\ hEventArr = <<hServSock>>
  /\ i = 1
  /\ closeSeen = {}

FdRead(c)  == Unread(c) > 0
FdClose(c) == Gone(c) /\ c \notin closeSeen
Signaled(e) == IF e = hServSock THEN Backlog # {} ELSE FdRead(e) \/ FdClose(e)

\* WSAWaitForMultipleEvents: the lowest signaled index is where the walk starts.
Wait ==
  /\ pc = "wait"
  /\ \E k \in DOMAIN hEventArr :
       /\ Signaled(hEventArr[k])
       /\ \A j \in 1..k - 1 : ~Signaled(hEventArr[j])
       /\ i' = k
  /\ pc' = "scan"
  /\ UNCHANGED <<netVars, hSockArr, hEventArr, closeSeen>>

AtEntry == pc = "scan" /\ i <= Len(hSockArr)

\* The wait of no length on one event times out: continue.
Skip ==
  /\ AtEntry
  /\ ~Signaled(hEventArr[i])
  /\ i' = i + 1
  /\ UNCHANGED <<netVars, pc, hSockArr, hEventArr, closeSeen>>

Rewind == pc' = "wait" /\ i' = 1

EndScan ==
  /\ pc = "scan" /\ i > Len(hSockArr)
  /\ Rewind
  /\ UNCHANGED <<netVars, hSockArr, hEventArr, closeSeen>>

\* FD_ACCEPT: the new socket and its event go to the end of the arrays.
AcceptOne ==
  /\ AtEntry /\ Signaled(hEventArr[i])
  /\ hSockArr[i] = hServSock
  /\ Accept(NextQueued)
  /\ hSockArr' = Append(hSockArr, NextQueued)
  /\ hEventArr' = Append(hEventArr, NextQueued)
  /\ i' = i + 1
  /\ UNCHANGED <<pc, closeSeen>>

\* FD_READ: one recv, one send, both without waiting.  The send can fail, or
\* take only what fits; the code looks at neither.
Answer(c) ==
  LET n == Least(Buf, Unread(c))
      m == IF conn[c] = "open" THEN Least(n, Room(c)) ELSE 0 IN
  /\ taken' = [taken EXCEPT ![c] = @ + n]
  /\ out' = [out EXCEPT ![c] = @ \o Units(taken[c], m)]
  /\ cut' = [cut EXCEPT ![c] = @ + n - m]
  /\ UNCHANGED <<alive, conn, sent, held, got>>

\* The entries behind idx move up by one.
CompressSockets(arr, idx) == SubSeq(arr, 1, idx - 1) \o SubSeq(arr, idx + 1, Len(arr))

SocketTakenOut(c) ==
  /\ sst' = [sst EXCEPT ![c] = "closed"]
  /\ hSockArr' = CompressSockets(hSockArr, i)
  /\ hEventArr' = SubSeq(hEventArr, 1, Len(hEventArr) - 1)

TakenOut(c) ==
  /\ sst' = [sst EXCEPT ![c] = "closed"]
  /\ hSockArr' = CompressSockets(hSockArr, i)
  /\ hEventArr' = CompressSockets(hEventArr, i)

\* What the enumeration has recorded for a client: perhaps both.  A close that
\* carries an error ends the walk and leaves the entry where it is.
ServeEntry ==
  /\ AtEntry /\ Signaled(hEventArr[i])
  /\ hSockArr[i] # hServSock
  /\ LET c == hSockArr[i] IN
       /\ IF FdRead(c) THEN Answer(c) ELSE UNCHANGED <<alive, tcp>>
       /\ closeSeen' = IF FdClose(c) THEN closeSeen \cup {c} ELSE closeSeen
       /\ IF FdClose(c) /\ conn[c] = "fin"
            THEN TakenOut(c) ELSE UNCHANGED <<sst, hSockArr, hEventArr>>
       /\ IF FdClose(c) /\ conn[c] = "reset"
            THEN Rewind ELSE i' = i + 1 /\ UNCHANGED pc

Step == Wait \/ Skip \/ EndScan \/ AcceptOne \/ ServeEntry

\* An event always stands beside the socket it was created for.
ArraysAgree == hSockArr = hEventArr

TypeOK ==
  /\ pc \in {"wait", "scan"}
  /\ hSockArr \in Seq(Clients \cup {hServSock})
  /\ hEventArr \in Seq(Clients \cup {hServSock})
  /\ i \in 1..Len(MaxUnits) + 2
  /\ closeSeen \subseteq Clients
=============================================================================
