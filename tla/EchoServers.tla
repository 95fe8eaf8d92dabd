----------------------------- MODULE EchoServers -----------------------------
(***************************************************************************)
(* The seven single-process echo servers of chapters 12, 17, 21, 22 and 23 *)
(* in front of the same clients.  They differ in how they find out that    *)
(* something can be done (select, epoll by level or by edge, events,       *)
(* completion routines, a completion port) and are held to one promise,    *)
(* EchoService.  kind is chosen in the initial state.                      *)
(***************************************************************************)
EXTENDS EchoNet

CONSTANTS
  Kinds,               \* the servers this instance looks at
  NumberOfProcessors   \* worker threads of the completion port server

ASSUME EchoServersAssumption ==
  /\ Kinds \subseteq {"select", "select_win", "epoll", "edge", "async", "cmplrou", "iocp"}
  /\ NumberOfProcessors \in Nat

VARIABLES
  \* the program counters of the servers, one each
  pcSel, pcWin, pcLev, pcEdge, pcEvt, pcCmp,
  \* echo_selectserv.c
  fdtab, reads, cpy_reads, fd_max, iSel,
  \* echo_selectserv_win.c
  readArr, cpyArr, ready, iWin,
  \* echo_EPLTserv.c, echo_EPETserv.c
  epLev, evLev, curLev, epEdge, evEdge, curEdge, told,
  \* AsynNotiEchoServ_win.c
  hSockArr, hEventArr, iEvt, closeSeen,
  \* CmplRouEchoServ_win.c
  op, len, failed, blocks,
  \* IOCPEchoServ_win.c
  queue, rcv, snd, wpc, ioInfo, handles

Sel  == INSTANCE SelectServer WITH pc <- pcSel, i <- iSel
Win  == INSTANCE SelectServerWin
          WITH pc <- pcWin, reads <- readArr, cpyReads <- cpyArr, i <- iWin
Lev  == INSTANCE EpollServer WITH pc <- pcLev, epfd <- epLev, events <- evLev, cur <- curLev
Edge == INSTANCE EpollEdgeServer
          WITH pc <- pcEdge, epfd <- epEdge, events <- evEdge, cur <- curEdge
Evt  == INSTANCE EventServer WITH pc <- pcEvt, i <- iEvt
Cmp  == INSTANCE CompletionServer WITH pc <- pcCmp
Port == INSTANCE PortServer

selectVars     == <<pcSel, fdtab, reads, cpy_reads, fd_max, iSel>>
selectWinVars  == <<pcWin, readArr, cpyArr, ready, iWin>>
levelVars      == <<pcLev, epLev, evLev, curLev>>
edgeVars       == <<pcEdge, epEdge, evEdge, curEdge, told>>
eventVars      == <<pcEvt, hSockArr, hEventArr, iEvt, closeSeen>>
completionVars == <<pcCmp, op, len, failed, blocks>>
portVars       == <<queue, rcv, snd, wpc, ioInfo, handles>>
serverVars == <<selectVars, selectWinVars, levelVars, edgeVars, eventVars, completionVars,
                portVars>>
vars == <<kind, netVars, serverVars>>

Init ==
  /\ kind \in Kinds
  /\ NetInit
  /\ Sel!Init /\ Win!Init /\ Lev!Init /\ Edge!Init /\ Evt!Init /\ Cmp!Init /\ Port!Init

SelectStep ==
  /\ kind = "select" /\ alive
  /\ Sel!Step
  /\ UNCHANGED <<kind, selectWinVars, levelVars, edgeVars, eventVars, completionVars, portVars>>
SelectWinStep ==
  /\ kind = "select_win" /\ alive
  /\ Win!Step
  /\ UNCHANGED <<kind, selectVars, levelVars, edgeVars, eventVars, completionVars, portVars>>
LevelStep ==
  /\ kind = "epoll" /\ alive
  /\ Lev!Step
  /\ UNCHANGED <<kind, selectVars, selectWinVars, edgeVars, eventVars, completionVars, portVars>>
EdgeStep ==
  /\ kind = "edge" /\ alive
  /\ Edge!Step
  /\ UNCHANGED <<kind, selectVars, selectWinVars, levelVars, eventVars, completionVars, portVars>>
EventStep ==
  /\ kind = "async" /\ alive
  /\ Evt!Step
  /\ UNCHANGED <<kind, selectVars, selectWinVars, levelVars, edgeVars, completionVars, portVars>>

OthersThanCompletion == <<kind, selectVars, selectWinVars, levelVars, edgeVars, eventVars, portVars>>
CompletionMain ==
  kind = "cmplrou" /\ alive /\ Cmp!MainStep /\ UNCHANGED OthersThanCompletion
CompletionOf(c) ==
  /\ kind = "cmplrou" /\ alive
  /\ Cmp!Routine(c) \/ Cmp!System(c)
  /\ UNCHANGED OthersThanCompletion

OthersThanPort ==
  <<kind, selectVars, selectWinVars, levelVars, edgeVars, eventVars, completionVars>>
PortMain == kind = "iocp" /\ alive /\ Port!AcceptOne /\ UNCHANGED OthersThanPort
PortWorker(w) == kind = "iocp" /\ alive /\ Port!Worker(w) /\ UNCHANGED OthersThanPort
PortSystem(c) == kind = "iocp" /\ alive /\ Port!System(c) /\ UNCHANGED OthersThanPort

Client(c) == alive /\ ClientStep(c) /\ UNCHANGED <<kind, serverVars>>
Reading(c) == alive /\ Receive(c) /\ UNCHANGED <<kind, serverVars>>

\* The loop of the server's main thread, and the operations it has in flight.
MainLoop ==
  \/ SelectStep \/ SelectWinStep \/ LevelStep \/ EdgeStep \/ EventStep
  \/ CompletionMain \/ PortMain
InFlight(c) == CompletionOf(c) \/ PortSystem(c)

Next ==
  \/ MainLoop
  \/ \E c \in Clients : InFlight(c) \/ Client(c)
  \/ \E w \in Port!Workers : PortWorker(w)

\* Every thread of a server is scheduled, the system completes what it can, and
\* a client reads what comes back.  Nobody has to connect, to send or to leave.
Fairness ==
  /\ WF_vars(MainLoop)
  /\ \A c \in Clients : WF_vars(InFlight(c)) /\ WF_vars(Reading(c))
  /\ \A w \in Port!Workers : WF_vars(PortWorker(w))

Spec == Init /\ [][Next]_vars /\ Fairness

-----------------------------------------------------------------------------
(* Properties *)

\* Types and ranges of the net and of every server.
TypeOK ==
  /\ TypeNet
  /\ Sel!TypeOK /\ Win!TypeOK /\ Lev!TypeOK /\ Edge!TypeOK
  /\ Evt!TypeOK /\ Cmp!TypeOK /\ Port!TypeOK

\* These two write with sockets that do not block and ignore what send returns.
NonBlocking == kind \in {"edge", "async"}

\* Whatever it is made of, a server writes back to a client that client's units,
\* in order and each once; only the two that do not wait leave units out.
Promise == INSTANCE EchoService WITH lossy <- NonBlocking
PromiseKept == Promise!Spec

\* A server that serves several clients in one thread calls an accept or a read
\* that can wait only when there is something for it: one silent client must not
\* stop the others (echo_selectserv.c:71 looks in the copy, not in reads).
NeverWaits ==
  CASE kind = "select"     -> ~Sel!Waits
    [] kind = "select_win" -> ~Win!Waits
    [] kind = "epoll"      -> ~Lev!Waits
    [] OTHER               -> TRUE

\* A server closes only connections whose client has left.  The exception is
\* echo_selectserv_win.c, where line 77 indexes the copy instead of reads.
ClosesOnlyTheGone ==
  kind # "select_win" => \A c \in Clients : sst[c] = "closed" => Gone(c)

\* Workers of the completion port send to, receive from and close only sockets
\* that are open, although another worker may hold the end of file of the same
\* client: the next receive is started only after the answer.
UsesOnlyOpenSockets == \A c \in Port!Serving : sst[c] = "open" /\ c \in handles

\* Taking an entry out of the middle keeps every event beside its socket.
ArraysAgree == Evt!ArraysAgree

\* Completion routines: a client's blocks live as long as its socket.
BlocksLive == kind = "cmplrou" => Cmp!BlocksLive

\* Clients that leave with everything they sent echoed and read never end the
\* server.  (A write to one that has not may: SIGPIPE, or exit(1) on Windows.)
\* Exempt is select_win, which closes the wrong socket (echo_selectserv_win.c:77) and
\* ends when the next select finds it in the set.
PoliteClientsAreSafe ==
  ~alive /\ kind # "select_win" => \E c \in Clients : Gone(c) /\ got[c] < sent[c]

\* Nothing more is to be expected: the process has ended, or its workers have.
Over == ~alive \/ (kind = "iocp" /\ Port!NoWorkerLeft)

\* What a client has sent comes back, unless the client leaves; a unit that is
\* announced only once (edge trigger, one FD_READ, one completion) included.
Answered(c) == got[c] + cut[c] = sent[c]
Served ==
  \A c \in Clients :
    conn[c] = "open" ~> Answered(c) \/ Gone(c) \/ sst[c] = "closed" \/ Over

\* The server closes its socket for every client that has left.  On Windows a
\* reset is seen only as the error of a call, which most of these servers ignore.
Released ==
  \A c \in Clients :
    Gone(c) ~> sst[c] = "closed" \/ Over \/ (Windows /\ conn[c] = "reset")
=============================================================================
