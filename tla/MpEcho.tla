-------------------------------- MODULE MpEcho --------------------------------
(***************************************************************************)
(* The multi-process echo server and client of chapter 10 (echo_mpserv.c,  *)
(* echo_mpclient.c).                                                       *)
(*                                                                         *)
(* The server forks a child for every connection; a handler for SIGCHLD    *)
(* calls waitpid once.  The client forks too: its child writes what is     *)
(* typed, its parent prints what comes back, over descriptors of the same  *)
(* socket.  Data is counted, not looked at: an echo server keeps its order *)
(* by construction (one reader, one writer per direction), what can go     *)
(* wrong is how much arrives, and whether the end of file ever does.       *)
(***************************************************************************)
EXTENDS Integers, FiniteSets

CONSTANTS
  MaxConns,  \* bound: clients that connect (the backlog of 5 never overflows)
  MaxSends,  \* bound: units of data each client writes
  Buf        \* units a direction of a connection holds before write blocks

ASSUME MpEchoAssumption ==
  /\ MaxConns \in 1..5
  /\ MaxSends \in [1..MaxConns -> Nat]
  /\ Buf \in Nat \ {0}

Conns  == 1..MaxConns    \* a connection, its client, and the server child that serves it
Parent == 0              \* the server process that accepts
Procs  == {Parent} \cup Conns
Serv   == 0              \* serv_sock
NoConn == 0

VARIABLES
  \* the server
  pcS,        \* where the parent is in its loop
  clnt_sock,  \* the connection the parent's clnt_sock names
  sigchld,    \* SIGCHLD is pending for the parent: one bit, it does not count
  handling,   \* the parent is in read_childproc
  pcC,        \* where child c is; "zombie" and "reaped" are its states after exit
  str_len,    \* what child c has read and not written yet
  holders,    \* processes of the server with a descriptor of a socket
  \* the clients
  writer,     \* the client's child process, in write_routine
  reader,     \* the client's parent process, in read_routine
  quit,       \* the user of client c has typed q
  sent, got,  \* units written and printed by client c
  \* TCP
  conn,       \* the connection as the server's end sees it
  up, down    \* units on their way to the server, to the client

server == <<pcS, clnt_sock, sigchld, handling, holders>>
child  == <<pcC, str_len>>
client == <<writer, reader, quit, sent, got>>
tcp    == <<conn, up, down>>
vars   == <<server, child, client, tcp>>

Init ==
  /\ pcS = "accept" /\ clnt_sock = NoConn
  /\ sigchld = FALSE /\ handling = FALSE
  /\ pcC = [c \in Conns |-> "none"] /\ str_len = [c \in Conns |-> 0]
  /\ holders = [s \in {Serv} \cup Conns |-> IF s = Serv THEN {Parent} ELSE {}]
  /\ writer = [c \in Conns |-> "none"] /\ reader = [c \in Conns |-> "none"]
  /\ quit = [c \in Conns |-> FALSE]
  /\ sent = [c \in Conns |-> 0] /\ got = [c \in Conns |-> 0]
  /\ conn = [c \in Conns |-> "none"]
  /\ up = [c \in Conns |-> 0] /\ down = [c \in Conns |-> 0]

Zombies == {c \in Conns : pcC[c] = "zombie"}
Backlog == {c \in Conns : conn[c] # "none" /\ pcC[c] = "none" /\ holders[c] = {}}

\* No process of the server has the connection's descriptor any more, so TCP has
\* told the client: end of file, or a reset if the client's data was not read.
ServerClosed(c) == pcC[c] # "none" /\ holders[c] = {}

-----------------------------------------------------------------------------
(* The parent of the server.  The handler runs on top of it. *)

AcceptOne ==
  /\ ~handling
  /\ pcS = "accept"
  /\ \E c \in Backlog :
       /\ \A d \in Backlog : c <= d
       /\ clnt_sock' = c
       /\ holders' = [holders EXCEPT ![c] = {Parent}]
  /\ pcS' = "fork"
  /\ UNCHANGED <<sigchld, handling, child, client, tcp>>

\* fork: the child gets a copy of every descriptor the parent has.
ForkOk ==
  /\ pcC' = [pcC EXCEPT ![clnt_sock] = "start"]
  /\ holders' = [s \in DOMAIN holders |->
                   IF Parent \in holders[s] THEN holders[s] \cup {clnt_sock} ELSE holders[s]]
  /\ pcS' = "close"
  /\ UNCHANGED clnt_sock

\* fork fails: close the connection and go on.
ForkFails ==
  /\ pcC' = [pcC EXCEPT ![clnt_sock] = "refused"]
  /\ holders' = [holders EXCEPT ![clnt_sock] = @ \ {Parent}]
  /\ pcS' = "accept"
  /\ clnt_sock' = NoConn

Fork ==
  /\ ~handling
  /\ pcS = "fork"
  /\ ForkOk \/ ForkFails
  /\ UNCHANGED <<sigchld, handling, str_len, client, tcp>>

DescriptorKept   == UNCHANGED holders
DescriptorClosed == holders' = [holders EXCEPT ![clnt_sock] = @ \ {Parent}]

ParentClose ==
  /\ ~handling
  /\ pcS = "close"
  /\ DescriptorClosed
  /\ pcS' = "accept"
  /\ clnt_sock' = NoConn
  /\ UNCHANGED <<sigchld, handling, child, client, tcp>>

InterruptedEnds == pcS' = "ended"
CallsAgain == pcS' = "accept"

\* accept has returned -1: continue.
AcceptFails ==
  /\ ~handling
  /\ pcS = "interrupted"
  /\ CallsAgain
  /\ UNCHANGED <<clnt_sock, sigchld, handling, holders, child, client, tcp>>

MainStep == AcceptOne \/ AcceptFails \/ Fork \/ ParentClose

\* The handler is entered: between two steps of main, or out of an accept that
\* waits, which returns -1 after it (sa_flags has no SA_RESTART).
Deliver ==
  /\ sigchld
  /\ ~handling
  /\ sigchld' = FALSE
  /\ handling' = TRUE
  /\ \/ UNCHANGED pcS
     \/ pcS = "accept" /\ Backlog = {} /\ pcS' = "interrupted"
  /\ UNCHANGED <<clnt_sock, holders, child, client, tcp>>

ReapAll == pcC' = [c \in Conns |-> IF c \in Zombies THEN "reaped" ELSE pcC[c]]
ReapOne ==
  \/ \E c \in Zombies : pcC' = [pcC EXCEPT ![c] = "reaped"]
  \/ Zombies = {} /\ UNCHANGED pcC

\* read_childproc: one waitpid for whichever child has ended.
Reap ==
  /\ handling
  /\ ReapOne
  /\ handling' = FALSE
  /\ UNCHANGED <<pcS, clnt_sock, sigchld, holders, str_len, client, tcp>>

Handler == Deliver \/ Reap

-----------------------------------------------------------------------------
(* A child of the server. *)

\* The process ends: its descriptors are closed and its parent is told.
Ends(c) ==
  /\ pcC' = [pcC EXCEPT ![c] = "zombie"]
  /\ holders' = [s \in DOMAIN holders |-> holders[s] \ {c}]
  /\ sigchld' = TRUE
  /\ UNCHANGED <<pcS, clnt_sock, handling>>

\* close(serv_sock)
ChildStart(c) ==
  /\ pcC[c] = "start"
  /\ holders' = [holders EXCEPT ![Serv] = @ \ {c}]
  /\ pcC' = [pcC EXCEPT ![c] = "read"]
  /\ UNCHANGED <<pcS, clnt_sock, sigchld, handling, str_len, client, tcp>>

\* Data first; then a reset is reported once as -1, whose write(.., -1) is
\* refused before it reaches the socket; then end of file.
ChildRead(c) ==
  /\ pcC[c] = "read"
  /\ \/ /\ up[c] > 0
        /\ \E n \in 1..up[c] :
             /\ up' = [up EXCEPT ![c] = @ - n]
             /\ str_len' = [str_len EXCEPT ![c] = n]
        /\ pcC' = [pcC EXCEPT ![c] = "write"]
        /\ UNCHANGED conn
     \/ /\ up[c] = 0 /\ conn[c] = "reset"
        /\ conn' = [conn EXCEPT ![c] = "dead"]
        /\ UNCHANGED <<pcC, str_len, up>>
     \/ /\ up[c] = 0 /\ conn[c] \in {"half", "fin", "dead"}
        /\ pcC' = [pcC EXCEPT ![c] = "close"]
        /\ UNCHANGED <<conn, str_len, up>>
  /\ UNCHANGED <<server, client, down>>

RestDropped(c) == 0
RestRepeated(c) == str_len[c]
RestOfWrite(c) == str_len[c] - 1

\* The data is written as fast as the send buffer takes it.
ChildWriteSome(c) ==
  /\ conn[c] \in {"open", "half"}
  /\ down[c] < Buf
  /\ down' = [down EXCEPT ![c] = @ + 1]
  /\ str_len' = [str_len EXCEPT ![c] = RestOfWrite(c)]
  /\ pcC' = [pcC EXCEPT ![c] = IF str_len'[c] = 0 THEN "read" ELSE "write"]
  /\ UNCHANGED <<server, client, conn, up>>

\* The client is gone.  A write it has closed for succeeds and is answered with
\* a reset, which has or has not arrived by the next call; a write after a reset
\* is an error, and the one after that raises SIGPIPE and kills the child.
ChildWriteFails(c) ==
  /\ \/ /\ conn[c] \in {"fin", "reset"}
        /\ conn' = [conn EXCEPT ![c] = "dead"]
        /\ pcC' = [pcC EXCEPT ![c] = "read"]
        /\ UNCHANGED server
     \/ /\ conn[c] = "fin"
        /\ pcC' = [pcC EXCEPT ![c] = "read"]
        /\ UNCHANGED <<conn, server>>
     \/ /\ conn[c] = "dead"
        /\ Ends(c)
        /\ UNCHANGED conn
  /\ str_len' = [str_len EXCEPT ![c] = 0]
  /\ UNCHANGED <<client, up, down>>

ChildWrite(c) == pcC[c] = "write" /\ (ChildWriteSome(c) \/ ChildWriteFails(c))

\* close(clnt_sock)
ChildClose(c) ==
  /\ pcC[c] = "close"
  /\ holders' = [holders EXCEPT ![c] = @ \ {c}]
  /\ pcC' = [pcC EXCEPT ![c] = "exit"]
  /\ UNCHANGED <<pcS, clnt_sock, sigchld, handling, str_len, client, tcp>>

\* return 0
ChildExit(c) ==
  /\ pcC[c] = "exit"
  /\ Ends(c)
  /\ UNCHANGED <<str_len, client, tcp>>

ChildStep(c) ==
  ChildStart(c) \/ ChildRead(c) \/ ChildWrite(c) \/ ChildClose(c) \/ ChildExit(c)

-----------------------------------------------------------------------------
(* A client.  Its two processes share the connection. *)

\* connect and fork; when fork fails the client only reads.
Connect(c) ==
  /\ conn[c] = "none"
  /\ \A d \in Conns : d < c => conn[d] # "none"
  /\ conn' = [conn EXCEPT ![c] = "open"]
  /\ reader' = [reader EXCEPT ![c] = "reading"]
  /\ \E w \in {"writing", "done"} : writer' = [writer EXCEPT ![c] = w]
  /\ UNCHANGED <<server, child, quit, sent, got, up, down>>

\* write_routine writes, or is killed by SIGPIPE when the server has closed.
ClientWrite(c) ==
  /\ writer[c] = "writing"
  /\ \/ /\ ~ServerClosed(c)
        /\ sent[c] < MaxSends[c]
        /\ up[c] < Buf
        /\ sent' = [sent EXCEPT ![c] = @ + 1]
        /\ up' = [up EXCEPT ![c] = @ + 1]
        /\ UNCHANGED writer
     \/ /\ ServerClosed(c)
        /\ writer' = [writer EXCEPT ![c] = "done"]
        /\ UNCHANGED <<sent, up>>
  /\ UNCHANGED <<server, child, reader, quit, got, conn, down>>

NoShutdown(c) == UNCHANGED conn
Shutdown(c) ==
  IF ServerClosed(c) THEN UNCHANGED conn ELSE conn' = [conn EXCEPT ![c] = "half"]

\* q: shutdown(SHUT_WR) and return.
Quit(c) ==
  /\ writer[c] = "writing"
  /\ Shutdown(c)
  /\ quit' = [quit EXCEPT ![c] = TRUE]
  /\ writer' = [writer EXCEPT ![c] = "closing"]
  /\ UNCHANGED <<server, child, reader, sent, got, up, down>>

\* close(sock) in the writing process: the reading one still has the socket.
WriterClose(c) ==
  /\ writer[c] = "closing"
  /\ writer' = [writer EXCEPT ![c] = "done"]
  /\ UNCHANGED <<server, child, reader, quit, sent, got, tcp>>

\* read_routine prints what arrives, and returns at the end of file.
ClientRead(c) ==
  /\ reader[c] = "reading"
  /\ \/ /\ down[c] > 0
        /\ \E n \in 1..down[c] :
             /\ down' = [down EXCEPT ![c] = @ - n]
             /\ got' = [got EXCEPT ![c] = @ + n]
        /\ UNCHANGED reader
     \/ /\ down[c] = 0
        /\ ServerClosed(c)
        /\ reader' = [reader EXCEPT ![c] = "done"]
        /\ UNCHANGED <<got, down>>
  /\ UNCHANGED <<server, child, writer, quit, sent, conn, up>>

\* Ctrl-C ends both processes: TCP sends FIN, or RST when data is left unread.
Kill(c) ==
  /\ reader[c] = "reading"
  /\ ~ServerClosed(c)
  /\ writer' = [writer EXCEPT ![c] = "done"]
  /\ reader' = [reader EXCEPT ![c] = "done"]
  /\ conn' = [conn EXCEPT ![c] = IF down[c] = 0 THEN "fin" ELSE "reset"]
  /\ down' = [down EXCEPT ![c] = 0]
  /\ UNCHANGED <<server, child, quit, sent, got, up>>

ClientStep(c) ==
  Connect(c) \/ ClientWrite(c) \/ Quit(c) \/ WriterClose(c) \/ ClientRead(c) \/ Kill(c)

\* The server waits for clients, and every client for its user.
Resting ==
  /\ pcS = "accept" /\ Backlog = {} /\ ~sigchld /\ ~handling
  /\ \A c \in Conns : pcC[c] \in {"none", "read", "refused", "zombie", "reaped"}
  /\ UNCHANGED vars

Next ==
  \/ MainStep
  \/ Handler
  \/ \E c \in Conns : ChildStep(c) \/ ClientStep(c)
  \/ Resting

\* Every process is scheduled, and a client prints what it gets; nobody has to
\* connect, to type or to press Ctrl-C.
Fairness ==
  /\ WF_vars(MainStep)
  /\ WF_vars(Handler)
  /\ \A c \in Conns : WF_vars(ChildStep(c)) /\ WF_vars(ClientRead(c))

Spec == Init /\ [][Next]_vars /\ Fairness

-----------------------------------------------------------------------------
(* Properties *)

TypeServer ==
  /\ pcS \in {"accept", "interrupted", "fork", "close"}
  /\ clnt_sock \in Conns \cup {NoConn}
  /\ sigchld \in BOOLEAN /\ handling \in BOOLEAN
  /\ pcC \in [Conns -> {"none", "refused", "start", "read", "write", "close", "exit",
                        "zombie", "reaped"}]
  /\ str_len \in [Conns -> 0..Buf]
  /\ holders \in [{Serv} \cup Conns -> SUBSET Procs]

TypeClient ==
  /\ writer \in [Conns -> {"none", "writing", "closing", "done"}]
  /\ reader \in [Conns -> {"none", "reading", "done"}]
  /\ quit \in [Conns -> BOOLEAN]
  /\ sent \in [Conns -> Nat] /\ got \in [Conns -> Nat]
  /\ \A c \in Conns : got[c] <= sent[c] /\ sent[c] <= MaxSends[c]
  /\ conn \in [Conns -> {"none", "open", "half", "fin", "reset", "dead"}]
  /\ up \in [Conns -> 0..Buf] /\ down \in [Conns -> 0..Buf]

\* Types and ranges: a client never prints more than it sent in all.
TypeOK == TypeServer /\ TypeClient

\* Lines 79-81 and 92-94: a process only holds the sockets it needs once it is
\* past its closes, so the child of one connection never keeps another alive.
OnlyOwnSockets ==
  /\ \A c, d \in Conns : d \in holders[c] => c = d
  /\ \A c \in Conns : c \in holders[Serv] => pcC[c] = "start"
  /\ \A c \in Conns : Parent \in holders[c] => clnt_sock = c

\* A client whose user has typed q sees the end of file only after everything it
\* sent has come back, however the data was cut up on its way.
EchoComplete ==
  \A c \in Conns : conn[c] = "half" /\ reader[c] = "done" /\ pcC[c] # "refused" =>
    got[c] = sent[c]

\* The handler never runs in vain: SIGCHLD is not counted, but a pending one
\* always stands for a child that has ended and has not been waited for.
ReaperFindsChild == handling => Zombies # {}

\* Every connection is taken from the backlog, in spite of accepts interrupted
\* by SIGCHLD and of forks that fail.
AllAccepted == \A c \in Conns : conn[c] = "open" ~> pcC[c] # "none"

\* Typing q ends the client: the half-close reaches the server's child, which
\* closes, and that reaches the reading process, although four processes have
\* held descriptors of the connection in the meantime.
QuitEnds == \A c \in Conns : quit[c] ~> reader[c] = "done"

\* When a client has ended, by q or by Ctrl-C, its socket is released.
SocketFreed == \A c \in Conns : reader[c] = "done" ~> ServerClosed(c)
=============================================================================
