------------------------------ MODULE ChatServer ------------------------------
(***************************************************************************)
(* The multi-threaded chat server of chapter 18 (chat_server.c), and the   *)
(* same program for Windows of chapter 20 (chat_serv_win.c): system says   *)
(* which of the two is running.                                            *)
(*                                                                         *)
(* main accepts a connection into its local variable clnt_sock, registers  *)
(* the descriptor in the shared array clnt_socks under the mutex mutx and  *)
(* creates a thread to which it passes the ADDRESS of clnt_sock.  The      *)
(* thread (handle_clnt) copies the descriptor, broadcasts whatever it      *)
(* reads to every registered descriptor (send_msg, under mutx) and, at end *)
(* of file, takes its descriptor out of the array and closes it.           *)
(*                                                                         *)
(* Below the code stand the descriptor table (accept returns the lowest    *)
(* free number, close frees it, a call on a free number fails with EBADF)  *)
(* and TCP (end of file, reset, a full send buffer, SIGPIPE), modelled     *)
(* from the calls the code makes.  A message is only its rank among the    *)
(* broadcasts: what it says is never looked at by the server.              *)
(***************************************************************************)
EXTENDS Integers, Sequences, FiniteSets

CONSTANTS
  Systems,     \* the programs this instance looks at
  MaxAccepts,  \* bound: how often accept returns
  MaxSends,    \* bound: how many messages the clients send in all
  SndBuf       \* how many undelivered writes a connection holds before write blocks

ASSUME ChatAssumption ==
  /\ Systems \subseteq {"Linux", "Windows"}
  /\ MaxAccepts \in 1..255       \* MAX_CLNT is 256: the array is never overrun
  /\ MaxSends \in Nat
  /\ SndBuf \in Nat \ {0}

Threads == 1..MaxAccepts         \* thread k is created after the k-th accept
Conns   == 1..MaxAccepts         \* connection k is what the k-th accept returned
Fds     == 1..MaxAccepts         \* descriptors of connections
Main    == 0                     \* the main thread, as owner of mutx
Free    == -1                    \* mutx is not held
NoConn  == 0                     \* a descriptor that is not open
BadFd   == -1                    \* what a failed accept returns
Slots   == 0..MaxAccepts         \* the indexes of clnt_socks the code can touch

VARIABLES
  system,      \* which program runs
  \* the process
  lock,        \* owner of mutx
  clnt_cnt, clnt_socks,          \* the registered descriptors
  clnt_sock,   \* main's local variable, shared with the threads by address
  accepts,     \* how often accept has returned
  pcM,         \* where main is
  pc,          \* where thread t is
  sock,        \* handle_clnt's own clnt_sock
  file,        \* the connection a thread's read call is waiting on
  str_len,     \* what read returned: -1, 0, or 1 for any positive length
  i,           \* send_msg's loop index
  alive,       \* FALSE once SIGPIPE has terminated the process
  \* the kernel and the clients
  fdtab,       \* descriptor -> connection
  conn,        \* state of a connection, as the server's end sees it
  pending,     \* messages of a client the server has not read yet
  unread,      \* writes to a client the client has not read yet
  sends,       \* messages sent so far, all clients together
  \* history
  bcasts,      \* broadcasts begun so far
  bid,         \* rank of the broadcast thread t is making
  audience,    \* connections registered when the running broadcast began
  inbox        \* ranks of the broadcasts written to a connection, in order

shared  == <<clnt_cnt, clnt_socks>>
threads == <<pc, sock, file, str_len, i>>
net     == <<fdtab, conn, pending, unread, sends>>
hist    == <<bcasts, bid, audience, inbox>>
vars    == <<system, lock, shared, clnt_sock, accepts, pcM, threads, alive, net, hist>>

Init ==
  /\ system \in Systems
  /\ lock = Free
  /\ clnt_cnt = 0
  /\ clnt_socks = [k \in Slots |-> 0]
  /\ clnt_sock = BadFd                       \* indeterminate until accept assigns it
  /\ accepts = 0
  /\ pcM = "accept"
  /\ pc = [t \in Threads |-> "none"]
  /\ sock = [t \in Threads |-> BadFd]
  /\ file = [t \in Threads |-> NoConn]
  /\ str_len = [t \in Threads |-> 0]
  /\ i = [t \in Threads |-> 0]
  /\ alive = TRUE
  /\ fdtab = [f \in Fds |-> NoConn]
  /\ conn = [c \in Conns |-> "none"]
  /\ pending = [c \in Conns |-> 0]
  /\ unread = [c \in Conns |-> 0]
  /\ sends = 0
  /\ bcasts = 0
  /\ bid = [t \in Threads |-> 0]
  /\ audience = {}
  /\ inbox = [c \in Conns |-> << >>]

Transition(t, from, to) ==
  /\ pc[t] = from
  /\ pc' = [pc EXCEPT ![t] = to]

\* The connection behind a descriptor, NoConn when the number is not open.
ConnOf(f) == IF f \in Fds THEN fdtab[f] ELSE NoConn

\* What the array holds.
Registered == {clnt_socks[k] : k \in 0..clnt_cnt - 1}

\* pthread_mutex_lock and pthread_mutex_unlock on mutx.
AcquireWithoutWaiting(p) == lock' = p
Acquire(p) == lock = Free /\ lock' = p

ReleaseForgotten == UNCHANGED lock
Release == lock' = Free

-----------------------------------------------------------------------------
(* main *)

\* accept succeeds: the lowest free descriptor now names the new connection.
AcceptOk ==
  /\ \E f \in Fds :
       /\ fdtab[f] = NoConn
       /\ \A g \in Fds : g < f => fdtab[g] # NoConn
       /\ fdtab' = [fdtab EXCEPT ![f] = accepts + 1]
       /\ clnt_sock' = f
  /\ conn' = [conn EXCEPT ![accepts + 1] = "open"]

\* accept fails (out of descriptors, connection aborted): -1, and no check.
AcceptFails ==
  /\ clnt_sock' = BadFd
  /\ UNCHANGED <<fdtab, conn>>

Accept ==
  /\ alive
  /\ pcM = "accept"
  /\ accepts < MaxAccepts
  /\ AcceptOk \/ AcceptFails
  /\ accepts' = accepts + 1
  /\ pcM' = "lock"
  /\ UNCHANGED <<system, lock, shared, threads, alive, pending, unread, sends, hist>>

MainLock ==
  /\ alive
  /\ pcM = "lock"
  /\ Acquire(Main)
  /\ pcM' = "register"
  /\ UNCHANGED <<shared, clnt_sock, accepts, system, threads, alive, net, hist>>

CountNotIncremented == clnt_cnt
CountAfterAdding == clnt_cnt + 1

\* clnt_socks[clnt_cnt++] = clnt_sock, and the unlock.
Register ==
  /\ alive
  /\ pcM = "register"
  /\ clnt_socks' = [clnt_socks EXCEPT ![clnt_cnt] = clnt_sock]
  /\ clnt_cnt' = CountAfterAdding
  /\ Release
  /\ pcM' = "create"
  /\ UNCHANGED <<clnt_sock, accepts, system, threads, alive, net, hist>>

\* pthread_create with &clnt_sock, pthread_detach, and back to accept.
Create ==
  /\ alive
  /\ pcM = "create"
  /\ Transition(accepts, "none", "start")
  /\ pcM' = "accept"
  /\ UNCHANGED <<lock, shared, clnt_sock, accepts, system, sock, file, str_len, i,
                 alive, net, hist>>

MainStep == MainLock \/ Register \/ Create

-----------------------------------------------------------------------------
(* handle_clnt *)

\* clnt_sock = *((int * )arg): whatever main's variable holds by now.
Start(t) ==
  /\ alive
  /\ Transition(t, "start", "read")
  /\ sock' = [sock EXCEPT ![t] = clnt_sock]
  /\ UNCHANGED <<lock, shared, clnt_sock, accepts, system, pcM, file, str_len, i,
                 alive, net, hist>>

\* The kernel resolves read's descriptor once; a number that is not open is -1
\* at once, and -1 is not 0: the loop goes on to send_msg(msg, -1).
ReadCall(t) ==
  /\ alive
  /\ \/ /\ ConnOf(sock[t]) # NoConn
        /\ Transition(t, "read", "reading")
        /\ file' = [file EXCEPT ![t] = ConnOf(sock[t])]
        /\ UNCHANGED str_len
     \/ /\ ConnOf(sock[t]) = NoConn
        /\ Transition(t, "read", "send_lock")
        /\ str_len' = [str_len EXCEPT ![t] = -1]
        /\ UNCHANGED file
  /\ UNCHANGED <<lock, shared, clnt_sock, accepts, system, pcM, sock, i, alive, net, hist>>

\* Windows throws away what has arrived when a reset does, and reports the reset
\* at every call from then on: its handler of such a client never ends.
Windows == system = "Windows"
Lost(c) == Windows /\ conn[c] = "reset"
AfterReset == IF Windows THEN "reset" ELSE "dead"

\* Data first; then a reset is reported as -1; then end of file, 0.
ReadReturn(t) ==
  LET c == file[t] IN
  /\ alive
  /\ \/ /\ pc[t] = "reading" /\ pending[c] > 0 /\ ~Lost(c)
        /\ Transition(t, "reading", "send_lock")
        /\ \E n \in 1..pending[c] : pending' = [pending EXCEPT ![c] = @ - n]
        /\ str_len' = [str_len EXCEPT ![t] = 1]
        /\ UNCHANGED conn
     \/ /\ pc[t] = "reading" /\ conn[c] = "reset"
        /\ pending[c] = 0 \/ Lost(c)
        /\ Transition(t, "reading", "send_lock")
        /\ conn' = [conn EXCEPT ![c] = AfterReset]
        /\ str_len' = [str_len EXCEPT ![t] = -1]
        /\ UNCHANGED pending
     \/ /\ pc[t] = "reading" /\ pending[c] = 0 /\ conn[c] \in {"fin", "dead"}
        /\ Transition(t, "reading", "remove_lock")
        /\ str_len' = [str_len EXCEPT ![t] = 0]
        /\ UNCHANGED <<conn, pending>>
  /\ file' = [file EXCEPT ![t] = NoConn]
  /\ UNCHANGED <<lock, shared, clnt_sock, accepts, system, pcM, sock, i, alive,
                 fdtab, unread, sends, hist>>

RemoveLock(t) ==
  /\ alive
  /\ Acquire(t)
  /\ Transition(t, "remove_lock", "remove")
  /\ UNCHANGED <<shared, clnt_sock, accepts, system, pcM, sock, file, str_len, i,
                 alive, net, hist>>

\* The removal loop.  Its inner loop tests i++ before it copies, so when the
\* descriptor is found at k the entries k+1..clnt_cnt-1 each take their
\* successor's value and entry k itself stays.
AfterRemoval(f) ==
  LET hits == {k \in 0..clnt_cnt - 1 : clnt_socks[k] = f} IN
  [j \in Slots |->
     IF (\E k \in hits : k < j) /\ j <= clnt_cnt - 1
       THEN clnt_socks[j + 1] ELSE clnt_socks[j]]

CountIfFound(f) == IF f \in Registered THEN clnt_cnt - 1 ELSE clnt_cnt
CountAfterRemoval(f) == clnt_cnt - 1

\* Remove from the array, clnt_cnt-- whether or not it was found, unlock.
Remove(t) ==
  /\ alive
  /\ Transition(t, "remove", "close")
  /\ clnt_socks' = AfterRemoval(sock[t])
  /\ clnt_cnt' = CountAfterRemoval(sock[t])
  /\ Release
  /\ UNCHANGED <<clnt_sock, accepts, system, pcM, sock, file, str_len, i, alive, net, hist>>

\* close: frees whatever connection the number names by now.
Freed(t) == [f \in Fds |-> IF f = sock[t] THEN NoConn ELSE fdtab[f]]

\* closesocket(clntSocks): the address of the array is no socket, nothing is closed.
NothingFreed == fdtab

Close(t) ==
  /\ alive
  /\ Transition(t, "close", "done")
  /\ fdtab' = IF Windows THEN NothingFreed ELSE Freed(t)
  /\ UNCHANGED <<lock, shared, clnt_sock, accepts, system, pcM, sock, file, str_len, i,
                 alive, conn, pending, unread, sends, hist>>

-----------------------------------------------------------------------------
(* send_msg *)

SendLock(t) ==
  /\ alive
  /\ Acquire(t)
  /\ Transition(t, "send_lock", "send")
  /\ i' = [i EXCEPT ![t] = 0]
  /\ bcasts' = bcasts + (IF str_len[t] = 1 THEN 1 ELSE 0)
  /\ bid' = [bid EXCEPT ![t] = bcasts']
  /\ audience' = {ConnOf(f) : f \in Registered} \ {NoConn}
  /\ UNCHANGED <<shared, clnt_sock, accepts, system, pcM, sock, file, str_len,
                 alive, net, inbox>>

\* A write of a message to connection c.  Nothing is open: EBADF, ignored.  The
\* send buffer is full: the call waits, mutex held.  The peer has closed: the
\* write succeeds and is answered with a reset, which has or has not arrived by
\* the next call.  A pending reset is reported as an error; on Linux a write after
\* that raises SIGPIPE, which nothing catches.
Write(c, m) ==
  \/ /\ c = NoConn
     /\ UNCHANGED <<inbox, unread, conn, alive>>
  \/ /\ c # NoConn /\ conn[c] = "open" /\ unread[c] < SndBuf
     /\ inbox' = [inbox EXCEPT ![c] = Append(@, m)]
     /\ unread' = [unread EXCEPT ![c] = @ + 1]
     /\ UNCHANGED <<conn, alive>>
  \/ /\ c # NoConn /\ conn[c] = "fin"
     /\ \E s \in {"fin", AfterReset} : conn' = [conn EXCEPT ![c] = s]
     /\ UNCHANGED <<inbox, unread, alive>>
  \/ /\ c # NoConn /\ conn[c] = "reset"
     /\ conn' = [conn EXCEPT ![c] = AfterReset]
     /\ UNCHANGED <<inbox, unread, alive>>
  \/ /\ c # NoConn /\ conn[c] = "dead"
     /\ alive' = FALSE
     /\ UNCHANGED <<inbox, unread, conn>>

\* Where the loop over the array stops.
LastOneMissed == clnt_cnt - 1
SendEnd == clnt_cnt

\* One iteration of the loop.  A length of -1 is refused before it reaches the
\* socket, so the whole loop of send_msg(msg, -1) changes nothing.
SendOne(t) ==
  /\ alive
  /\ pc[t] = "send"
  /\ str_len[t] = 1
  /\ i[t] < SendEnd
  /\ Write(ConnOf(clnt_socks[i[t]]), bid[t])
  /\ i' = [i EXCEPT ![t] = @ + 1]
  /\ UNCHANGED <<lock, shared, clnt_sock, accepts, system, pcM, pc, sock, file, str_len,
                 fdtab, pending, sends, bcasts, bid, audience>>

\* The loop is over: unlock, and back to read.  The locals of the call are gone
\* and str_len is dead until read assigns it again.
SendUnlock(t) ==
  /\ alive
  /\ str_len[t] = 1 => i[t] >= SendEnd
  /\ Transition(t, "send", "read")
  /\ Release
  /\ i' = [i EXCEPT ![t] = 0]
  /\ str_len' = [str_len EXCEPT ![t] = 0]
  /\ bid' = [bid EXCEPT ![t] = 0]
  /\ audience' = {}
  /\ UNCHANGED <<shared, clnt_sock, accepts, system, pcM, sock, file, alive, net,
                 bcasts, inbox>>

ThreadStep(t) ==
  \/ Start(t) \/ ReadCall(t) \/ ReadReturn(t)
  \/ SendLock(t) \/ SendOne(t) \/ SendUnlock(t)
  \/ RemoveLock(t) \/ Remove(t) \/ Close(t)

-----------------------------------------------------------------------------
(* The clients, as chat_client.c and chat_clnt_win.c use the connection. *)

\* send_msg of chat_client.c writes a line.
ClientSend(c) ==
  /\ alive
  /\ conn[c] = "open"
  /\ sends < MaxSends
  /\ sends' = sends + 1
  /\ pending' = [pending EXCEPT ![c] = @ + 1]
  /\ UNCHANGED <<lock, shared, clnt_sock, accepts, system, pcM, threads, alive,
                 fdtab, conn, unread, hist>>

\* recv_msg of chat_client.c reads what has arrived.
ClientRecv(c) ==
  /\ alive
  /\ unread[c] > 0
  /\ unread' = [unread EXCEPT ![c] = @ - 1]
  /\ UNCHANGED <<lock, shared, clnt_sock, accepts, system, pcM, threads, alive,
                 fdtab, conn, pending, sends, hist>>

\* The client closes and exits: TCP sends FIN, or RST when data is left unread.
ClientLeave(c) ==
  /\ alive
  /\ conn[c] = "open"
  /\ conn' = [conn EXCEPT ![c] = IF unread[c] = 0 THEN "fin" ELSE "reset"]
  /\ unread' = [unread EXCEPT ![c] = 0]
  /\ UNCHANGED <<lock, shared, clnt_sock, accepts, system, pcM, threads, alive,
                 fdtab, pending, sends, hist>>

\* Where the program may rest: killed, or every thread waits for a client.
Resting ==
  /\ \/ ~alive
     \/ /\ pcM = "accept" /\ accepts = MaxAccepts
        /\ \A t \in Threads :
             \/ pc[t] = "done"
             \/ pc[t] = "reading" /\ conn[file[t]] = "open" /\ pending[file[t]] = 0
  /\ UNCHANGED vars

Next ==
  \/ Accept
  \/ MainStep
  \/ \E t \in Threads : ThreadStep(t)
  \/ \E c \in Conns : ClientSend(c) \/ ClientRecv(c) \/ ClientLeave(c)
  \/ Resting

\* Every thread of the process is scheduled, and chat_client's receiving thread
\* keeps reading; nobody has to connect, to speak or to leave.
Fairness ==
  /\ WF_vars(MainStep)
  /\ \A t \in Threads : WF_vars(ThreadStep(t))
  /\ \A c \in Conns : WF_vars(ClientRecv(c))

Spec == Init /\ [][Next]_vars /\ Fairness

-----------------------------------------------------------------------------
(* Properties *)

TypeProcess ==
  /\ system \in Systems
  /\ lock \in Threads \cup {Main, Free}
  /\ accepts \in 0..MaxAccepts
  /\ clnt_cnt \in 0..accepts
  /\ clnt_socks \in [Slots -> Fds \cup {0, BadFd}]
  /\ clnt_sock \in Fds \cup {BadFd}
  /\ pcM \in {"accept", "lock", "register", "create"}
  /\ alive \in BOOLEAN

TypeThreads ==
  /\ pc \in [Threads -> {"none", "start", "read", "reading", "send_lock", "send",
                         "remove_lock", "remove", "close", "done"}]
  /\ sock \in [Threads -> Fds \cup {BadFd}]
  /\ file \in [Threads -> Conns \cup {NoConn}]
  /\ str_len \in [Threads -> {-1, 0, 1}]
  /\ i \in [Threads -> 0..MaxAccepts]

TypeNet ==
  /\ fdtab \in [Fds -> Conns \cup {NoConn}]
  /\ conn \in [Conns -> {"none", "open", "fin", "reset", "dead"}]
  /\ pending \in [Conns -> Nat]
  /\ unread \in [Conns -> Nat]
  /\ sends \in 0..MaxSends

TypeHist ==
  /\ bcasts \in Nat
  /\ bid \in [Threads -> Nat]
  /\ audience \subseteq Conns
  /\ inbox \in [Conns -> Seq(Nat)]

\* Types and ranges: in particular clnt_cnt is never negative and never more
\* than the number of clients accepted, so the array is never overrun.
TypeOK == TypeProcess /\ TypeThreads /\ TypeNet /\ TypeHist

\* mutx is held by exactly the thread that is in a critical section: main
\* between lines 58 and 63, a handler between 88 and 100 or 110 and 115.
LockInv ==
  /\ lock = Main <=> pcM = "register"
  /\ \A t \in Threads : lock = t <=> pc[t] \in {"send", "remove"}

\* clnt_cnt counts the accepted clients whose handler has not removed itself:
\* every registration is undone exactly once, whatever the removal loop found.
Serving ==
  {t \in Threads :
     /\ t < accepts \/ (t = accepts /\ pcM \in {"create", "accept"})
     /\ pc[t] \notin {"close", "done"}}
CountInv == clnt_cnt = Cardinality(Serving)

\* Any two clients see the broadcasts they both receive in the same order, even
\* when handlers compete for mutx: send_msg holds it over the whole loop.
SameOrder ==
  \A c, d \in Conns : \A j, k \in DOMAIN inbox[c] : \A m, n \in DOMAIN inbox[d] :
    j < k /\ m < n => ~(/\ inbox[c][j] = inbox[d][n]
                       /\ inbox[c][k] = inbox[d][m]
                       /\ inbox[c][j] # inbox[c][k])

\* When send_msg returns, every client that was registered when it took the mutex
\* and is still connected has been sent the message, whoever joined, left or was
\* disconnected while the loop waited in write.
AudienceServed ==
  [][\A t \in Threads : pc[t] = "send" /\ pc'[t] = "read" /\ str_len[t] = 1 =>
       \A c \in audience : conn[c] = "open" /\ (\E f \in Fds : fdtab[f] = c) =>
         \E k \in DOMAIN inbox[c] : inbox[c][k] = bid[t]]_vars

\* The comment on lines 18-19: the array and its length are changed by a step of the
\* thread that holds mutx, and no loop of send_msg is under way then.
ArrayOnlyByHolder ==
  [][/\ \/ lock = Main /\ pcM' # pcM
        \/ \E t \in Threads : lock = t /\ pc'[t] # pc[t]
     /\ \A t \in Threads : pc[t] # "send"]_shared

\* mutx is always released again: a client that stops reading for a while, or
\* leaves in the middle of a broadcast, delays the server but never wedges it.
LockReleased == lock # Free ~> (lock = Free \/ ~alive)
=============================================================================
