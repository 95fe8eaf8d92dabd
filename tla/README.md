# TLA+ models of C-TCPIP-Practice

The repository is a collection of network programs written while working through a
book on TCP/IP programming: about ninety small C programs for Linux (`src/Linux`) and
Windows (`src/Window`), with notes in `src/MD`. Most are sequential demonstrations of
one system call. The ones that can go wrong in ways a test hardly reaches are the
concurrent servers and the synchronisation examples; they are what is modelled here.

## Inventory

| Part | Sources | State it keeps | Operations and interactions | Hard behaviour | What makes it correct |
|---|---|---|---|---|---|
| Threaded chat server | `Linux/18…/chat_server.c`, `Window/20…ChatServer`, their clients | array of descriptors and its length, a mutex, main's `clnt_sock` shared by address | accept, register, start a thread per client; read, broadcast to all, remove, close | threads race on `clnt_sock`, writes block under the mutex, descriptors are reused while stale entries remain, resets and SIGPIPE | one order of broadcasts, everyone registered is served, the count is exact, the mutex is always released |
| Semaphore hand-off | `Linux/18…/semaphore.c`, `Window/20…SyncSema` | `num`, two semaphores | one thread reads numbers, one adds them | overwriting or adding twice, posts lost at the maximum count, both waiting | strict alternation, every number added once |
| Shared counters | `mutex.c`, `SyncCS_win.c`, `SyncMutex_win.c`; without a lock `thread3.c`, `thread4.c`, `thread3_win.c` | `num`, a lock | threads add or subtract in a loop, main joins and prints | lost updates between coarse and fine locking, starvation, printing too early | no update is lost, 0 is printed, the program ends |
| Multi-process echo | `Linux/10…/echo_mpserv.c`, `echo_mpclient.c` | process tables, descriptors copied by fork, one pending SIGCHLD bit | accept, fork, close, serve; handler reaps; client's two processes write and read | signals between any two steps, fork failure, ends of file that need every copy closed | data comes back whole, ends of file arrive, sockets are released, zombies are reaped |
| Storing echo server | `Linux/11…/echo_storeserv.c` | a pipe, a stdio buffer, a file | children also write to the pipe, a storage process reads it and `fwrite`s; SIGINT flushes | a full pipe, children that die half-way, SIGINT reaching the processes one by one | per client the file is a gapless beginning of what was sent; what was echoed gets there |
| Multiplexed echo servers | `Linux/12…/echo_selectserv.c`, `Linux/17…/echo_EPLTserv.c`, `echo_EPETserv.c`, `Window/12…` | interest set, ready list | wait, scan, accept, read, echo, close | readiness that is stale, edges that are missed, short writes | no read waits for a silent client, every unit is echoed, only clients that have left are closed |
| WSAEventSelect server | `Window/21…` | parallel arrays of sockets and events | wait, scan, accept, read, close and compact | the arrays change under the scan | no socket is lost, starved or paired with another's event |
| Completion-routine server | `Window/23_IOCP_CmpRouEchoServ` | two blocks per client | routines started from `SleepEx` | a receive or a send in flight; a buffer that shrinks | blocks live as long as the socket, echo in order |
| IOCP server | `Window/23_IOCP_IOCPEchoServ` | blocks per handle and per operation | workers take completions from the port | completions of one client on two workers | no socket is used after it is closed; every message is answered (it is not) |
| Sequential programs: first programs, echo, operations, file transfer, separated streams, peek, overlapped | `Linux/01`, `02`, `04`, `05`, `07`, `13`, `15`, `16`, `Window/01`, `02`, `04`, `22`, `…StableEchoClient` | a connection | request, response, half-close | messages cut up by TCP, ends of file, resets, SIGPIPE | the receiver gets exactly what was sent, nobody waits for ever |
| The rest | UDP, multicast and broadcast, out-of-band, vector I/O, socket options, `wait` and `fork` examples, first threads, event object | none shared, or one event | sequential | loss of a datagram, to which no code reacts | not modelled |

`echo_mpserv.c` (line 55) and `echo_epollserv.c` (line 55) each contain a stray token
and do not compile as committed; the former is modelled without it, the latter is left
out (`echo_EPLTserv.c` is the finished version of the same loop).

`PROJECT.json` lists every component with its sources, and every hazard at the line where
it bites.

## Modules

| Module | Models | Kind |
|---|---|---|
| `ChatServer` | `chat_server.c` and `chat_serv_win.c`, with what their clients do to them | specification |
| `MCChatServer` | the statements of `chat_server.c`'s comments that the code does not keep | for TLC |
| `ChatServerProofs` | inductive invariant and theorems about `ChatServer` | TLAPS |
| `HandOff` | what the two-semaphore programs promise | abstract specification |
| `Semaphore`, `MCSemaphore` | `semaphore.c`, `SyncSema_win.c`; implements `HandOff` | specification |
| `SemaphoreProofs` | inductive invariant, refinement of `HandOff` | TLAPS |
| `SharedCounter`, `MCSharedCounter` | `mutex.c`, `SyncCS_win.c`, `SyncMutex_win.c`, `thread4.c` | specification |
| `SharedCounterProofs` | no lost update and the printed result, for all programs that lock | TLAPS |
| `MpEcho`, `MCMpEcho` | `echo_mpserv.c` and `echo_mpclient.c` together | specification |
| `MpEchoProofs` | inductive invariant and theorems about `MpEcho` | TLAPS |
| `EchoService` | what an echo server promises a client | abstract specification |
| `EchoNet` | the clients, and TCP as the calls of the servers meet it | shared ground |
| `SelectServer`, `SelectServerWin` | `echo_selectserv.c`, `echo_selectserv_win.c` | one server each |
| `EpollServer`, `EpollEdgeServer` | `echo_EPLTserv.c`, `echo_EPETserv.c` | one server each |
| `EventServer` | `AsynNotiEchoServ_win.c` | one server |
| `CompletionServer` | `CmplRouEchoServ_win.c` | one server |
| `PortServer` | `IOCPEchoServ_win.c` | one server |
| `EchoServers`, `MCEchoServers` | the seven servers composed with `EchoNet`; implements `EchoService` | specification |
| `EchoNetProofs` | the invariant of the connections, and what each call does to it | TLAPS |
| `EchoServersProofs` | the invariants of the seven servers, their properties, refinement of `EchoService` | TLAPS |
| `DialoguePrograms` | 30 sequential programs as the sequences of their calls, and 17 pairs of them | data |
| `Dialogue`, `MCDialogue` | what each call does; the pairs at work | specification |
| `DialogueProofs` | inductive invariant and theorems about all pairs of `Dialogue` | TLAPS |
| `StoreServer`, `MCStoreServer` | `echo_storeserv.c` | specification |
| `StoreServerProofs` | inductive invariant and theorems about `StoreServer` | TLAPS |

### ChatServer

The variables `clnt_cnt`, `clnt_socks`, `clnt_sock`, `str_len` and `i` are the program's;
`lock` is the owner of `mutx`; `pcM` and `pc[t]` say between which calls main and handler
`t` are. Each action is the code from one blocking or shared step to the next:

* `Accept` (55-56), `MainLock` (58), `Register` (62-63), `Create` (67-70);
* `Start` (80) copies main's variable, whatever it holds by then;
* `ReadCall` and `ReadReturn` are one `read` (84), split where the kernel has resolved the
  descriptor and the call waits;
* `SendLock`, `SendOne` (one iteration of 112-114), `SendUnlock`; `RemoveLock`, `Remove`
  (88-100 in one step: it runs under the mutex, touches nothing another thread reads
  without it and calls nothing that waits), `Close` (101).

`AfterRemoval` is the loop of lines 90-97 in closed form: because the inner loop tests
`i++` before it copies, the entry found at `k` stays and the entries after it move up one.

Below the code are the descriptor table (`fdtab`: accept takes the lowest free number,
`close` frees it, a call on a free number fails) and TCP as the server sees it (`conn`:
open, the peer has sent FIN, a reset is pending, a reset has been reported). `Write` says
what `write` does in each of these states: wait while `SndBuf` writes are unread, succeed,
fail, or raise SIGPIPE, which ends the process (`alive`).

Abstractions: a message is the rank of its broadcast (`bid`), because the server never
looks at the text, and `read` may merge several messages into one. A `write` that waits
looks up its descriptor again when it goes on. A `read` result of -1 leads to
`send_msg(msg, -1)`, whose writes are refused because of their length: the loop changes
nothing and is passed over, but the mutex is taken and released. `pthread_create` does not
fail. The history variables `inbox`, `audience`, `bcasts` and `bid` only record.

`system` says which of the two programs runs. Their control is the same, call by call,
with two differences. `chat_serv_win.c` hands the array itself to `closesocket` (107), so
its `Close` frees nothing (`NothingFreed`) and a number is never given out again; the
stale entries that the removal loop leaves behind stay usable. And Winsock drops what was
not read when a reset arrives (`Lost`) and reports the reset at every later call
(`AfterReset`): there is no SIGPIPE, and the handler of such a client goes round its loop
for ever (91-93), taking and releasing the mutex each time.

### Semaphore and HandOff

One action per call or statement of the two loops. `Posted` is a post that is lost at the
maximum count, which is 1 on Windows. `Scan` may leave `num` alone, as `scanf` does when
what is typed is not a number. `HO` maps a value to *entered* when `scanf` has returned
and to *added* when `sum` has it.

### SharedCounter

`num += 1` is `Load` and `Store`. `program` says what the two thread functions lock: the
whole loop, every iteration, or nothing; it is chosen in `Init`, so one run covers the
three programs that lock. `SyncCS_win.c` and `SyncMutex_win.c` lock alike (a critical
section and a mutex object that are never entered twice by one thread). main creates the
threads while the first ones already run, waits for all of them and prints.

### MpEcho

The parent's loop (`AcceptOne`, `Fork`, `ParentClose`), the handler on top of it
(`Deliver`, `Reap`: main does not move while `handling`; `sigchld` is one bit), a child per
connection (`ChildStart` to `ChildExit`) and the two processes of every client. `holders[s]`
is the set of server processes with a descriptor of socket `s`: `fork` copies whatever
the parent holds, and TCP ends the connection towards the client when the last is closed.
An `accept` that waits is interrupted by the handler and returns -1 (`Deliver` leaves the
parent at `interrupted`); `AcceptFails` is the `continue` of lines 62-63. A `write` of `str_len` units goes out as fast as the buffer takes it.
Data is counted in units, since one reader and one writer per direction keep its order by
construction; what can fail is the amount and the end of file. A connection whose fork
failed is closed by the parent; the client's `read` may first report a reset (-1, and a
write to `buf[-1]`, below this level) and then the end of file: the model has one end.

### EchoNet, EchoService and the seven servers

`EchoServers` declares the state of all servers, gives each its own by `INSTANCE ... WITH`
and chooses `kind` in the initial state; the servers share `EchoNet`, so that they are held
to the same properties against the same clients. A client sends units 1, 2, ... when it
likes, reads what comes back and may leave at any time; TCP keeps the order of what it is
given, so a connection is a few counters (`sent`, `taken`, `held`, `got`) and the sequence
`out` of what was written back. `conn` is `open`, `fin`, `reset` (arrived, not yet reported)
or `dead` (reported: on Linux the next write is SIGPIPE, the next read 0). Windows throws
away unread data when a reset arrives and reports it at every call. A blocking write
proceeds unit by unit as the send buffer has room; a non-blocking one takes what fits, and
`cut` counts what the code then forgets, because it ignores the result.

* `SelectServer`: descriptor numbers matter, so `fdtab` is the table, `Select` lines 53-65
  (a timeout leads back to the same state), one action per way through the body of the
  scan (70-98).
* `SelectServerWin`: sets are arrays here. `ToClose` is line 77, which indexes the copy
  that `select` has packed with the index into `reads`: after two clients have become
  readable in one round and the listening socket has not, the socket closed need not be
  the one just read. The following `select` then fails and ends the program (55-57).
* `EpollServer`, `EpollEdgeServer`: one action per event and outcome of `read`. For the edge
  trigger, `told[c]` is what had arrived when `epoll_wait` last reported `c`.
* `EventServer`: `Wait` is the wait on all events, `Skip` the wait of no length on one;
  `ServeEntry` handles FD_READ and FD_CLOSE of one enumeration, including the walk going
  on past the entry that has just moved up and the `break` after a close with an error.
* `CompletionServer`: `RecvCompletes` and `SendCompletes` are the system, which may finish
  an operation at any time; the routines run only while main sleeps. `len` is `wsaBuf.len`,
  which `ReadRoutine` sets and nobody restores. A client that waits in the backlog has been
  sent nothing and leaves with a FIN, so no `accept` fails because of it; the other errors
  of line 89 are lacks of resources and left out, like those of `malloc`.
* `PortServer`: the port is a queue, a worker's calls are steps of their own, so that two
  workers interleave between them. Line 137 reads the handle's block also for the
  completion of a send, possibly after line 148 has freed it: what it reads is used for
  a receive alone, and `Get` leaves that read out. `Order` is the order of `WSASend` and `WSARecv` and what
  follows them: `return 0`.

### Dialogue

`DialoguePrograms` writes each program down as its calls, one line a program: how much it
writes, whether it reads once, until a length, or until the end of file, and what it shuts
down or closes. `Dialogue` is what the calls do: `Write`, `Read` (any part of what has
arrived), `ReadAll`, `ReadEof`, `Echo`, `Peek`, `Operator`, `Shutdown`, `Close`, `NextTurn`
(the `for` over five clients; `turn` counts down from any number up to `Turns`), `Prompt`.
FIN, RST and SIGPIPE are as above, and a client still in the backlog when the server ends
is reset. Data is counted. Sizes are small numbers that keep their order: a message is
shorter than a buffer, a file is two full buffers and a part of one, a request is a count,
operands and an operator. `listen` or `connect` may fail, and then `error_handling` ends the program.

What a program makes of a call that returns -1 is part of its text, the third field of a
call (`OnError`, `Fail`): most go on to the next call, whatever it was; `echo_client2.c`
ends after a failed read (64-66) and reads nothing after a failed write, since its loop
waits for as many bytes as `write` returned (56-61); `op_server.c` adds the -1 to a length
it compares unsigned (74-80); `StableEchoClnt_win.c` adds it until the sum wraps round (62);
`file_client.c` hands it to `fwrite` as a size, which is undefined. `fgets` in
`echo_stdclnt.c` (56) returns NULL at the end of file and after a reset alike, and the
client prints its own old line and prompts.

`InStep` therefore exempts, for `echo_stdclnt.c` and `StableEchoClnt_win.c`, the client a
server has left in its backlog (`Forsaken`): a server that ends after its last turn has it
reset, and the client turns to its user without its answer. Two clients and servers of
one turn reach that case. `echo_client2.c` keeps in step there, too.

### StoreServer

main (`AcceptOne`, `Fork`, and `Reap`, the SIGCHLD handler), a child per client
(`ChildRead`, `ChildEchoes`, `ChildPipes`: line 102 comes before 103, so a child that dies
of SIGPIPE has not stored what it read), the storage process (`StorageRead`,
`StorageWrite`) and Ctrl-C: `Interrupt` makes SIGINT pending for every process and each
handles it in its own time. `stdio` is the buffer of `fp`, `file` what has reached
`receive.txt`. In main and the children the handler calls `fclose` on a stream that main
has closed before (undefined; the process ends either way and had nothing to flush); in
the storage process it may run in the middle of `fwrite` (any part of the buffer is there).
The fork of the storage process is not checked by the code: `pcS = "never"` is that case.

The storage process holds the write end of its own pipe, so its `read` never returns 0 and
lines 76 and 81-111 are never reached by it: the model has no such action. Across clients
the file need not have the order in which messages were delivered: a child may be
overtaken between lines 101 and 103.

## Runs

| Run | Bounds | Shows |
|---|---|---|
| `chat_broadcast` | both programs, 2 accepts, 2 messages, 1 unread write | `LockInv`, `SameOrder`, `ArrayOnlyByHolder`, and `LockReleased` under fairness |
| `chat_churn` | both programs, 3 accepts, 1 message, 1 unread write | `TypeOK`, `CountInv`, `AudienceServed` |
| `chat_thread` | the Linux program, 2 accepts | `ServesAddedClient` fails: the race on `clnt_sock` |
| `chat_removal` | the Linux program, 2 accepts | `RemovesDisconnected` fails: the removal loop |
| `semaphore` | 5 rounds, 3 numbers and a failing `scanf`, maximum 2 | `TypeOK`, `OneToken`, `ImplementsHandOff` with liveness |
| `shared_counter` | 4 threads, 3 iterations | `TypeOK`, `NoLostUpdate`, `ResultPrinted`, `Terminates` |
| `mp_echo` | 2 clients, one sends 2 units, buffers of 2 | `OnlyOwnSockets`, `EchoComplete`, `ReaperFindsChild`, and `AllAccepted`, `QuitEnds`, `SocketFreed` under fairness |
| `mp_zombies` | 2 clients that send nothing | `NoZombieStays` fails: two children, one handler call |
| `echo_servers` | 2 clients, the first sends 3 units; reads of 2, send buffers of 1, 2 workers | the ten properties below, for all seven servers |
| `iocp_workers` | the completion port server, same bounds | `MessagesAfterTheFirst` fails: workers that return |
| `dialogue` | 17 pairs of programs, 2 clients, 1 or 2 turns, 2 messages | `InStep`, `WholeTransfer`, `RequestComplete`, `DiesOfUnreadAnswer`, and `Finishes` under fairness |
| `store_server` | 2 clients of 2 and 1 units, a pipe and a stdio buffer of 2 | `InLine`, and `Stored` under fairness |

What `echo_servers` shows. `PromiseKept`: every server implements `EchoService` (the client's
units in order, each once; only the two that write without waiting leave units out).
`NeverWaits`: no single-threaded server calls an `accept` or a `read` that would wait.
`ClosesOnlyTheGone`: a socket is closed only after its client has left (not
`echo_selectserv_win.c`, see `ToClose`). `UsesOnlyOpenSockets`, `ArraysAgree`, `BlocksLive`:
the workers, the two arrays, and the blocks of the completion routines stay consistent.
`PoliteClientsAreSafe`: clients that have read what they were owed when they leave never
end the server (again not `echo_selectserv_win.c`, which ends when `select` finds the
socket it has closed by mistake). `Served`: what is sent comes back, also when it is announced only once.
`Released`: the socket of a client that has left is closed in the end. On Windows a reset
is exempt: `echo_selectserv_win.c` reads an error for ever, `AsynNotiEchoServ_win.c` leaves
its loop before the entry is removed (118-120), and the completion servers ignore a call
that fails at once. `Served` and `Released` are not claimed of the completion port server
once its workers have returned.

What `dialogue` shows. Clients that count what they read stay in step with their server;
clients that read once (`echo_client.c`, `echo_client_win.c`) need not, and they are the
ones whose server can die of SIGPIPE. Receivers that read to the end of file have the
whole file, and the half-close still lets the thank-you through. `op_server.c` computes
only when the operator has come; `me_op_server.c`, which reads each operand once, need
not. `Finishes` leaves out three pairs: `test_echo_server.c` and its client wait for each
other's end of file by design, `echo_server_win.c` loops on SOCKET_ERROR after a reset, and
so may `StableEchoClnt_win.c` when the server has ended with the client in its backlog.

Why these bounds are enough. In the chat server, two handlers and two messages are the
least in which broadcasts compete and interleave with a client that goes; three accepts
are the least in which a number freed by `close` is given to a later client while a stale
entry still holds it. One unread write is enough for a write to block. The semaphore run
uses the programs' own five rounds and a maximum of 2, so that a second post would be
seen. Four threads have two of each kind, so a thread of one kind competes with both;
three iterations put one in the middle of a loop. In the echo server two children are what
it takes to merge two signals and to inherit a descriptor; two units in a buffer of two
let a read return part or all of the data and a write go out in pieces; the second client
only connects and leaves, because the clients meet in the parent only. For the seven
servers, three units against reads of two and a send buffer of one are the least in which
data stays behind after a read, a write finds the buffer full, and a receive follows a
send; a second client makes the ready sets and arrays have two clients and a listening
socket, so that removing one moves another. It sends nothing: what it would send is
handled as the first client's is, and the runs of each server alone with a unit of its own
show nothing more. Two workers are the least that overlap. In the dialogues, messages of
two units can be cut, two messages can run into each other, and two clients take turns, or one
of them is left in the backlog by a server of one turn.
In the storing server the pipe is full with one read of a child, and the stdio buffer
overflows with the third unit.

Fairness. Threads and processes of the programs are weakly fair: the scheduler runs a
thread that can go on. For the chat server this includes a thread that waits for the
mutex only in the weak sense (it must be free for ever to be owed), which is all
`LockReleased` needs. A client's receiving side keeps reading: `chat_client.c` and
`echo_mpclient.c` have a thread or a process that does nothing else. Nobody has to
connect, type, or leave. `scanf` returns.

For the seven servers, main's loop, every worker and every operation in flight are weakly
fair and clients read what comes; sending and leaving are not owed. In the dialogues every
process runs and the user answers the prompt, with a message or with q. In the storing
server the processes run and pending signals are delivered.

Deadlock is checked in the runs of the chat server, the semaphores, the counters and the
forking echo server, whose specifications name the states in which the program may rest
(`Resting`, `Finished`). The other runs end in states where every program has ended or
waits for a client that does not come; what must happen there is stated as liveness.

## What the failing runs show

* `chat_thread`: `pthread_create` gets `&clnt_sock`; the next `accept` overwrites it before
  the new thread has read it. The comment on line 65 speaks of serving the added client.
* `chat_removal`: the client at index 0 of 2 leaves; its descriptor stays in the array and
  its neighbour's is gone.
* `mp_zombies`: two children exit before the handler runs; `waitpid` is called once and
  one zombie stays, although line 36 says the code prevents zombies. `ReaperFindsChild`
  is what does hold: the handler never runs without a child to reap.
* `iocp_workers`: two workers have each taken one completion and returned (line 179 stands
  inside the loop); the client's next message is received into a port nobody reads,
  although the comment on line 159 speaks of receiving the messages that follow and
  `CH23.md:66` of threads that do the I/O of all clients.

## Proofs

TLAPS proves the following for all values of the constants that the named assumptions
allow. Each module defines an inductive invariant, of which TLC found no violation on the
instances of the runs before it was proved, and shows that Init implies it and every
step keeps it: one lemma per part or per server, one step per action.

`ChatServerProofs` (from `ChatAssumption`; both programs).
`TypeCorrect`, `MutualExclusion`, `CountCorrect`, `BroadcastOrder`, `CriticalSection`,
`EveryoneServed`. `CountInv` needs the types, that handler `t` has begun only if main has
come past its `Create`, and mutual exclusion (the two places that change the count exclude
each other). `SameOrder` needs that at most one broadcast is under way, that a connection's
inbox ends with it at the latest, and that ranks rise along every inbox: two strictly rising
sequences agree on the order of what they share. `AudienceServed` is a property of one
step, the return from a broadcast; what makes it provable is what holds in the middle
of the loop (`AudienceInv`): a client of the audience that is still connected has been
written to, or an entry ahead of the index names it. Closing or accepting a connection in
the meantime keeps that because no two descriptors name one connection (`NamesInv`).

`SemaphoreProofs` (from `SemaphoreAssumption`). `TypeCorrect`, `TakingTurns`, `Refinement`.
`OneToken` is inductive with the types; the refinement adds how the loop indexes and `sum`
lag behind.

`SharedCounterProofs` (from `CounterAssumption`). `TypeCorrect` for any programs;
`UpdatesKept` and `ResultCorrect` for programs whose functions both lock (`AllLock`, which
`ProgramsLock` shows of the three programs of the run). Whoever holds the lock has loaded
the value `num` still has. The result is a sum over all threads, which needs no
induction when iterations are counted as a set: `Made(S)` holds a pair for every iteration
made by a thread of `S`, a store adds one pair, and at the end the two sets are products
with a cardinality the library knows. Each incrementing thread follows a decrementing one,
and a last thread with an odd number has no partner.

`MpEchoProofs` (from `MpEchoAssumption`: up to five clients, the backlog). `TypeCorrect`,
`SocketsApart`, `NothingMissing`, `HandlerHasWork`. `EchoComplete` needs that units are
conserved on the way from the client's buffer through the child and back (`Conserved`), and
that a child ends only behind the end of file (`Ending`). `ReaperFindsChild` needs more than it
says: a pending signal and a running handler stand for one zombie each, two together for
two different ones (`Signals`), which is why merged signals leave zombies (`mp_zombies`)
but never call the handler in vain.

`StoreServerProofs` (from `StoreServerAssumption`: what a child reads in one call fits into
the pipe: 1024 bytes into 64 KiB). `TypeCorrect`, `NothingLostOnTheWay`. `InLine`
says of the concatenation of file, stdio buffer, storage buffer and pipe that each client's
units stand in it in order and without a gap up to what its child has piped. Every action
of the storage process cuts this sequence at one place and joins it again, which changes
nothing; only `ChildPipes` appends.

`EchoNetProofs`, `EchoServersProofs` (from `EchoNetAssumption` and `EchoServersAssumption`:
any number of clients, units and workers, any sizes of buffers). Theorems `TypeCorrect`,
`OneSilentClientStopsNobody` (`NeverWaits`), `ClosesNobodyElse` (`ClosesOnlyTheGone`),
`WorkersUseOpenSockets` (`UsesOnlyOpenSockets`), `EventsStayWithSockets` (`ArraysAgree`),
`BlocksLiveWithSockets` (`BlocksLive`), `PoliteClientsEndNobody` (`PoliteClientsAreSafe`)
and `ImplementsEchoService` (`PromiseKept`). The argument has three layers:

* The net. `NetInv` accounts for a client's units: what has been written back, forgotten
  and is still held is no more than what was read, the last unit written comes before those
  held, and a connection that ended in a reset has not read all it sent. One lemma
  per call (`ReadUpTo`, `WriteOne`, `WriteWhatFits`, `Close`, ...) keeps it and shows that
  the call is a step of `EchoService` or a stutter. `Common` adds what all servers share:
  a server that waits for room writes back all it has read before it reads again.
* One invariant per server, which says when its calls are allowed. The select and the
  level-triggered server: a descriptor found ready, and not yet reached by the scan, is
  still ready, and the table gives each descriptor to one client (`SelScan`, `LevEvents`).
  The Windows select server: what the arrays of the two sets hold. The event server: the
  two arrays hold the same clients, each once. The completion routines: a client's socket,
  its two blocks and exactly one operation in flight or completed live together
  (`CmpClient`). The completion port: a client's receive is in one place at a time, whether
  with the system, in the queue or with a worker (`OneReceive`), a worker that serves a
  client has its socket open (`OpenServed`), and what is still to be sent for a
  client comes in the order in which it was read (`Follows`, `UpToDate`).
* The composition. A step of one server leaves the state of the others alone, so that
  the seven invariants together are inductive.

`DialogueProofs` (from `DialogueAssumption`: any number of clients, one to five served in
turn). `TypeCorrect`, `StaysInStep`, `TransfersWhole`, `RequestsComplete`,
`OnlyUnreadAnswersKill`. The programs are data, so that the proof has two halves. What a
call does is proved for every program at once: each step of a client is one of nine
(`ClientDoes`), each of the server one of twelve (`ServerDoes`), and who is not concerned
by it is left as it was (`FrameSame`, `FrameElsewhere`). What a program is, is computed
from its text: shapes such as "close is the last call" (`ServerShape`, `ClientShape`),
"the client hears its answer in one place" (`PatientShape`), "it reads as much as it
writes" (`CountingShape`). The invariant (`IInv`) says of each connection, besides types
and places:

* `Stream`: what an end has written has been read by the other, is on its way, or the other
  has gone; only who has gone resets.
* `Course`: where the processes are tells what is open. The server's end of an accepted
  connection is closed exactly when the server is past its close.
* `Patience`: in the pairs whose client waits for an answer or for the end of file, the client is
  not past its read, nor gone, before the server has answered or closed. Hence the server
  of such a pair is never told of a reset before its answer.
* `Transfer`, `Asked`: what a receiver has when it goes on, and how far a request has
  been read at each place of `op_server`.
* `Echoed`, `Abreast`: an echo server writes no more than it has read; a client that counts
  is owed nothing when it turns to its user, and the server neither leaves it halfway nor
  is reset by it. Whom the server has left unaccepted (`Left`) is exempt. `InStep` alone is not inductive: while an answer is awaited one needs
  that everything not yet back belongs to the message being counted.

`DiesOfUnreadAnswer` is proved in the stronger form `Death`: only the pair of `echo_client.c`
and `echo_server.c` can kill its server. Its other pairs are excluded one kind at a time
(`KilledInTheLoop`): Windows has no SIGPIPE, clients that count or wait do not
reset before the last write, `peek_recv.c` never writes.

Some definitions were found wanting by these proofs. `Get` of the completion port server
distinguished its completions by a CASE whose guards overlapped (the completion of a WSASend
also carries 0 bytes), and so did `After` of the counters; both are now IF and ELSE, as in
the code (for `DialogueProofs` the eight calls of a client that prompts are written out,
`Typed`, where they were put together by concatenation). `InLine` used to be stated with the
subsequence of each client and is now stated by positions. The lowest free descriptor and
the packing done by `select` on Windows are now predicates that say what they satisfy.

Only model-checked. Liveness (`LockReleased`, `Terminates`, `AllAccepted`, `QuitEnds`,
`SocketFreed`, `Served`, `Released`, `Finishes`, `Stored`, the fairness part of
`ImplementsHandOff`), because the proof system handles neither fairness nor ENABLED.
Every invariant and every step property of the passing runs is proved.

What the proofs take over from the models is what they say about TCP: a send buffer that
holds what these programs write, and the two bounds of `DialoguePrograms` (two messages
typed, small sizes), which are part of the program texts.

## Plan

Done: all models and, for every safety property of the runs, its proof. What could be
added: the datagram programs with loss (`udp_echo_client.c` waits for ever for an answer
that is lost), and servers of `DialoguePrograms` whose clients type any number of messages.

## Not modelled

UDP and multicast programs (a datagram sent and one awaited: nothing reacts to loss),
out-of-band data and vector I/O, socket options, the `fork`, `wait` and zombie
demonstrations (the handler of `remove_zombie.c` is that of `MpEcho`), file and standard
I/O in one process, the first thread programs, the event object, `echo_epollserv.c`.
`thread3.c`, `thread4.c` and `thread3_win.c` have no run of their own, since the notes
themselves present them as wrong (`SharedCounter` with no lock is `thread4.c`).

Limits that are left out: the 256 places of the chat server's array, the 64 places of the
event server's arrays and of `fd_set` on Windows, the backlog of 5, failures of `select`,
`epoll_wait` and `malloc`.
