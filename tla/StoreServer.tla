----------------------------- MODULE StoreServer -----------------------------
(***************************************************************************)
(* echo_storeserv.c: the forking echo server of chapter 10 with a storage  *)
(* process.  A child writes what it has read back to its client and then   *)
(* into one pipe; the storage process reads the pipe and fwrites to fp.    *)
(* Every process of the server holds both ends of the pipe, the storage    *)
(* process the write end too: its read never returns 0 and no write to the *)
(* pipe meets a broken pipe.  What fp buffers reaches receive.txt when     *)
(* stdio likes, or when Ctrl-C runs ctrl_childProc in the storage process. *)
(*                                                                         *)
(* The first fork is not checked: without a storage process the server     *)
(* serves until the pipe is full.  A write of at most BUF_SIZE to the pipe *)
(* is not cut.                                                             *)
(***************************************************************************)
EXTENDS Integers, Sequences, FiniteSets

CONSTANTS
  MaxUnits,   \* MaxUnits[c]: bound, the units client c sends
  Buf,        \* BUF_SIZE, in units
  PipeSize,   \* units the pipe holds before a write to it waits
  StdioSize   \* units fp buffers

Clients == DOMAIN MaxUnits
Main    == 0
Storage == -1
Procs   == Clients \cup {Main, Storage}

ASSUME StoreServerAssumption ==
  /\ MaxUnits \in Seq(Nat)
  /\ Buf \in Nat \ {0} /\ PipeSize \in Nat /\ StdioSize \in Nat \ {0}
  /\ Buf <= PipeSize

VARIABLES
  pcM,       \* main: "accept", "fork", "ended"
  clnt_sock, \* the client main has accepted
  sigchld,   \* SIGCHLD is pending for main
  pcC,       \* the child of c: "none", "read", "echo", "pipe", "zombie", "reaped"
  pcS,       \* the storage process: "read", "write", "ended", "never"
  sigint,    \* processes for which SIGINT is pending
  hit,       \* Ctrl-C has been typed
  conn,      \* the connection as the server's end sees it
  sent,      \* units c has sent
  taken,     \* units its child has read
  held,      \* of those, what is still to be written to the pipe
  pipe,      \* the units in the pipe, as <<client, unit>>
  fileBuf,   \* what the storage process has read and not written
  stdio,     \* what fp holds
  file       \* receive.txt

mains == <<pcM, clnt_sock, sigchld>>
store == <<pcS, fileBuf, stdio, file>>
clnts == <<conn, sent>>
data  == <<taken, held>>
vars  == <<mains, pcC, store, sigint, hit, clnts, data, pipe>>

Init ==
  /\ pcM = "accept" /\ clnt_sock = Main /\ sigchld = FALSE
  /\ pcC = [c \in Clients |-> "none"]
  /\ pcS \in {"read", "never"}
  /\ sigint = {} /\ hit = FALSE
  /\ conn = [c \in Clients |-> "none"]
  /\ sent = [c \in Clients |-> 0]
  /\ taken = [c \in Clients |-> 0] /\ held = [c \in Clients |-> 0]
  /\ pipe = << >> /\ fileBuf = << >> /\ stdio = << >> /\ file = << >>

Least(m, n) == IF m < n THEN m ELSE n
Gone(c) == conn[c] \in {"fin", "reset", "dead"}
Backlog == {c \in Clients : conn[c] # "none" /\ pcC[c] = "none" /\ clnt_sock # c}
Serving == {c \in Clients : pcC[c] \in {"read", "echo", "pipe"}}
Zombies == {c \in Clients : pcC[c] = "zombie"}

-----------------------------------------------------------------------------
(* main *)

\* accept; -1, when a signal has interrupted it, only leads to the next accept.
AcceptOne ==
  /\ pcM = "accept"
  /\ \E c \in Backlog : clnt_sock' = c
  /\ pcM' = "fork"
  /\ UNCHANGED <<sigchld, pcC, store, sigint, hit, clnts, data, pipe>>

\* fork, or not; in both cases main closes clnt_sock and goes on.  A signal that
\* is pending is handled before there is a child.
Fork ==
  /\ pcM = "fork"
  /\ Main \notin sigint
  /\ \E state \in {"read", "reaped"} : pcC' = [pcC EXCEPT ![clnt_sock] = state]
  /\ pcM' = "accept" /\ clnt_sock' = Main
  /\ UNCHANGED <<sigchld, store, sigint, hit, clnts, data, pipe>>

\* read_childproc: one waitpid.
Reap ==
  /\ pcM # "ended" /\ sigchld
  /\ sigchld' = FALSE
  /\ \/ \E c \in Zombies : pcC' = [pcC EXCEPT ![c] = "reaped"]
     \/ Zombies = {} /\ UNCHANGED pcC
  /\ UNCHANGED <<pcM, clnt_sock, store, sigint, hit, clnts, data, pipe>>

MainStep == AcceptOne \/ Fork \/ Reap

-----------------------------------------------------------------------------
(* The child of client c *)

ChildEnds(c) == pcC' = [pcC EXCEPT ![c] = "zombie"] /\ sigchld' = TRUE
Goes(c, to)  == pcC' = [pcC EXCEPT ![c] = to] /\ UNCHANGED sigchld

\* Passes on a buffer full, whatever the read has brought.
ChildReadsBuffer(c) ==
  /\ pcC[c] = "read" /\ sent[c] > taken[c]
  /\ taken' = [taken EXCEPT ![c] = @ + Least(Buf, sent[c] - @)]
  /\ held' = [held EXCEPT ![c] = Buf]
  /\ Goes(c, "echo")
  /\ UNCHANGED <<pcM, clnt_sock, store, sigint, hit, clnts, pipe>>

ChildRead(c) ==
  /\ pcC[c] = "read" /\ sent[c] > taken[c]
  /\ taken' = [taken EXCEPT ![c] = @ + Least(Buf, sent[c] - @)]
  /\ held' = [held EXCEPT ![c] = taken'[c] - taken[c]]
  /\ Goes(c, "echo")
  /\ UNCHANGED <<pcM, clnt_sock, store, sigint, hit, clnts, pipe>>

\* -1: both writes of -1 bytes are refused, and the child reads again.
ChildReadFails(c) ==
  /\ pcC[c] = "read" /\ sent[c] = taken[c] /\ conn[c] = "reset"
  /\ conn' = [conn EXCEPT ![c] = "dead"]
  /\ UNCHANGED <<mains, pcC, store, sigint, hit, sent, data, pipe>>

ChildReadsEnd(c) ==
  /\ pcC[c] = "read" /\ sent[c] = taken[c] /\ conn[c] \in {"fin", "dead"}
  /\ ChildEnds(c)
  /\ UNCHANGED <<pcM, clnt_sock, store, sigint, hit, clnts, data, pipe>>

\* The write to the client.  One that has closed answers with a reset, sooner or
\* later; a write after that has been reported is SIGPIPE, before the pipe is
\* written.  (That a client may not read for a long time is MpEcho's subject.)
ChildEchoes(c) ==
  /\ pcC[c] = "echo"
  /\ \/ /\ conn[c] # "dead"
        /\ conn' \in IF Gone(c) THEN {[conn EXCEPT ![c] = "dead"], [conn EXCEPT ![c] =
                            IF @ = "reset" THEN "dead" ELSE @]} ELSE {conn}
        /\ Goes(c, "pipe")
     \/ /\ conn[c] = "dead"
        /\ ChildEnds(c)
        /\ UNCHANGED conn
  /\ UNCHANGED <<pcM, clnt_sock, store, sigint, hit, sent, data, pipe>>

\* The write to the pipe, once there is room for all of it.
ChildPipes(c) ==
  /\ pcC[c] = "pipe"
  /\ Len(pipe) + held[c] <= PipeSize
  /\ pipe' = pipe \o [k \in 1..held[c] |-> <<c, taken[c] - held[c] + k>>]
  /\ held' = [held EXCEPT ![c] = 0]
  /\ Goes(c, "read")
  /\ UNCHANGED <<pcM, clnt_sock, store, sigint, hit, clnts, taken>>

Child(c) ==
  \/ ChildRead(c) \/ ChildReadFails(c) \/ ChildReadsEnd(c) \/ ChildEchoes(c) \/ ChildPipes(c)

-----------------------------------------------------------------------------
(* The storage process *)

StorageRead ==
  /\ pcS = "read" /\ pipe # << >>
  /\ LET n == Least(Buf, Len(pipe)) IN
       /\ fileBuf' = SubSeq(pipe, 1, n)
       /\ pipe' = SubSeq(pipe, n + 1, Len(pipe))
  /\ pcS' = "write"
  /\ UNCHANGED <<mains, pcC, stdio, file, sigint, hit, clnts, data>>

FirstOnly == IF fileBuf = << >> THEN << >> ELSE <<Head(fileBuf)>>
AllOfIt   == fileBuf

\* fwrite: what fits stays in the buffer; once it overflows, whole buffers go to
\* the file and the rest stays.
Fwrite ==
  LET all == stdio \o AllOfIt
      k   == IF Len(all) <= StdioSize THEN 0 ELSE (Len(all) \div StdioSize) * StdioSize IN
  /\ file' = file \o SubSeq(all, 1, k)
  /\ stdio' = SubSeq(all, k + 1, Len(all))

WriteOnce ==
  /\ pcS = "write"
  /\ Fwrite
  /\ fileBuf' = << >>
  /\ pcS' = "ended"
  /\ UNCHANGED <<mains, pcC, sigint, hit, clnts, data, pipe>>

StorageWrite ==
  /\ pcS = "write"
  /\ Fwrite
  /\ fileBuf' = << >>
  /\ pcS' = "read"
  /\ UNCHANGED <<mains, pcC, sigint, hit, clnts, data, pipe>>

StorageStep == StorageRead \/ StorageWrite

-----------------------------------------------------------------------------
(* Ctrl-C: SIGINT for every process there is, each in its own time. *)

Interrupt ==
  /\ ~hit
  /\ hit' = TRUE
  /\ sigint' = {Main} \cup Serving \cup (IF pcS \in {"read", "write"} THEN {Storage} ELSE {})
  /\ UNCHANGED <<mains, pcC, store, clnts, data, pipe>>

\* ctrl_childProc in main and in the children: fclose of an fp that main has
\* closed long ago, which is undefined; whether that or exit(1) ends the process,
\* it has nothing to flush.
MainInterrupted ==
  /\ Main \in sigint
  /\ sigint' = sigint \ {Main}
  /\ pcM' = "ended"
  /\ UNCHANGED <<clnt_sock, sigchld, pcC, store, hit, clnts, data, pipe>>

ChildInterrupted(c) ==
  /\ c \in sigint
  /\ sigint' = sigint \ {c}
  /\ IF c \in Serving THEN ChildEnds(c) ELSE UNCHANGED <<pcC, sigchld>>
  /\ UNCHANGED <<pcM, clnt_sock, store, hit, clnts, data, pipe>>

\* In the storage process fclose writes out the buffer.  A handler that runs in
\* the middle of fwrite finds any part of fileBuf there.
StorageInterrupted ==
  /\ Storage \in sigint
  /\ sigint' = sigint \ {Storage}
  /\ \E k \in 0..Len(fileBuf) :
       /\ pcS = "read" => k = 0
       /\ file' = file \o stdio \o SubSeq(fileBuf, 1, k)
       /\ fileBuf' = SubSeq(fileBuf, k + 1, Len(fileBuf))
  /\ stdio' = << >>
  /\ pcS' = "ended"
  /\ UNCHANGED <<mains, pcC, hit, clnts, data, pipe>>

Handler == MainInterrupted \/ StorageInterrupted \/ \E c \in Clients : ChildInterrupted(c)

-----------------------------------------------------------------------------
(* The clients: connect, send, and leave with or without reading everything. *)

Connect(c) ==
  /\ conn[c] = "none"
  /\ \A d \in Clients : d < c => conn[d] # "none"
  /\ conn' = [conn EXCEPT ![c] = "open"]
  /\ UNCHANGED sent
Send(c) ==
  /\ conn[c] = "open" /\ sent[c] < MaxUnits[c]
  /\ sent' = [sent EXCEPT ![c] = @ + 1]
  /\ UNCHANGED conn
Leave(c) ==
  /\ conn[c] = "open"
  /\ \E how \in {"fin", "reset"} : conn' = [conn EXCEPT ![c] = how]
  /\ UNCHANGED sent

Client(c) ==
  /\ Connect(c) \/ Send(c) \/ Leave(c)
  /\ UNCHANGED <<mains, pcC, store, sigint, hit, data, pipe>>

Next ==
  \/ MainStep \/ StorageStep \/ Interrupt \/ Handler
  \/ \E c \in Clients : Child(c) \/ Client(c)

\* The processes are scheduled and signals are delivered.
Fairness ==
  /\ WF_vars(MainStep) /\ WF_vars(StorageStep) /\ WF_vars(Handler)
  /\ \A c \in Clients : WF_vars(Child(c))

Spec == Init /\ [][Next]_vars /\ Fairness

-----------------------------------------------------------------------------
(* Properties *)

TypeProcs ==
  /\ pcM \in {"accept", "fork", "ended"} /\ clnt_sock \in Clients \cup {Main}
  /\ sigchld \in BOOLEAN /\ hit \in BOOLEAN /\ sigint \subseteq Procs
  /\ pcC \in [Clients -> {"none", "read", "echo", "pipe", "zombie", "reaped"}]
  /\ pcS \in {"read", "write", "ended", "never"}
  /\ conn \in [Clients -> {"none", "open", "fin", "reset", "dead"}]

TypeAmounts ==
  /\ {sent, taken, held} \subseteq [Clients -> Nat]
  /\ \A c \in Clients :
       sent[c] <= MaxUnits[c] /\ taken[c] <= sent[c] /\ held[c] <= Least(Buf, taken[c])

TypeStore ==
  /\ {pipe, fileBuf, stdio, file} \subseteq Seq(Clients \X Nat)
  /\ Len(pipe) <= PipeSize /\ Len(fileBuf) <= Buf /\ Len(stdio) <= StdioSize

\* Types and ranges: no buffer is overrun.
TypeOK == TypeProcs /\ TypeAmounts /\ TypeStore

\* What the children have written to the pipe, from the file back to the pipe.
Stream == file \o stdio \o fileBuf \o pipe

\* A client's units stand in a sequence in the order they were sent, each once.
InOrder(units) ==
  \A p, q \in DOMAIN units :
    p < q /\ units[p][1] = units[q][1] => units[p][2] < units[q][2]

\* The first n[c] units of every client are there, and no others.
Gapless(units, n) ==
  \A c \in Clients :
    {units[p][2] : p \in {q \in DOMAIN units : units[q][1] = c}} = 1..n[c]

Piped == [c \in Clients |-> taken[c] - held[c]]

\* What the children have written to the pipe is in the file or on its way there,
\* each client's in the order it was sent, once, without a gap (CH11.md:23), also
\* after children have died in the middle and while Ctrl-C takes the processes
\* down one after the other.
InLine == InOrder(Stream) /\ Gapless(Stream, Piped)

Of(c, units) == SelectSeq(units, LAMBDA u : u[1] = c)

\* What a child has written to its client or is about to write to the pipe.
Echoed(c) == IF pcC[c] = "pipe" THEN taken[c] ELSE taken[c] - held[c]

\* What has been echoed gets into the storage process's stream (not yet into the
\* file), unless Ctrl-C comes first or there is no storage process.
Stored ==
  \A c \in Clients : \A n \in 1..MaxUnits[c] :
    Echoed(c) >= n ~> Len(Of(c, file \o stdio)) >= n \/ hit \/ pcS = "never"
=============================================================================
