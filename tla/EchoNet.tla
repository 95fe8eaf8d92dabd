------------------------------- MODULE EchoNet -------------------------------
(***************************************************************************)
(* The ground the echo servers of chapters 12, 17, 21, 22 and 23 stand on: *)
(* their clients, and TCP as the calls of the servers meet it.             *)
(*                                                                         *)
(* A client sends its units 1, 2, ... whenever it likes, reads what comes  *)
(* back and leaves at any time.  TCP keeps the order of what it is given,  *)
(* so a connection is how many units went in and which came out: out[c] is *)
(* what the server has written to c, of which c has read the first got[c]. *)
(***************************************************************************)
EXTENDS Integers, Sequences, FiniteSets

CONSTANTS
  MaxUnits,  \* MaxUnits[c]: bound, the units client c sends
  SndBuf,    \* how many units unread by a client fill the send buffer
  Buf        \* BUF_SIZE, in units

Clients == DOMAIN MaxUnits

ASSUME EchoNetAssumption ==
  /\ MaxUnits \in Seq(Nat)
  /\ SndBuf \in Nat \ {0}
  /\ Buf \in Nat \ {0}

VARIABLES
  kind,   \* which of the servers is running
  alive,  \* FALSE once the server process has ended
  conn,   \* the connection of c as the server's end sees it
  sst,    \* the server's socket for c
  sent,   \* units c has sent
  taken,  \* units the server has read
  held,   \* of those, what the server has in its buffer and has yet to write
  out,    \* units written to c, in order
  got,    \* how many of them c has read
  cut     \* units a write to c that would not wait has left out

tcp    == <<conn, sent, taken, held, out, got, cut>>
netVars == <<alive, sst, tcp>>

Windows == kind \in {"select_win", "async", "cmplrou", "iocp"}

NetInit ==
  /\ alive = TRUE
  /\ conn = [c \in Clients |-> "none"]
  /\ sst = [c \in Clients |-> "none"]
  /\ sent = [c \in Clients |-> 0]
  /\ taken = [c \in Clients |-> 0]
  /\ held = [c \in Clients |-> 0]
  /\ out = [c \in Clients |-> << >>]
  /\ got = [c \in Clients |-> 0]
  /\ cut = [c \in Clients |-> 0]

Gone(c) == conn[c] \in {"fin", "reset", "dead"}

\* What a read would find.  Windows throws data away when a reset arrives.
Unread(c) == IF Windows /\ conn[c] = "reset" THEN 0 ELSE sent[c] - taken[c]

\* What select, epoll and the completion of a receive go by.
Readable(c) == sst[c] = "open" /\ (Unread(c) > 0 \/ Gone(c))

Backlog == {c \in Clients : sst[c] = "queued"}
NextQueued == CHOOSE c \in Backlog : \A d \in Backlog : c <= d

Least(m, n) == IF m < n THEN m ELSE n

-----------------------------------------------------------------------------
(* What the servers call. *)

\* accept
Accept(c) ==
  /\ c \in Backlog
  /\ c = NextQueued
  /\ sst' = [sst EXCEPT ![c] = "open"]
  /\ UNCHANGED <<alive, tcp>>

\* read with data there: what there is, up to the size asked for.
ReadUpTo(c, size) ==
  /\ Unread(c) > 0
  /\ LET n == Least(size, Unread(c)) IN
       /\ taken' = [taken EXCEPT ![c] = @ + n]
       /\ held' = [held EXCEPT ![c] = n]
  /\ UNCHANGED <<alive, sst, conn, sent, out, got, cut>>

ReadData(c) == ReadUpTo(c, Buf)

AfterReset == IF Windows THEN "reset" ELSE "dead"

\* read reports a reset: -1, on Linux only once.
ReadReset(c) ==
  /\ Unread(c) = 0
  /\ conn[c] = "reset"
  /\ conn' = [conn EXCEPT ![c] = AfterReset]
  /\ UNCHANGED <<alive, sst, sent, taken, held, out, got, cut>>

\* read returns 0.
AtEof(c) == Unread(c) = 0 /\ conn[c] \in {"fin", "dead"}

\* read would wait, or return EAGAIN.
NothingToRead(c) == Unread(c) = 0 /\ ~Gone(c)

Close(c) ==
  /\ sst' = [sst EXCEPT ![c] = "closed"]
  /\ UNCHANGED <<alive, tcp>>

Room(c) == SndBuf - (Len(out[c]) - got[c])

\* The n units that follow the first k units read.
Units(k, n) == [j \in 1..n |-> k + j]

\* write on a blocking socket: unit by unit, as the send buffer has room.
WriteOne(c) ==
  /\ conn[c] = "open"
  /\ held[c] > 0
  /\ Room(c) > 0
  /\ out' = [out EXCEPT ![c] = Append(@, taken[c] - held[c] + 1)]
  /\ held' = [held EXCEPT ![c] = @ - 1]
  /\ UNCHANGED <<alive, sst, conn, sent, taken, got, cut>>

\* write on a non-blocking socket: what fits now; the code ignores how much.
WriteWhatFits(c) ==
  /\ conn[c] = "open"
  /\ LET n == Least(held[c], Room(c)) IN
       /\ out' = [out EXCEPT ![c] = @ \o Units(taken[c] - held[c], n)]
       /\ cut' = [cut EXCEPT ![c] = @ + held[c] - n]
  /\ held' = [held EXCEPT ![c] = 0]
  /\ UNCHANGED <<alive, sst, conn, sent, taken, got>>

\* write to a client that has left: lost.  A client that had closed answers with
\* a reset, which has or has not arrived when the next call is made.
WriteLost(c) ==
  /\ \/ conn[c] \in {"fin", "reset"} /\ conn' = [conn EXCEPT ![c] = AfterReset]
     \/ conn[c] = "fin" /\ UNCHANGED conn
  /\ held' = [held EXCEPT ![c] = 0]
  /\ UNCHANGED <<alive, sst, sent, taken, out, got, cut>>

\* write once the reset has been reported: SIGPIPE, which no server catches.
WriteKills(c) ==
  /\ conn[c] = "dead"
  /\ alive' = FALSE
  /\ held' = [held EXCEPT ![c] = 0]
  /\ UNCHANGED <<conn, sst, sent, taken, out, got, cut>>

WriteNonBlocking(c) == WriteWhatFits(c) \/ WriteLost(c) \/ WriteKills(c)
WriteBlocking(c)    == WriteOne(c) \/ WriteLost(c) \/ WriteKills(c)

-----------------------------------------------------------------------------
(* The clients. *)

Connect(c) ==
  /\ conn[c] = "none"
  /\ \A d \in Clients : d < c => conn[d] # "none"
  /\ conn' = [conn EXCEPT ![c] = "open"]
  /\ sst' = [sst EXCEPT ![c] = "queued"]
  /\ UNCHANGED <<alive, sent, taken, held, out, got, cut>>

Send(c) ==
  /\ conn[c] = "open"
  /\ sst[c] # "closed"
  /\ sent[c] < MaxUnits[c]
  /\ sent' = [sent EXCEPT ![c] = @ + 1]
  /\ UNCHANGED <<alive, conn, sst, taken, held, out, got, cut>>

Receive(c) ==
  /\ conn[c] = "open"
  /\ got[c] < Len(out[c])
  /\ got' = [got EXCEPT ![c] = @ + 1]
  /\ UNCHANGED <<alive, conn, sst, sent, taken, held, out, cut>>

\* The client closes: FIN, or RST when it has data it has not read.
Leave(c) ==
  /\ conn[c] = "open"
  /\ conn' = [conn EXCEPT ![c] = IF got[c] = Len(out[c]) THEN "fin" ELSE "reset"]
  /\ UNCHANGED <<alive, sst, sent, taken, held, out, got, cut>>

ClientStep(c) == Connect(c) \/ Send(c) \/ Receive(c) \/ Leave(c)

NetFunctions ==
  /\ alive \in BOOLEAN
  /\ conn \in [Clients -> {"none", "open", "fin", "reset", "dead"}]
  /\ sst \in [Clients -> {"none", "queued", "open", "closed"}]
  /\ sent \in [Clients -> Nat] /\ taken \in [Clients -> Nat] /\ held \in [Clients -> Nat]
  /\ out \in [Clients -> Seq(Nat)] /\ got \in [Clients -> Nat] /\ cut \in [Clients -> Nat]

NetBounds(c) ==
  /\ sent[c] <= MaxUnits[c] /\ taken[c] <= sent[c] /\ cut[c] <= taken[c]
  /\ held[c] <= Least(Buf, taken[c])
  /\ \A k \in DOMAIN out[c] : out[c][k] \in 1..taken[c]
  /\ got[c] <= Len(out[c])

TypeNet == NetFunctions /\ \A c \in Clients : NetBounds(c)
=============================================================================
