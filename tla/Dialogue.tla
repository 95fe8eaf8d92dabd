------------------------------- MODULE Dialogue -------------------------------
(***************************************************************************)
(* The servers and clients that make their calls one after the other:      *)
(* chapters 1, 2, 4, 5, 7, 13, 15, 16, 22 and the client of chapter 23.    *)
(*                                                                         *)
(* A program is the sequence of its calls (module DialoguePrograms); this  *)
(* module says what a call does.  One server process and several client    *)
(* processes run at once, over TCP: a stream without message boundaries, a *)
(* read that returns any part of what has arrived, FIN when one end shuts  *)
(* its side down, RST when an end is closed with data it has not read, and *)
(* SIGPIPE (not on Windows) for a write after the RST has been reported.   *)
(* Windows drops what has arrived when a RST does.  Send buffers hold all  *)
(* that these programs write.                                              *)
(* Data is counted, not looked at.                                         *)
(***************************************************************************)
EXTENDS DialoguePrograms

CONSTANTS
  Clients,  \* bound: the client processes
  Turns     \* bound: a server of "five in turn" serves so many clients, or fewer

ASSUME DialogueAssumption ==
  /\ Clients \subseteq Nat \ {0}
  /\ IsFiniteSet(Clients)
  /\ Turns \in 1..5

Server == 0
Procs  == {Server} \cup Clients
Ends   == {"server", "client"}

VARIABLES
  pair,       \* the server program and the client program that run
  pc,         \* position of a process in its program
  stat,       \* "run", "ended", "killed"
  rem,        \* units of the current call done (readAll) or to be written (echo)
  turn,       \* how many clients the server is still to accept
  cur,        \* the client it is connected to
  listening,
  conn,       \* "none", "queued", "accepted"
  flow,       \* flow[e][c]: units end e of connection c has sent that the other has not read
  shut,       \* shut[e][c]: "open", "half" (FIN sent), "closed"
  told,       \* told[e][c]: "ok", "reset" (RST has arrived), "dead" (and was reported)
  wr, rd      \* wr[e][c], rd[e][c]: units written and read in all

procs == <<pc, stat, rem, turn, cur, listening>>
tcp   == <<flow, shut, told>>
count == <<wr, rd>>
vars  == <<pair, procs, conn, tcp, count>>

Both(x) == [e \in Ends |-> [c \in Clients |-> x]]

Init ==
  /\ pair \in Pairs
  /\ pc = [p \in Procs |-> 1]
  /\ stat = [p \in Procs |-> "run"]
  /\ rem = [p \in Procs |-> 0]
  /\ turn \in 1..Turns /\ cur = Server /\ listening = FALSE
  /\ conn = [c \in Clients |-> "none"]
  /\ flow = Both(0) /\ shut = Both("open") /\ told = Both("ok")
  /\ wr = Both(0) /\ rd = Both(0)

Program(p) == IF p = Server THEN pair.server ELSE pair.client
End(p)  == IF p = Server THEN "server" ELSE "client"
Peer(p) == IF p = Server THEN "client" ELSE "server"
Conn(p) == IF p = Server THEN cur ELSE p

Running(p) == stat[p] = "run" /\ pc[p] <= Len(Program(p))
At(p, call) == Running(p) /\ Program(p)[pc[p]].call = call
Size(p) == Program(p)[pc[p]].size

Set(f, e, c, x) == [f EXCEPT ![e][c] = x]
Add(f, e, c, n) == [f EXCEPT ![e][c] = @ + n]

CountKept(p, n) ==
  /\ pc' = [pc EXCEPT ![p] = @ + n]
  /\ UNCHANGED <<stat, rem, turn, cur, listening>>

\* So many calls on; a count of what has been read starts at 0 again.
Advance(p, n) ==
  /\ pc' = [pc EXCEPT ![p] = @ + n]
  /\ rem' = [rem EXCEPT ![p] = 0]
  /\ UNCHANGED <<stat, turn, cur, listening>>
GoOn(p) == Advance(p, 1)
Count(p, n) ==
  /\ rem' = [rem EXCEPT ![p] = n]
  /\ UNCHANGED <<pc, stat, turn, cur, listening>>
Stay == UNCHANGED procs

-----------------------------------------------------------------------------
(* The end of a connection, and of a process. *)

\* What end e of c learns when the other end has gone with data of e unread:
\* a reset, which after a FIN counts as a broken pipe.
Reset(t, other, c) == IF t # "ok" THEN t ELSE IF shut[other][c] = "open" THEN "reset" ELSE "dead"

\* c is in the server's backlog.
Waits(p, c) == p = Server /\ conn[c] = "queued"

\* Process p's ends of the connections in cs are closed.  The kernel resets those
\* nobody has accepted.
CloseAll(p, cs) ==
  LET e == End(p)  o == Peer(p) IN
  /\ shut' = [shut EXCEPT ![e] = [c \in Clients |-> IF c \in cs THEN "closed" ELSE @[c]]]
  /\ told' = [told EXCEPT ![o] = [c \in Clients |->
                IF c \in cs /\ shut[e][c] # "closed" /\ (flow[o][c] > 0 \/ Waits(p, c))
                  THEN Reset(@[c], e, c) ELSE @[c]]]
  /\ flow' = [flow EXCEPT
       ![o] = [c \in Clients |-> IF c \in cs THEN 0 ELSE @[c]],
       ![e] = [c \in Clients |-> IF pair.win /\ told'[o][c] # told[o][c] THEN 0 ELSE @[c]]]

\* The connections a process still has when it ends, the backlog included.
Owned(p) ==
  IF p # Server THEN {p} \cap {c \in Clients : conn[c] # "none"}
  ELSE {c \in Clients : conn[c] = "queued" \/ (conn[c] = "accepted" /\ c = cur)}

EndProcess(p, how) ==
  /\ stat' = [stat EXCEPT ![p] = how]
  /\ listening' = IF p = Server THEN FALSE ELSE listening
  /\ CloseAll(p, Owned(p))
  /\ UNCHANGED <<pair, pc, rem, turn, cur, conn, count>>

\* return 0 at the end of main.
Return(p) ==
  /\ stat[p] = "run" /\ pc[p] > Len(Program(p))
  /\ EndProcess(p, "ended")

-----------------------------------------------------------------------------
(* The calls. *)

\* socket, bind, listen: the server is ready, or error_handling ends it.
Listen ==
  /\ At(Server, "listen")
  /\ \/ /\ listening' = TRUE
        /\ pc' = [pc EXCEPT ![Server] = 2]
        /\ UNCHANGED <<pair, stat, rem, turn, cur, conn, tcp, count>>
     \/ EndProcess(Server, "ended")

\* connect: refused, and error_handling ends the client, when nobody listens.
Connect(c) ==
  /\ At(c, "connect")
  /\ \/ /\ listening
        /\ conn' = [conn EXCEPT ![c] = "queued"]
        /\ GoOn(c)
        /\ UNCHANGED <<pair, tcp, count>>
     \/ /\ ~listening
        /\ EndProcess(c, "ended")

Accept ==
  /\ At(Server, "accept")
  /\ \E c \in Clients :
       /\ conn[c] = "queued"
       /\ conn' = [conn EXCEPT ![c] = "accepted"]
       /\ cur' = c
  /\ turn' = turn - 1
  /\ pc' = [pc EXCEPT ![Server] = @ + 1]
  /\ UNCHANGED <<pair, stat, rem, listening, tcp, count>>

\* for (i = 0; i < 5; i++): back to accept, or on.
NextTurn ==
  /\ At(Server, "again")
  /\ pc' = [pc EXCEPT ![Server] = IF turn > 0 THEN 2 ELSE @ + 1]
  /\ UNCHANGED <<pair, stat, rem, turn, cur, listening, conn, tcp, count>>

\* The user types a message, or q: then only the last call, close, is left.
Prompt(c) ==
  /\ At(c, "prompt")
  /\ \E next \in {pc[c] + 1, Len(Program(c))} : pc' = [pc EXCEPT ![c] = next]
  /\ UNCHANGED <<pair, stat, rem, turn, cur, listening, conn, tcp, count>>

\* write of n units, and how the program continues if it lives: after it, or after a -1.
Put(p, n, Continue, Failed) ==
  LET e == End(p)  o == Peer(p)  c == Conn(p) IN
  \/ /\ told[e][c] = "ok" /\ shut[o][c] # "closed"
     /\ flow' = Add(flow, e, c, n)
     /\ wr' = Add(wr, e, c, n)
     /\ Continue
     /\ UNCHANGED <<pair, conn, shut, told, rd>>
  \/ /\ told[e][c] = "ok" /\ shut[o][c] = "closed"     \* answered with a RST
     /\ told' \in {told, Set(told, e, c, IF pair.win THEN "reset" ELSE "dead")}
     /\ wr' = Add(wr, e, c, n)
     /\ Continue
     /\ UNCHANGED <<pair, conn, flow, shut, rd>>
  \/ /\ told[e][c] = "reset"                           \* -1
     /\ told' = Set(told, e, c, IF pair.win THEN "reset" ELSE "dead")
     /\ Failed
     /\ UNCHANGED <<pair, conn, flow, shut, count>>
  \/ /\ told[e][c] = "dead"                            \* SIGPIPE
     /\ EndProcess(p, "killed")

Write(p) ==
  /\ At(p, "write")
  /\ Put(p, Size(p), GoOn(p), IF Program(p)[pc[p]].error = "skips" THEN Advance(p, 2) ELSE GoOn(p))

\* read of at most n units: k of those that have arrived.
Get(p, n, k) ==
  LET o == Peer(p)  c == Conn(p) IN
  /\ k \in 1..n /\ k <= flow[o][c]
  /\ flow' = Add(flow, o, c, -k)
  /\ rd' = Add(rd, End(p), c, k)
  /\ UNCHANGED <<pair, conn, shut, told, wr>>

\* read returns 0.
AtEof(p) ==
  LET o == Peer(p)  c == Conn(p) IN
  /\ flow[o][c] = 0
  /\ told[End(p)][c] # "reset"
  /\ shut[o][c] # "open" \/ told[End(p)][c] = "dead"
  /\ UNCHANGED <<pair, conn, tcp, count>>

\* read returns -1: a reset is reported, on Linux once.
IsReset(p) == flow[Peer(p)][Conn(p)] = 0 /\ told[End(p)][Conn(p)] = "reset"
Fails(p) ==
  LET e == End(p)  c == Conn(p) IN
  /\ IsReset(p)
  /\ told' = Set(told, e, c, IF pair.win THEN "reset" ELSE "dead")
  /\ UNCHANGED <<pair, conn, flow, shut, count>>

\* read returns -1, and the program does what it does about it.  A signed sum leaves
\* the loop only when it has wrapped round; an unsigned one as soon as it is negative.
Fail(p) ==
  LET error == Program(p)[pc[p]].error IN
  \/ /\ error \in {"ends", "undefined"}
     /\ IsReset(p)
     /\ EndProcess(p, IF error = "ends" THEN "ended" ELSE "killed")
  \/ /\ error \in {"ignored", "summed"} \/ (error = "unsigned" /\ rem[p] = 0)
     /\ Fails(p)
     /\ GoOn(p)
  \/ /\ error \in {"retried", "undefined", "summed"} \/ (error = "unsigned" /\ rem[p] > 0)
     /\ Fails(p)
     /\ Count(p, IF error = "unsigned" THEN rem[p] - 1 ELSE rem[p])

\* One read, whatever it brings.
Read(p) ==
  /\ At(p, "read")
  /\ \/ \E k \in 1..Size(p) : Get(p, Size(p), k) /\ GoOn(p)
     \/ AtEof(p) /\ GoOn(p)
     \/ Fail(p)

\* Reads of up to BUF_SIZE until so many units, or more, have come.  At the end
\* of file the loop never ends.
ReadAll(p) ==
  LET arrived == flow[Peer(p)][Conn(p)] IN
  /\ At(p, "readAll")
  /\ \/ \E k \in 1..arrived :
          /\ Get(p, arrived, k)
          /\ IF rem[p] + k >= Size(p) THEN GoOn(p) ELSE Count(p, rem[p] + k)
     \/ Fail(p)

\* Reads until the end of file.
ReadEof(p) ==
  /\ At(p, "readEof")
  /\ \/ \E k \in 1..Size(p) : Get(p, Size(p), k) /\ Stay
     \/ AtEof(p) /\ GoOn(p)
     \/ Fail(p)

\* recv with MSG_PEEK | MSG_DONTWAIT until it returns something.
Peek(p) ==
  /\ At(p, "peek")
  /\ flow[Peer(p)][Conn(p)] > 0
  /\ GoOn(p)
  /\ UNCHANGED <<pair, conn, tcp, count>>

\* while ((n = read(..)) != 0) write(.., n): -1 is written too, in vain.
Echo(p) ==
  /\ At(p, "echo")
  /\ \/ /\ rem[p] = 0
        /\ \E k \in 1..Size(p) :
             /\ Get(p, Size(p), k)
             /\ Count(p, k)
     \/ rem[p] = 0 /\ AtEof(p) /\ GoOn(p)
     \/ rem[p] = 0 /\ Fails(p) /\ Stay
     \/ /\ rem[p] > 0
        /\ Put(p, rem[p], Count(p, 0), Count(p, 0))

\* The op_server of the exercise: an operator that is none ends the program, whether
\* the user typed it or an earlier read was short and it is read from the wrong place.
Operator(p) ==
  /\ At(p, "operator")
  /\ \/ GoOn(p) /\ UNCHANGED <<pair, conn, tcp, count>>
     \/ EndProcess(p, "ended")

\* shutdown(SHUT_WR)
Shutdown(p) ==
  /\ At(p, "shutdown")
  /\ shut' = Set(shut, End(p), Conn(p), "half")
  /\ GoOn(p)
  /\ UNCHANGED <<pair, conn, flow, told, count>>

Close(p) ==
  /\ At(p, "close")
  /\ CloseAll(p, {Conn(p)})
  /\ GoOn(p)
  /\ UNCHANGED <<pair, conn, count>>

Step(p) ==
  \/ Write(p) \/ Read(p) \/ ReadAll(p) \/ ReadEof(p) \/ Peek(p) \/ Echo(p)
  \/ Shutdown(p) \/ Close(p) \/ Return(p)
ServerStep == Listen \/ Accept \/ NextTurn \/ Operator(Server) \/ Step(Server)
ClientStep(c) == Connect(c) \/ Step(c)

Next ==
  \/ ServerStep
  \/ \E c \in Clients : ClientStep(c) \/ Prompt(c)

\* Every process runs, and its user answers the prompt in the end.
Fairness ==
  /\ WF_vars(ServerStep)
  /\ \A c \in Clients : WF_vars(ClientStep(c) \/ Prompt(c))

Spec == Init /\ [][Next]_vars /\ Fairness
=============================================================================
