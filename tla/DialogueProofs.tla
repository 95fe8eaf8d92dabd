---------------------------- MODULE DialogueProofs ----------------------------
(***************************************************************************)
(* What holds of the sequential programs for any number of clients, served *)
(* up to five in turn: an echo client that counts what it reads never      *)
(* takes one answer for the next, a transfer that ends with a half-close   *)
(* is complete, and a server dies only of an answer its client left        *)
(* unread.                                                                 *)
(***************************************************************************)
EXTENDS MCDialogue, TLAPS

-----------------------------------------------------------------------------
(* The invariant. *)

\* The domains of the variables.
ControlTypes ==
  /\ pc \in [Procs -> Nat] /\ rem \in [Procs -> Nat]
  /\ stat \in [Procs -> {"run", "ended", "killed"}]
  /\ turn \in Nat /\ cur \in Procs /\ listening \in BOOLEAN
DataTypes ==
  /\ pair \in Pairs
  /\ conn \in [Clients -> {"none", "queued", "accepted"}]
  /\ flow \in [Ends -> [Clients -> Nat]]
  /\ wr \in [Ends -> [Clients -> Nat]] /\ rd \in [Ends -> [Clients -> Nat]]
  /\ shut \in [Ends -> [Clients -> {"open", "half", "closed"}]]
  /\ told \in [Ends -> [Clients -> {"ok", "reset", "dead"}]]
Types == ControlTypes /\ DataTypes

Gone(e, c) == shut[e][c] = "closed"

\* The server is between accepting c and its next accept.
Serves(c) == stat[Server] = "run" /\ cur = c /\ pc[Server] > 2

CloseAt(s) == IF s[Len(s)].call = "again" THEN Len(s) - 1 ELSE Len(s)

Place(p) ==
  /\ pc[p] \in 1..Len(Program(p)) + 1 /\ rem[p] <= Request
  /\ rem[p] > 0 => /\ pc[p] <= Len(Program(p)) /\ stat[p] # "ended"
                   /\ Program(p)[pc[p]].call \in {"readAll", "echo"}
Places ==
  /\ \A p \in Procs : Place(p)
  /\ turn <= Turns
  /\ stat[Server] = "run" /\ pc[Server] <= 2 => turn > 0
  /\ listening => stat[Server] = "run"
  /\ pc[Server] > 2 => cur \in Clients
  /\ cur \in Clients => conn[cur] = "accepted"

\* What end e has written the other end, o, has read or is still on its way, as long
\* as o is there; and only who is gone resets.
Net(c) ==
  \A e, o \in Ends : e # o =>
    /\ flow[e][c] + rd[o][c] <= wr[e][c]
    /\ shut[o][c] # "closed" /\ (pair.win => told[o][c] = "ok") =>
         flow[e][c] + rd[o][c] = wr[e][c]
    /\ told[e][c] # "ok" => shut[o][c] = "closed"
    /\ pair.win => told[e][c] # "dead" /\ shut[e][c] # "half"

Stream(c) ==
  /\ Net(c)
  /\ shut["client"][c] # "half"
  /\ rem[c] <= rd["client"][c]

Course(c) ==
  /\ conn[c] = "none" <=> pc[c] = 1
  /\ conn[c] = "none" => shut["client"][c] = "open" /\ wr["client"][c] = 0
  /\ Gone("client", c) => stat[c] # "run" \/ pc[c] > Len(pair.client)
  /\ stat[c] = "run" /\ pc[c] > Len(pair.client) => Gone("client", c)
  /\ conn[c] # "accepted" =>
       /\ rd["server"][c] = 0 /\ wr["server"][c] = 0 /\ told["server"][c] = "ok"
       /\ stat[Server] = "run" => shut["server"][c] = "open"
  /\ conn[c] = "accepted" =>
       (Gone("server", c) <=> ~(Serves(c) /\ pc[Server] <= CloseAt(pair.server)))

Hears(n) == CASE n = "test" -> 3 [] n = "op" -> 3 [] n = "me_op" -> 6
              [] OTHER -> 2
Answers(n) == CASE n \in {"test", "tcp", "op"} -> 5 [] n = "me_op" -> 8
                [] n = "file" -> 6 [] n \in {"sep", "tcp_win"} -> 4 [] OTHER -> 3
Listeners == TransferPairs \cup {"test"}
Askers == {"op", "me_op", "hello"}

Answered(c) ==
  IF pair.name \in Listeners THEN shut["server"][c] # "open"
  ELSE wr["server"][c] > 0 \/ Gone("server", c)

Patience(c) ==
  /\ shut["server"][c] = "half" => pair.name \in {"file", "sep"}
  /\ pair.name \in Listeners \cup Askers =>
       /\ Gone("client", c) \/ pc[c] > Hears(pair.name) => Answered(c)
       /\ Serves(c) /\ pc[Server] <= Answers(pair.name) => ~Answered(c)

Transfer(c) ==
  /\ pair.name = "tcp_win" => wr["client"][c] = 0
  /\ pair.name \in TransferPairs /\ pc[c] > 2 /\ ~Gone("client", c) =>
       rd["client"][c] = wr["server"][c]
  /\ pair.name \in {"file", "sep"} =>
       /\ Gone("client", c) \/ pc[c] > 3 => wr["client"][c] > 0 \/ Gone("server", c)
       /\ Serves(c) /\ pc[Server] = Len(pair.server) => rd["server"][c] > 0

Asked(c) ==
  pair.name = "op" =>
    /\ wr["client"][c] <= Request /\ (pc[c] <= 2 => wr["client"][c] = 0)
    /\ Serves(c) =>
         /\ pc[Server] = 3 => rd["server"][c] = 0
         /\ pc[Server] = 4 => rd["server"][c] = 1 + rem[Server]
         /\ pc[Server] = 5 => rd["server"][c] = Request

Echoes == InStepPairs \cup {"echo", "echo_win"}
Echoed(c) ==
  pair.name \in Echoes /\ Serves(c) /\ pc[Server] = 3 =>
    wr["server"][c] + rem[Server] <= rd["server"][c]

\* The server has ended without accepting c, and c does not notice.
Left(c) == pair.name # "echo2" /\ conn[c] = "queued" /\ Gone("server", c)

Abreast(c) ==
  LET m == pair.client[3].size IN
  pair.name \in InStepPairs =>
    /\ stat[c] = "run" /\ pc[c] \in {1, 2, 3, 5, 6, 8} /\ ~Left(c) =>
         wr["client"][c] <= rd["client"][c]
    /\ pc[c] \in {4, 7} /\ ~Left(c) => wr["client"][c] + rem[c] <= rd["client"][c] + m
    /\ Gone("client", c) /\ ~Gone("server", c) => wr["client"][c] <= rd["client"][c]
    /\ Gone("server", c) /\ ~Gone("client", c) => conn[c] # "accepted"
    /\ ~Gone("client", c) => wr["server"][c] <= rd["server"][c]
    /\ Serves(c) /\ pc[Server] > 3 => Gone("client", c)
    /\ Serves(c) /\ pc[Server] < CloseAt(pair.server) => told["server"][c] = "ok"

Death ==
  stat[Server] = "killed" =>
    /\ pair.name = "echo" /\ cur \in Clients /\ Gone("client", cur)
    /\ rd["client"][cur] < wr["client"][cur]

\* All that is said of one client and its connection.
Own(c) ==
  /\ Stream(c) /\ Course(c) /\ Patience(c) /\ Transfer(c)
  /\ Asked(c) /\ Echoed(c) /\ Abreast(c)

IInv == Types /\ Places /\ Death /\ \A c \in Clients : Own(c)

-----------------------------------------------------------------------------
(* What the programs are. *)

\* What a server calls between accept and close, and what a client calls.
Serving == {"read", "readAll", "readEof", "write", "echo", "peek", "operator",
            "shutdown", "close", "again"}
Talking == {"prompt", "read", "readAll", "readEof", "write", "close"}

ServerShape(s) ==
  /\ Len(s) \in Nat /\ Len(s) > 3
  /\ s[1].call = "listen" /\ s[2].call = "accept"
  /\ \A k \in 3..Len(s) : s[k].call \in Serving /\ s[k].size \in 0..Request
  /\ \A k \in 3..Len(s) : s[k].call \in {"read", "write", "echo"} => s[k].size > 0
  /\ \A k \in 3..Len(s) : s[k].error \in
       CASE s[k].call = "readAll" -> {"unsigned"} [] s[k].call = "readEof" -> {"ends"}
         [] s[k].call = "read" -> {"ignored", "ends"} [] OTHER -> {"ignored"}
  /\ CloseAt(s) \in 3..Len(s)
  /\ \A k \in 3..Len(s) : s[k].call = "close" <=> k = CloseAt(s)
  /\ \A k \in 3..Len(s) : s[k].call = "again" <=> k > CloseAt(s)

ClientShape(s) ==
  /\ Len(s) \in Nat /\ Len(s) > 1
  /\ s[1].call = "connect" /\ s[1].size = 0
  /\ \A k \in 2..Len(s) : s[k].call \in Talking /\ s[k].size \in 0..Request
  /\ \A k \in 2..Len(s) : s[k].call \in {"read", "write"} => s[k].size > 0
  /\ \A k \in 2..Len(s) : s[k].error \in
       CASE s[k].call = "readAll" -> {"summed", "ends"}
         [] s[k].call = "readEof" -> {"ignored", "ends", "retried", "undefined"}
         [] s[k].call = "read" -> {"ignored", "ends"}
         [] s[k].call = "write" -> {"ignored", "skips"} [] OTHER -> {"ignored"}
  /\ \A k \in 2..Len(s) : s[k].error = "skips" => k + 2 <= Len(s)
  /\ \A k \in 2..Len(s) : s[k].call = "close" <=> k = Len(s)
  /\ \A k \in 2..Len(s) : s[k].call = "prompt" => k + 1 <= Len(s)

USE DEF Call, OnError, Listening, Connecting, Accepting, Again, Prompting, Writing, Reading,
        ReadingAll, ReadingEof, Peeking, Echoing, CheckingOp, ShuttingDown, Closing,
        Typed, Msg, BufSize, OpSz, Operands, Request
\* The servers that echo have the shape of a server.
LEMMA EchoServersShape ==
  /\ ServerShape(echo_server) /\ ServerShape(echo_server5) /\ ServerShape(echo_server_win)
  /\ ServerShape(echo_stdserv) /\ ServerShape(test_echo_server)
  BY DEF ServerShape, CloseAt, Serving, echo_server, echo_server5, echo_server_win,
    echo_stdserv, test_echo_server

\* So do the others.
LEMMA OtherServersShape ==
  /\ ServerShape(op_server) /\ ServerShape(me_op_server) /\ ServerShape(file_server)
  /\ ServerShape(sep_serv2) /\ ServerShape(hello_server) /\ ServerShape(hello_server_win)
  /\ ServerShape(tcp_server) /\ ServerShape(tcp_server_win) /\ ServerShape(peek_recv)
  /\ ServerShape(OverlappedRecv) /\ ServerShape(CmpRoutinesRecv)
  BY DEF ServerShape, CloseAt, Serving, op_server, me_op_server, file_server, sep_serv2,
    hello_server, hello_server_win, tcp_server, tcp_server_win, peek_recv,
    OverlappedRecv, CmpRoutinesRecv

\* The clients have the shape of a client.
LEMMA ClientsShape ==
  /\ ClientShape(echo_client) /\ ClientShape(echo_client2) /\ ClientShape(echo_client_win)
  /\ ClientShape(StableEchoClnt) /\ ClientShape(echo_stdclnt) /\ ClientShape(test_echo_client)
  /\ ClientShape(op_client) /\ ClientShape(me_op_client) /\ ClientShape(file_client)
  /\ ClientShape(sep_clnt) /\ ClientShape(hello_client) /\ ClientShape(hello_client_win)
  /\ ClientShape(tcp_client) /\ ClientShape(tcp_client_win) /\ ClientShape(peek_send)
  /\ ClientShape(OverlappedSend)
  <1>1. ClientShape(echo_client) /\ ClientShape(echo_client_win) /\ ClientShape(echo_stdclnt)
    BY DEF ClientShape, Talking, echo_client, echo_client_win, echo_stdclnt
  <1>2. ClientShape(echo_client2)
    BY DEF ClientShape, Talking, echo_client2
  <1>3. ClientShape(StableEchoClnt)
    BY DEF ClientShape, Talking, StableEchoClnt
  <1>4. /\ ClientShape(test_echo_client) /\ ClientShape(op_client) /\ ClientShape(me_op_client)
        /\ ClientShape(file_client) /\ ClientShape(sep_clnt)
    BY DEF ClientShape, Talking, test_echo_client, op_client, me_op_client, file_client, sep_clnt
  <1>5. /\ ClientShape(hello_client) /\ ClientShape(hello_client_win)
        /\ ClientShape(tcp_client) /\ ClientShape(tcp_client_win) /\ ClientShape(peek_send)
        /\ ClientShape(OverlappedSend)
    BY DEF ClientShape, Talking, hello_client, hello_client_win, tcp_client, tcp_client_win,
      peek_send, OverlappedSend
  <1> QED  BY <1>1, <1>2, <1>3, <1>4, <1>5

\* Whoever talks is a server with a client.
LEMMA Shapes ==
  ASSUME NEW q \in Pairs
  PROVE  ServerShape(q.server) /\ ClientShape(q.client)
  BY EchoServersShape, OtherServersShape, ClientsShape DEF Pairs, Talk

HIDE DEF Call, OnError, Listening, Connecting, Accepting, Again, Prompting, Writing, Reading,
         ReadingAll, ReadingEof, Peeking, Echoing, CheckingOp, ShuttingDown, Closing,
         Typed, Msg, BufSize, OpSz, Operands

\* A count, two operands of two units and an operator.
LEMMA RequestIsSix == Request = 6
  BY DEF Request, Operands, OpSz

\* A count that is not full after k more units is within a request.
LEMMA CountFits ==
  ASSUME NEW a \in Nat, NEW n \in 0..Request, NEW k \in Nat, a + k < n
  PROVE  a + k \in 0..Request
  BY RequestIsSix

-----------------------------------------------------------------------------
(* What the calls do, connection by connection and process by process. *)

SameData(d) ==
  \A e \in Ends :
    /\ flow'[e][d] = flow[e][d] /\ wr'[e][d] = wr[e][d] /\ rd'[e][d] = rd[e][d]
    /\ shut'[e][d] = shut[e][d] /\ told'[e][d] = told[e][d]
Keeps(d) == conn'[d] = conn[d] /\ SameData(d)

KeepsOthers(c) == pair' = pair /\ \A d \in Clients \ {c} : Keeps(d)

\* End e of c, whose other end is o, sends n units, takes k out of what has come,
\* and counts w and k.
Counted(e, o, c, n, k, w) ==
  /\ conn'[c] = conn[c]
  /\ flow'[e][c] = flow[e][c] + n /\ flow'[o][c] = flow[o][c] - k
  /\ wr'[e][c] = wr[e][c] + w /\ wr'[o][c] = wr[o][c]
  /\ rd'[e][c] = rd[e][c] + k /\ rd'[o][c] = rd[o][c]

Told(e, o, c, t) ==
  /\ told'[e][c] = t /\ told'[o][c] = told[o][c]
  /\ shut'[e][c] = shut[e][c] /\ shut'[o][c] = shut[o][c]

Reported == IF pair.win THEN "reset" ELSE "dead"

Sends(e, o, c, n) ==
  /\ told[e][c] = "ok" /\ shut[o][c] # "closed"
  /\ Counted(e, o, c, n, 0, n) /\ Told(e, o, c, told[e][c])

SendsInVain(e, o, c, n) ==
  /\ told[e][c] = "ok" /\ shut[o][c] = "closed"
  /\ Counted(e, o, c, 0, 0, n)
  /\ Told(e, o, c, told[e][c]) \/ Told(e, o, c, Reported)

Learns(e, o, c) ==
  told[e][c] = "reset" /\ Counted(e, o, c, 0, 0, 0) /\ Told(e, o, c, Reported)

Puts(e, o, c, n) == Sends(e, o, c, n) \/ SendsInVain(e, o, c, n) \/ Learns(e, o, c)

Gets(e, o, c, k) ==
  /\ k \in Nat \ {0} /\ k <= flow[o][c]
  /\ Counted(e, o, c, 0, k, 0) /\ Told(e, o, c, told[e][c])

SeesEof(e, o, c) ==
  /\ flow[o][c] = 0 /\ told[e][c] # "reset"
  /\ shut[o][c] # "open" \/ told[e][c] = "dead"
  /\ Keeps(c)

Closes(e, o, c) ==
  /\ conn'[c] = conn[c]
  /\ shut'[e][c] = "closed" /\ shut'[o][c] = shut[o][c]
  /\ told'[e][c] = told[e][c]
  /\ told'[o][c] = IF shut[e][c] # "closed"
                          /\ (flow[o][c] > 0 \/ (e = "server" /\ conn[c] = "queued"))
                     THEN Reset(told[o][c], e, c) ELSE told[o][c]
  /\ flow'[o][c] = 0
  /\ flow'[e][c] = IF pair.win /\ told'[o][c] # told[o][c] THEN 0 ELSE flow[e][c]
  /\ \A x \in Ends : wr'[x][c] = wr[x][c] /\ rd'[x][c] = rd[x][c]

\* Where process p is, how it is and what it counts; nobody else moves.
Moves(p, i, how, r) ==
  /\ pc'[p] = i /\ stat'[p] = how /\ rem'[p] = r
  /\ \A q \in Procs \ {p} : pc'[q] = pc[q] /\ stat'[q] = stat[q] /\ rem'[q] = rem[q]
Idles == turn' = turn /\ cur' = cur /\ listening' = listening

Goes(p) == Idles /\ Moves(p, pc[p] + 1, stat[p], 0)
Counts(p, r) == Idles /\ Moves(p, pc[p], stat[p], r)

Leaves(p, how) ==
  /\ Moves(p, pc[p], how, rem[p])
  /\ turn' = turn /\ cur' = cur
  /\ listening' = IF p = Server THEN FALSE ELSE listening
  /\ pair' = pair
  /\ \A d \in Clients : IF d \in Owned(p) THEN Closes(End(p), Peer(p), d) ELSE Keeps(d)

\* Process p is one end, e, of connection c; the other is o.
Acts(p, e, o, c) == e = End(p) /\ o = Peer(p) /\ c = Conn(p)

\* The processes, and the ends of a connection they hold.
LEMMA TwoEnds ==
  /\ Ends = {"server", "client"} /\ Server \in Procs /\ Server \notin Clients
  /\ Clients \subseteq Procs /\ Turns \in Nat \ {0}
  /\ \A c \in Clients : c # Server /\ End(c) = "client" /\ Peer(c) = "server" /\ Conn(c) = c
                        /\ Program(c) = pair.client
  /\ End(Server) = "server" /\ Peer(Server) = "client" /\ Conn(Server) = cur
  /\ Program(Server) = pair.server
  BY DialogueAssumption DEF Ends, Server, Procs, End, Peer, Conn, Program

\* A process holds one end, and its peer the other.
LEMMA EndsOf ==
  ASSUME NEW p \in Procs
  PROVE  End(p) \in Ends /\ Peer(p) \in Ends /\ End(p) # Peer(p)
         /\ \A e \in Ends : e = End(p) \/ e = Peer(p)
  BY DEF Ends, End, Peer

\* Advance moves its process so many calls on, and nobody else.
LEMMA AdvanceMoves ==
  ASSUME Types, NEW p \in Procs, NEW n \in Nat, Advance(p, n)
  PROVE  Idles /\ Moves(p, pc[p] + n, stat[p], 0)
  BY DEF Types, ControlTypes, DataTypes, Advance, Moves, Idles

\* GoOn moves its process one call on.
LEMMA GoOnGoes ==
  ASSUME Types, NEW p \in Procs, GoOn(p)
  PROVE  Goes(p)
  BY AdvanceMoves DEF GoOn, Goes

\* Count changes the count of its process, and of nobody else.
LEMMA CountCounts ==
  ASSUME Types, NEW p \in Procs, NEW n, Count(p, n)
  PROVE  Counts(p, n)
  BY DEF Types, ControlTypes, DataTypes, Count, Counts, Moves, Idles

\* Stay moves nobody.
LEMMA StayStays ==
  ASSUME Types, NEW p \in Procs, Stay
  PROVE  Counts(p, rem[p])
  BY DEF Types, ControlTypes, DataTypes, Stay, procs, Counts, Moves, Idles

\* CloseAll closes the ends of p of the connections in cs and no others.
LEMMA CloseAllCloses ==
  ASSUME Types, NEW p \in Procs, NEW cs, CloseAll(p, cs), UNCHANGED <<pair, conn, count>>,
         NEW d \in Clients
  PROVE  IF d \in cs THEN Closes(End(p), Peer(p), d) ELSE Keeps(d)
  <1> DEFINE e == End(p)  o == Peer(p)
  <1>1. e \in Ends /\ o \in Ends /\ e # o /\ \A x \in Ends : x = e \/ x = o
    BY EndsOf
  <1> HIDE DEF e, o
  <1>2. /\ shut' = [shut EXCEPT ![e] = [c \in Clients |-> IF c \in cs THEN "closed" ELSE @[c]]]
        /\ told' = [told EXCEPT ![o] = [c \in Clients |->
                IF c \in cs /\ shut[e][c] # "closed" /\ (flow[o][c] > 0 \/ Waits(p, c))
                  THEN Reset(@[c], e, c) ELSE @[c]]]
        /\ flow' = [flow EXCEPT
             ![o] = [c \in Clients |-> IF c \in cs THEN 0 ELSE @[c]],
             ![e] = [c \in Clients |-> IF pair.win /\ told'[o][c] # told[o][c] THEN 0 ELSE @[c]]]
    BY DEF CloseAll, e, o
  <1>3. /\ shut'[e][d] = IF d \in cs THEN "closed" ELSE shut[e][d]
        /\ shut'[o][d] = shut[o][d]
    BY <1>1, <1>2 DEF Types, ControlTypes, DataTypes
  <1>4. /\ told'[o][d] = IF d \in cs /\ shut[e][d] # "closed" /\ (flow[o][d] > 0 \/ Waits(p, d))
                           THEN Reset(told[o][d], e, d) ELSE told[o][d]
        /\ told'[e][d] = told[e][d]
    BY <1>1, <1>2 DEF Types, ControlTypes, DataTypes
  <1>5. /\ flow'[o][d] = IF d \in cs THEN 0 ELSE flow[o][d]
        /\ flow'[e][d] = IF pair.win /\ told'[o][d] # told[o][d] THEN 0 ELSE flow[e][d]
    BY <1>1, <1>2 DEF Types, ControlTypes, DataTypes
  <1>6. conn' = conn /\ wr' = wr /\ rd' = rd
    BY DEF count
  <1>7. CASE d \in cs
    <2>1. Waits(p, d) <=> (e = "server" /\ conn[d] = "queued")
      BY TwoEnds DEF Waits, e, End
    <2> QED  BY <1>1, <1>3, <1>4, <1>5, <1>6, <1>7, <2>1 DEF Closes, e, o
  <1>8. CASE d \notin cs
    <2>1. \A x \in Ends : shut'[x][d] = shut[x][d] /\ told'[x][d] = told[x][d] /\ flow'[x][d] = flow[x][d]
      BY <1>1, <1>3, <1>4, <1>5, <1>8
    <2> QED  BY <2>1, <1>6, <1>8 DEF Keeps, SameData
  <1> QED  BY <1>7, <1>8

\* A process that ends closes what it owns and stays where it is.
LEMMA EndProcessLeaves ==
  ASSUME Types, NEW p \in Procs, NEW how, EndProcess(p, how)
  PROVE  Leaves(p, how)
  <1>1. \A d \in Clients : IF d \in Owned(p) THEN Closes(End(p), Peer(p), d) ELSE Keeps(d)
    BY CloseAllCloses DEF EndProcess
  <1>2. Moves(p, pc[p], how, rem[p])
    BY DEF EndProcess, Moves, Types, ControlTypes, DataTypes
  <1> QED  BY <1>1, <1>2 DEF EndProcess, Leaves

\* What Put does, however the program continues.
LEMMA PutDoes ==
  ASSUME Types, NEW p \in Procs, NEW c \in Clients, c = Conn(p), NEW n \in Nat,
         Put(p, n, TRUE, TRUE)
  PROVE  \/ Puts(End(p), Peer(p), c, n) /\ KeepsOthers(c)
         \/ told[End(p)][c] = "dead" /\ Leaves(p, "killed")
  <1> DEFINE e == End(p)  o == Peer(p)
  <1>1. e \in Ends /\ o \in Ends /\ e # o /\ \A x \in Ends : x = e \/ x = o
    BY EndsOf
  <1>2. Put(p, n, TRUE, TRUE) <=>
        \/ /\ told[e][c] = "ok" /\ shut[o][c] # "closed"
           /\ flow' = Add(flow, e, c, n)
           /\ wr' = Add(wr, e, c, n)
           /\ UNCHANGED <<pair, conn, shut, told, rd>>
        \/ /\ told[e][c] = "ok" /\ shut[o][c] = "closed"
           /\ told' \in {told, Set(told, e, c, Reported)}
           /\ wr' = Add(wr, e, c, n)
           /\ UNCHANGED <<pair, conn, flow, shut, rd>>
        \/ /\ told[e][c] = "reset"
           /\ told' = Set(told, e, c, Reported)
           /\ UNCHANGED <<pair, conn, flow, shut, count>>
        \/ /\ told[e][c] = "dead"
           /\ EndProcess(p, "killed")
    BY Zenon DEF Put, Reported
  <1> HIDE DEF e, o
  <1>3. CASE /\ told[e][c] = "ok" /\ shut[o][c] # "closed"
             /\ flow' = Add(flow, e, c, n)
             /\ wr' = Add(wr, e, c, n)
             /\ UNCHANGED <<pair, conn, shut, told, rd>>
    <2>1. Sends(e, o, c, n)
      BY <1>1, <1>3 DEF Types, ControlTypes, DataTypes, Add, Sends, Counted, Told
    <2>2. KeepsOthers(c)
      BY <1>1, <1>3 DEF Types, ControlTypes, DataTypes, Add, KeepsOthers, Keeps, SameData
    <2> QED  BY <2>1, <2>2 DEF Puts, e, o
  <1>4. CASE /\ told[e][c] = "ok" /\ shut[o][c] = "closed"
             /\ told' \in {told, Set(told, e, c, Reported)}
             /\ wr' = Add(wr, e, c, n)
             /\ UNCHANGED <<pair, conn, flow, shut, rd>>
    <2>1. SendsInVain(e, o, c, n)
      BY <1>1, <1>4 DEF Types, ControlTypes, DataTypes, Add, Set, SendsInVain, Counted, Told
    <2>2. KeepsOthers(c)
      BY <1>1, <1>4 DEF Types, ControlTypes, DataTypes, Add, Set, KeepsOthers, Keeps, SameData
    <2> QED  BY <2>1, <2>2 DEF Puts, e, o
  <1>5. CASE /\ told[e][c] = "reset"
             /\ told' = Set(told, e, c, Reported)
             /\ UNCHANGED <<pair, conn, flow, shut, count>>
    <2>1. Learns(e, o, c)
      BY <1>1, <1>5 DEF Types, ControlTypes, DataTypes, Set, Learns, Counted, Told, count
    <2>2. KeepsOthers(c)
      BY <1>1, <1>5 DEF Types, ControlTypes, DataTypes, Set, KeepsOthers, Keeps, SameData, count
    <2> QED  BY <2>1, <2>2 DEF Puts, e, o
  <1>6. CASE told[e][c] = "dead" /\ EndProcess(p, "killed")
    BY <1>6, EndProcessLeaves DEF e, o
  <1> QED  BY <1>2, <1>3, <1>4, <1>5, <1>6

\* What Get does.
LEMMA GetGets ==
  ASSUME Types, NEW p \in Procs, NEW c \in Clients, c = Conn(p), NEW n \in Nat, NEW k,
         Get(p, n, k)
  PROVE  k <= n /\ Gets(End(p), Peer(p), c, k) /\ KeepsOthers(c)
  <1> DEFINE e == End(p)  o == Peer(p)
  <1>1. e \in Ends /\ o \in Ends /\ e # o /\ \A x \in Ends : x = e \/ x = o
    BY EndsOf
  <1>2. /\ k \in 1..n /\ k <= flow[o][c]
        /\ flow' = Add(flow, o, c, -k)
        /\ rd' = Add(rd, e, c, k)
        /\ UNCHANGED <<pair, conn, shut, told, wr>>
    BY DEF Get
  <1> HIDE DEF e, o
  <1>3. Gets(e, o, c, k)
    BY <1>1, <1>2 DEF Types, ControlTypes, DataTypes, Add, Gets, Counted, Told
  <1>4. KeepsOthers(c)
    BY <1>1, <1>2 DEF Types, ControlTypes, DataTypes, Add, KeepsOthers, Keeps, SameData
  <1> QED  BY <1>2, <1>3, <1>4 DEF e, o

\* The end of file changes nothing.
LEMMA AtEofSees ==
  ASSUME NEW p \in Procs, NEW c \in Clients, c = Conn(p), AtEof(p)
  PROVE  SeesEof(End(p), Peer(p), c) /\ KeepsOthers(c)
  BY DEF AtEof, SeesEof, KeepsOthers, Keeps, SameData, tcp, count

\* A failed read reports the reset.
LEMMA FailsLearns ==
  ASSUME Types, NEW p \in Procs, NEW c \in Clients, c = Conn(p), Fails(p)
  PROVE  flow[Peer(p)][c] = 0 /\ Learns(End(p), Peer(p), c) /\ KeepsOthers(c)
  <1> DEFINE e == End(p)  o == Peer(p)
  <1>1. e \in Ends /\ o \in Ends /\ e # o /\ \A x \in Ends : x = e \/ x = o
    BY EndsOf
  <1>2. /\ flow[o][c] = 0
        /\ told[e][c] = "reset"
        /\ told' = Set(told, e, c, Reported)
        /\ UNCHANGED <<pair, conn, flow, shut, count>>
    BY DEF Fails, IsReset, Reported
  <1> HIDE DEF e, o
  <1>3. Learns(e, o, c)
    BY <1>1, <1>2 DEF Types, ControlTypes, DataTypes, Set, Learns, Counted, Told, count
  <1>4. KeepsOthers(c)
    BY <1>1, <1>2 DEF Types, ControlTypes, DataTypes, Set, KeepsOthers, Keeps, SameData, count
  <1> QED  BY <1>2, <1>3, <1>4 DEF e, o

\* What a program does about a failed read.
LEMMA FailDoes ==
  ASSUME Types, NEW p \in Procs, NEW c \in Clients, c = Conn(p), Fail(p),
         NEW error, error = Program(p)[pc[p]].error
  PROVE  /\ told[End(p)][c] = "reset" /\ flow[Peer(p)][c] = 0
         /\ \/ error = "ends" /\ Leaves(p, "ended")
            \/ error = "undefined" /\ Leaves(p, "killed")
            \/ /\ error \in {"ignored", "summed"} \/ (error = "unsigned" /\ rem[p] = 0)
               /\ Learns(End(p), Peer(p), c) /\ KeepsOthers(c) /\ Goes(p)
            \/ /\ error \in {"retried", "undefined", "summed"}
               /\ Learns(End(p), Peer(p), c) /\ KeepsOthers(c) /\ Counts(p, rem[p])
            \/ /\ error = "unsigned" /\ rem[p] > 0
               /\ Learns(End(p), Peer(p), c) /\ KeepsOthers(c) /\ Counts(p, rem[p] - 1)
  <1>1. CASE /\ error \in {"ends", "undefined"} /\ IsReset(p)
             /\ EndProcess(p, IF error = "ends" THEN "ended" ELSE "killed")
    BY <1>1, EndProcessLeaves DEF IsReset
  <1>2. CASE /\ error \in {"ignored", "summed"} \/ (error = "unsigned" /\ rem[p] = 0)
             /\ Fails(p) /\ GoOn(p)
    BY <1>2, FailsLearns, GoOnGoes DEF Fails, IsReset
  <1>3. CASE /\ error \in {"retried", "undefined", "summed"} \/ (error = "unsigned" /\ rem[p] > 0)
             /\ Fails(p)
             /\ Count(p, IF error = "unsigned" THEN rem[p] - 1 ELSE rem[p])
    BY <1>3, FailsLearns, CountCounts DEF Fails, IsReset
  <1> QED  BY <1>1, <1>2, <1>3 DEF Fail

-----------------------------------------------------------------------------
(* The calls of both sides. *)

\* A write after which the program leaves out its next call has failed.
Skips(p, c) ==
  /\ Program(p)[pc[p]].error = "skips"
  /\ Learns(End(p), Peer(p), c) /\ KeepsOthers(c)
  /\ Idles /\ Moves(p, pc[p] + 2, stat[p], 0)

\* write goes on, or kills its process.
LEMMA WriteDoes ==
  ASSUME Types, NEW p \in Procs, NEW c \in Clients, c = Conn(p), Size(p) \in Nat, Write(p)
  PROVE  /\ At(p, "write")
         /\ \/ Puts(End(p), Peer(p), c, Size(p)) /\ KeepsOthers(c) /\ Goes(p)
            \/ Skips(p, c)
            \/ told[End(p)][c] = "dead" /\ Leaves(p, "killed")
  <1> DEFINE skips == Program(p)[pc[p]].error = "skips"
  <1>1. /\ At(p, "write") /\ Put(p, Size(p), TRUE, TRUE)
        /\ \/ told[End(p)][c] = "dead" \/ GoOn(p)
           \/ told[End(p)][c] = "reset" /\ (IF skips THEN Advance(p, 2) ELSE GoOn(p))
    BY Zenon DEF Write, Put
  <1>2. CASE told[End(p)][c] = "dead"
    BY <1>1, <1>2, PutDoes DEF Puts, Sends, SendsInVain, Learns
  <1>3. CASE told[End(p)][c] # "dead" /\ GoOn(p)
    BY <1>1, <1>3, PutDoes, GoOnGoes
  <1>4. CASE told[End(p)][c] = "reset" /\ skips /\ Advance(p, 2)
    <2>1. Idles /\ Moves(p, pc[p] + 2, stat[p], 0)
      BY <1>4, AdvanceMoves
    <2>2. Learns(End(p), Peer(p), c) /\ KeepsOthers(c)
      BY <1>1, <1>4, PutDoes DEF Puts, Sends, SendsInVain
    <2> QED  BY <1>1, <1>4, <2>1, <2>2 DEF Skips
  <1> QED  BY <1>1, <1>2, <1>3, <1>4

\* read goes on whatever it brings, or ends a program that minds a -1.
LEMMA ReadDoes ==
  ASSUME Types, NEW p \in Procs, NEW c \in Clients, c = Conn(p), Size(p) \in Nat, Read(p),
         Program(p)[pc[p]].error \in {"ignored", "ends"}
  PROVE  /\ At(p, "read")
         /\ \/ /\ KeepsOthers(c) /\ Goes(p)
               /\ \/ \E k \in 1..Size(p) : Gets(End(p), Peer(p), c, k)
                  \/ SeesEof(End(p), Peer(p), c)
                  \/ flow[Peer(p)][c] = 0 /\ Learns(End(p), Peer(p), c)
            \/ /\ told[End(p)][c] = "reset" /\ flow[Peer(p)][c] = 0
               /\ Leaves(p, "ended")
  <1>1. At(p, "read")
    BY DEF Read
  <1>2. CASE \E k \in 1..Size(p) : Get(p, Size(p), k) /\ GoOn(p)
    BY <1>1, <1>2, GetGets, GoOnGoes
  <1>3. CASE AtEof(p) /\ GoOn(p)
    BY <1>1, <1>3, AtEofSees, GoOnGoes
  <1>4. CASE Fail(p)
    BY <1>1, <1>4, FailDoes
  <1> QED  BY <1>2, <1>3, <1>4 DEF Read

\* A loop of reads counts, goes on at its count, or does what it does about a -1.
LEMMA ReadAllDoes ==
  ASSUME Types, NEW p \in Procs, NEW c \in Clients, c = Conn(p), Size(p) \in Nat, ReadAll(p),
         Program(p)[pc[p]].error \in {"ends", "summed", "unsigned"}
  PROVE  /\ At(p, "readAll")
         /\ \/ /\ KeepsOthers(c)
               /\ \E k \in Nat \ {0} :
                    /\ Gets(End(p), Peer(p), c, k)
                    /\ \/ rem[p] + k >= Size(p) /\ Goes(p)
                       \/ rem[p] + k < Size(p) /\ Counts(p, rem[p] + k)
            \/ /\ told[End(p)][c] = "reset" /\ flow[Peer(p)][c] = 0
               /\ \/ Program(p)[pc[p]].error = "ends" /\ Leaves(p, "ended")
                  \/ /\ Program(p)[pc[p]].error \in {"summed", "unsigned"}
                     /\ KeepsOthers(c) /\ Learns(End(p), Peer(p), c)
                     /\ Goes(p) \/ \E r \in 0..rem[p] : Counts(p, r)
  <1>1. At(p, "readAll") /\ flow[Peer(p)][c] \in Nat /\ rem[p] \in Nat
    BY EndsOf DEF ReadAll, Types, ControlTypes, DataTypes
  <1>2. ASSUME NEW k \in 1..flow[Peer(p)][c],
               Get(p, flow[Peer(p)][c], k),
               IF rem[p] + k >= Size(p) THEN GoOn(p) ELSE Count(p, rem[p] + k)
        PROVE  /\ KeepsOthers(c) /\ Gets(End(p), Peer(p), c, k)
               /\ \/ rem[p] + k >= Size(p) /\ Goes(p)
                  \/ rem[p] + k < Size(p) /\ Counts(p, rem[p] + k)
    <2>1. KeepsOthers(c) /\ Gets(End(p), Peer(p), c, k)
      BY <1>1, <1>2, GetGets
    <2>2. CASE rem[p] + k >= Size(p)
      BY <1>2, <2>1, <2>2, GoOnGoes
    <2>3. CASE rem[p] + k < Size(p)
      BY <1>1, <1>2, <2>1, <2>3, CountCounts
    <2> QED  BY <1>1, <2>1, <2>2, <2>3
  <1>3. CASE Fail(p)
    <2>1. rem[p] \in 0..rem[p] /\ (rem[p] > 0 => rem[p] - 1 \in 0..rem[p])
      BY <1>1
    <2> QED  BY <1>1, <1>3, <2>1, FailDoes
  <1>4. 1..flow[Peer(p)][c] \subseteq Nat \ {0}
    BY <1>1
  <1> QED  BY <1>1, <1>2, <1>3, <1>4 DEF ReadAll

\* A loop of reads up to the end of file goes on there, or after a -1 it does not mind.
LEMMA ReadEofDoes ==
  ASSUME Types, NEW p \in Procs, NEW c \in Clients, c = Conn(p), Size(p) \in Nat, ReadEof(p),
         Program(p)[pc[p]].error \in {"ignored", "ends", "retried", "undefined"}
  PROVE  /\ At(p, "readEof")
         /\ \/ /\ KeepsOthers(c)
               /\ \/ Counts(p, rem[p]) /\ \E k \in Nat \ {0} : Gets(End(p), Peer(p), c, k)
                  \/ Goes(p) /\ SeesEof(End(p), Peer(p), c)
                  \/ /\ Program(p)[pc[p]].error # "ends" /\ flow[Peer(p)][c] = 0
                     /\ Learns(End(p), Peer(p), c)
                     /\ Goes(p) \/ Counts(p, rem[p])
            \/ /\ told[End(p)][c] = "reset" /\ flow[Peer(p)][c] = 0
               /\ \/ Leaves(p, "ended")
                  \/ Program(p)[pc[p]].error = "undefined" /\ Leaves(p, "killed")
  <1>1. At(p, "readEof")
    BY DEF ReadEof
  <1>2. CASE \E k \in 1..Size(p) : Get(p, Size(p), k) /\ Stay
    BY <1>1, <1>2, GetGets, StayStays
  <1>3. CASE AtEof(p) /\ GoOn(p)
    BY <1>1, <1>3, AtEofSees, GoOnGoes
  <1>4. CASE Fail(p)
    BY <1>1, <1>4, FailDoes
  <1> QED  BY <1>2, <1>3, <1>4 DEF ReadEof

\* A look takes nothing.
LEMMA PeekDoes ==
  ASSUME Types, NEW p \in Procs, NEW c \in Clients, c = Conn(p), Peek(p)
  PROVE  At(p, "peek") /\ KeepsOthers(c) /\ Goes(p) /\ Keeps(c)
  BY GoOnGoes DEF Peek, KeepsOthers, Keeps, SameData, tcp, count

\* The echo loop reads when it has nothing to write, and writes what it has read.
LEMMA EchoDoes ==
  ASSUME Types, NEW p \in Procs, NEW c \in Clients, c = Conn(p), Size(p) \in Nat, Echo(p)
  PROVE  /\ At(p, "echo")
         /\ \/ /\ rem[p] = 0 /\ KeepsOthers(c)
               /\ \/ \E k \in 1..Size(p) : Gets(End(p), Peer(p), c, k) /\ Counts(p, k)
                  \/ Goes(p) /\ SeesEof(End(p), Peer(p), c)
                  \/ Counts(p, 0) /\ Learns(End(p), Peer(p), c)
            \/ /\ rem[p] > 0 /\ KeepsOthers(c)
               /\ Puts(End(p), Peer(p), c, rem[p]) /\ Counts(p, 0)
            \/ /\ rem[p] > 0 /\ told[End(p)][c] = "dead" /\ Leaves(p, "killed")
  <1>1. At(p, "echo") /\ rem[p] \in Nat
    BY DEF Echo, Types, ControlTypes, DataTypes
  <1>2. CASE /\ rem[p] = 0
             /\ \E k \in 1..Size(p) : Get(p, Size(p), k) /\ Count(p, k)
    <2>1. PICK k \in 1..Size(p) : Get(p, Size(p), k) /\ Count(p, k)
      BY <1>2
    <2>2. KeepsOthers(c) /\ Gets(End(p), Peer(p), c, k)
      BY <2>1, GetGets
    <2>3. Counts(p, k)
      BY <2>1, CountCounts
    <2> QED  BY <1>1, <1>2, <2>2, <2>3
  <1>3. CASE rem[p] = 0 /\ AtEof(p) /\ GoOn(p)
    BY <1>1, <1>3, AtEofSees, GoOnGoes
  <1>4. CASE rem[p] = 0 /\ Fails(p) /\ Stay
    BY <1>1, <1>4, FailsLearns, StayStays
  <1>5. CASE /\ rem[p] > 0
             /\ Put(p, rem[p], Count(p, 0), Count(p, 0))
    <2>1. Put(p, rem[p], TRUE, TRUE) /\ (told[End(p)][c] = "dead" \/ Count(p, 0))
      BY <1>5, Zenon DEF Put
    <2>2. CASE told[End(p)][c] = "dead"
      BY <1>1, <1>5, <2>1, <2>2, PutDoes DEF Puts, Sends, SendsInVain, Learns
    <2>3. CASE Count(p, 0) /\ told[End(p)][c] # "dead"
      <3>1. Counts(p, 0)
        BY <2>3, CountCounts
      <3> QED  BY <1>1, <1>5, <2>1, <2>3, <3>1, PutDoes
    <2> QED  BY <2>1, <2>2, <2>3
  <1> QED  BY <1>2, <1>3, <1>4, <1>5 DEF Echo

\* shutdown half-closes its end.
LEMMA ShutdownDoes ==
  ASSUME Types, NEW p \in Procs, NEW c \in Clients, c = Conn(p), Shutdown(p)
  PROVE  /\ At(p, "shutdown") /\ KeepsOthers(c) /\ Goes(p)
         /\ Counted(End(p), Peer(p), c, 0, 0, 0)
         /\ shut'[End(p)][c] = "half" /\ shut'[Peer(p)][c] = shut[Peer(p)][c]
         /\ told'[End(p)][c] = told[End(p)][c] /\ told'[Peer(p)][c] = told[Peer(p)][c]
  <1>1. At(p, "shutdown") /\ Goes(p)
    BY GoOnGoes DEF Shutdown
  <1> QED  BY <1>1, EndsOf DEF Shutdown, Types, ControlTypes, DataTypes, Set, KeepsOthers, Keeps,
             SameData, Counted, count

\* close closes its end of its connection.
LEMMA CloseDoes ==
  ASSUME Types, NEW p \in Procs, NEW c \in Clients, c = Conn(p), Close(p)
  PROVE  /\ At(p, "close") /\ KeepsOthers(c) /\ Goes(p)
         /\ Closes(End(p), Peer(p), c)
  <1>1. At(p, "close") /\ Goes(p) /\ pair' = pair
    BY GoOnGoes DEF Close
  <1>2. \A d \in Clients : IF d \in {Conn(p)} THEN Closes(End(p), Peer(p), d) ELSE Keeps(d)
    BY CloseAllCloses DEF Close
  <1> QED  BY <1>1, <1>2 DEF KeepsOthers

\* A program that is through leaves.
LEMMA ReturnDoes ==
  ASSUME Types, NEW p \in Procs, Return(p)
  PROVE  stat[p] = "run" /\ pc[p] > Len(Program(p)) /\ Leaves(p, "ended")
  BY EndProcessLeaves DEF Return

-----------------------------------------------------------------------------
(* The steps of a client, and those of the server. *)

ClientIn(c, name) ==
  /\ stat[c] = "run" /\ conn[c] # "none" /\ pc[c] \in 2..Len(pair.client)
  /\ pair.client[pc[c]].call = name

ClientConnects(c) ==
  /\ listening /\ stat[c] = "run" /\ pc[c] = 1
  /\ conn[c] = "none" /\ conn'[c] = "queued"
  /\ SameData(c) /\ KeepsOthers(c) /\ Goes(c)

ClientPrompts(c) ==
  /\ ClientIn(c, "prompt") /\ pc[c] + 1 <= Len(pair.client)
  /\ Keeps(c) /\ KeepsOthers(c) /\ Idles
  /\ \E k \in {pc[c] + 1, Len(pair.client)} : Moves(c, k, stat[c], rem[c])

ClientWrites(c) ==
  LET n == pair.client[pc[c]].size IN
  /\ ClientIn(c, "write") /\ n \in Nat \ {0}
  /\ Puts("client", "server", c, n) /\ KeepsOthers(c) /\ Goes(c)

\* A failed write, after which there is nothing to wait for.
ClientSkips(c) ==
  /\ ClientIn(c, "write") /\ pair.client[pc[c]].error = "skips" /\ pc[c] + 2 <= Len(pair.client)
  /\ Learns("client", "server", c) /\ KeepsOthers(c)
  /\ Idles /\ Moves(c, pc[c] + 2, stat[c], 0)

ClientReads(c) ==
  /\ ClientIn(c, "read") /\ KeepsOthers(c) /\ Goes(c)
  /\ \/ \E k \in Nat \ {0} : Gets("client", "server", c, k)
     \/ SeesEof("client", "server", c)
     \/ flow["server"][c] = 0 /\ Learns("client", "server", c)

ClientReadsAll(c) ==
  LET n == pair.client[pc[c]].size IN
  /\ ClientIn(c, "readAll") /\ n \in 0..Request /\ KeepsOthers(c)
  /\ \/ \E k \in Nat \ {0} :
          /\ Gets("client", "server", c, k)
          /\ \/ rem[c] + k >= n /\ Goes(c)
             \/ rem[c] + k < n /\ Counts(c, rem[c] + k)
     \/ /\ pair.client[pc[c]].error # "ends" /\ flow["server"][c] = 0
        /\ Learns("client", "server", c)
        /\ Goes(c) \/ \E r \in 0..rem[c] : Counts(c, r)

ClientReadsEof(c) ==
  /\ ClientIn(c, "readEof") /\ KeepsOthers(c)
  /\ \/ Counts(c, rem[c]) /\ \E k \in Nat \ {0} : Gets("client", "server", c, k)
     \/ Goes(c) /\ SeesEof("client", "server", c)
     \/ /\ pair.client[pc[c]].error # "ends" /\ flow["server"][c] = 0
        /\ Learns("client", "server", c)
        /\ Goes(c) \/ Counts(c, rem[c])

ClientCloses(c) ==
  /\ ClientIn(c, "close") /\ pc[c] = Len(pair.client)
  /\ Closes("client", "server", c) /\ KeepsOthers(c) /\ Goes(c)

ClientQuits(c) ==
  /\ stat[c] = "run" /\ KeepsOthers(c) /\ Idles
  /\ \E how \in {"ended", "killed"} :
       /\ Moves(c, pc[c], how, rem[c])
       /\ \/ how = "ended" /\ pc[c] = 1 /\ conn[c] = "none" /\ Keeps(c)
          \/ /\ conn[c] # "none" /\ Closes("client", "server", c)
             /\ \/ how = "ended" /\ pc[c] > Len(pair.client)
                \/ how = "killed" /\ ClientIn(c, "write") /\ told["client"][c] = "dead"
                \/ /\ \E name \in {"read", "readAll", "readEof"} : ClientIn(c, name)
                   /\ how = "ended" \/ ~ClientIn(c, "readAll")
                   /\ told["client"][c] = "reset" /\ flow["server"][c] = 0

\* What a client calls fits its place and its connection.
LEMMA ClientCalls ==
  ASSUME Types, Places, NEW c \in Clients, Course(c), NEW name, At(c, name)
  PROVE  /\ Size(c) = pair.client[pc[c]].size /\ Size(c) \in 0..Request /\ Size(c) \in Nat
         /\ stat[c] = "run" /\ pair.client[pc[c]].call = name
         /\ name # "connect" => ClientIn(c, name)
         /\ name = "connect" => pc[c] = 1 /\ conn[c] = "none"
         /\ name \in Talking \cup {"connect"}
         /\ name = "close" => pc[c] = Len(pair.client)
         /\ name = "prompt" => pc[c] + 1 <= Len(pair.client)
         /\ name \in {"read", "write"} => Size(c) > 0
         /\ Program(c)[pc[c]].error = pair.client[pc[c]].error
         /\ name = "read" => pair.client[pc[c]].error \in {"ignored", "ends"}
         /\ name = "readAll" => pair.client[pc[c]].error \in {"ends", "summed"}
         /\ name = "readEof" =>
              pair.client[pc[c]].error \in {"ignored", "ends", "retried", "undefined"}
         /\ name = "write" /\ pair.client[pc[c]].error = "skips" => pc[c] + 2 <= Len(pair.client)
  <1>1. ClientShape(pair.client)
    BY Shapes DEF Types, ControlTypes, DataTypes
  <1>2. stat[c] = "run" /\ pc[c] \in 1..Len(pair.client) /\ pair.client[pc[c]].call = name
    BY TwoEnds DEF At, Running, Places, Place
  <1>3. CASE pc[c] = 1
    <2>1. name = "connect" /\ conn[c] = "none"
      BY <1>1, <1>2, <1>3 DEF ClientShape, Course
    <2>2. Size(c) = pair.client[1].size /\ Size(c) = 0
      BY <1>1, <1>3, TwoEnds DEF Size, ClientShape
    <2> QED  BY <1>1, <1>2, <1>3, <2>1, <2>2, RequestIsSix, TwoEnds DEF ClientShape
  <1>4. CASE pc[c] > 1
    <2>1. pc[c] \in 2..Len(pair.client) /\ conn[c] # "none"
      BY <1>1, <1>2, <1>4 DEF Course, ClientShape
    <2>2. name \in Talking /\ Size(c) = pair.client[pc[c]].size /\ Size(c) \in 0..Request
      BY <1>1, <1>2, <2>1, TwoEnds DEF ClientShape, Size
    <2>3. /\ Program(c)[pc[c]].error = pair.client[pc[c]].error
          /\ name = "read" => pair.client[pc[c]].error \in {"ignored", "ends"}
          /\ name = "readAll" => pair.client[pc[c]].error \in {"ends", "summed"}
          /\ name = "readEof" =>
               pair.client[pc[c]].error \in {"ignored", "ends", "retried", "undefined"}
          /\ name = "write" /\ pair.client[pc[c]].error = "skips" => pc[c] + 2 <= Len(pair.client)
      BY <1>1, <1>2, <2>1, TwoEnds DEF ClientShape
    <2> QED  BY <1>1, <1>2, <2>1, <2>2, <2>3, RequestIsSix DEF ClientShape, ClientIn, Talking
  <1> QED  BY <1>1, <1>2, <1>3, <1>4 DEF ClientShape

\* Every step of a client is one of these.
LEMMA ClientDoes ==
  ASSUME Types, Places, NEW c \in Clients, Course(c), ClientStep(c) \/ Prompt(c)
  PROVE  \/ ClientConnects(c) \/ ClientPrompts(c) \/ ClientWrites(c) \/ ClientSkips(c)
         \/ ClientReads(c) \/ ClientReadsAll(c) \/ ClientReadsEof(c) \/ ClientCloses(c) \/ ClientQuits(c)
  <1>1. /\ c # Server /\ c \in Procs /\ c = Conn(c) /\ End(c) = "client" /\ Peer(c) = "server"
        /\ Program(c) = pair.client
    BY TwoEnds
  <1>2. ASSUME NEW how \in {"ended", "killed"}, Leaves(c, how)
        PROVE  /\ KeepsOthers(c) /\ Idles /\ Moves(c, pc[c], how, rem[c])
               /\ conn[c] = "none" => Keeps(c)
               /\ conn[c] # "none" => Closes("client", "server", c)
    BY <1>1, <1>2 DEF Leaves, Owned, KeepsOthers, Idles
  <1>3. CASE Connect(c)
    <2>1. At(c, "connect")
      BY <1>3 DEF Connect
    <2>2. stat[c] = "run" /\ pc[c] = 1 /\ conn[c] = "none"
      BY <2>1, ClientCalls
    <2>3. CASE /\ listening /\ conn' = [conn EXCEPT ![c] = "queued"] /\ GoOn(c)
               /\ UNCHANGED <<pair, tcp, count>>
      <3>1. SameData(c) /\ KeepsOthers(c) /\ conn'[c] = "queued"
        BY <2>3 DEF SameData, KeepsOthers, Keeps, Types, ControlTypes, DataTypes, tcp, count
      <3> QED  BY <1>1, <2>2, <2>3, <3>1, GoOnGoes DEF ClientConnects
    <2>4. CASE ~listening /\ EndProcess(c, "ended")
      <3>1. Leaves(c, "ended")
        BY <1>1, <2>4, EndProcessLeaves
      <3> QED  BY <1>2, <2>2, <3>1 DEF ClientQuits
    <2> QED  BY <1>3, <2>3, <2>4 DEF Connect
  <1>4. CASE Prompt(c)
    <2>1. At(c, "prompt") /\ ClientIn(c, "prompt") /\ pc[c] + 1 <= Len(pair.client)
      BY <1>4, ClientCalls DEF Prompt
    <2>2. PICK k \in {pc[c] + 1, Len(pair.client)} : pc' = [pc EXCEPT ![c] = k]
      BY <1>1, <1>4 DEF Prompt
    <2>3. Moves(c, k, stat[c], rem[c]) /\ Idles /\ Keeps(c) /\ KeepsOthers(c)
      BY <1>1, <1>4, <2>2 DEF Prompt, Moves, Idles, Keeps, SameData, KeepsOthers, Types,
        ControlTypes, DataTypes, tcp, count
    <2> QED  BY <2>1, <2>3 DEF ClientPrompts
  <1>5. CASE Write(c)
    <2>1. At(c, "write")
      BY <1>5 DEF Write
    <2>2. Size(c) \in Nat \ {0} /\ Size(c) = pair.client[pc[c]].size /\ ClientIn(c, "write")
      BY <2>1, ClientCalls
    <2>3. \/ Puts("client", "server", c, Size(c)) /\ KeepsOthers(c) /\ Goes(c)
          \/ Skips(c, c)
          \/ told["client"][c] = "dead" /\ Leaves(c, "killed")
      BY <1>1, <1>5, <2>2, WriteDoes
    <2>4. CASE Skips(c, c)
      BY <1>1, <2>1, <2>2, <2>4, ClientCalls DEF Skips, ClientSkips
    <2> QED  BY <1>2, <2>2, <2>3, <2>4 DEF ClientWrites, ClientQuits, ClientIn
  <1>6. CASE Read(c)
    <2>1. At(c, "read")
      BY <1>6 DEF Read
    <2>2. /\ Size(c) \in Nat \ {0} /\ ClientIn(c, "read")
          /\ Program(c)[pc[c]].error \in {"ignored", "ends"}
      BY <2>1, ClientCalls
    <2>3. \/ /\ KeepsOthers(c) /\ Goes(c)
             /\ \/ \E k \in 1..Size(c) : Gets("client", "server", c, k)
                \/ SeesEof("client", "server", c)
                \/ flow["server"][c] = 0 /\ Learns("client", "server", c)
          \/ /\ told["client"][c] = "reset" /\ flow["server"][c] = 0
             /\ Leaves(c, "ended")
      BY <1>1, <1>6, <2>2, ReadDoes
    <2> QED  BY <1>2, <2>2, <2>3 DEF ClientReads, ClientQuits, ClientIn
  <1>7. CASE ReadAll(c)
    <2>1. At(c, "readAll")
      BY <1>7 DEF ReadAll
    <2>2. Size(c) \in Nat /\ Size(c) \in 0..Request /\ Size(c) = pair.client[pc[c]].size
          /\ ClientIn(c, "readAll") /\ pair.client[pc[c]].error \in {"ends", "summed"}
      BY <2>1, ClientCalls
    <2>3. \/ /\ KeepsOthers(c)
             /\ \E k \in Nat \ {0} :
                  /\ Gets("client", "server", c, k)
                  /\ \/ rem[c] + k >= Size(c) /\ Goes(c)
                     \/ rem[c] + k < Size(c) /\ Counts(c, rem[c] + k)
          \/ /\ told["client"][c] = "reset" /\ flow["server"][c] = 0
             /\ \/ Leaves(c, "ended")
                \/ /\ pair.client[pc[c]].error # "ends"
                   /\ KeepsOthers(c) /\ Learns("client", "server", c)
                   /\ Goes(c) \/ \E r \in 0..rem[c] : Counts(c, r)
      BY <1>1, <1>7, <2>2, ReadAllDoes
    <2> QED  BY <1>2, <2>2, <2>3 DEF ClientReadsAll, ClientQuits, ClientIn
  <1>8. CASE ReadEof(c)
    <2>1. At(c, "readEof")
      BY <1>8 DEF ReadEof
    <2>2. /\ Size(c) \in Nat /\ ClientIn(c, "readEof") /\ ~ClientIn(c, "readAll")
          /\ Program(c)[pc[c]].error \in {"ignored", "ends", "retried", "undefined"}
          /\ Program(c)[pc[c]].error = pair.client[pc[c]].error
      BY <2>1, ClientCalls DEF ClientIn
    <2>3. \/ /\ KeepsOthers(c)
             /\ \/ Counts(c, rem[c]) /\ \E k \in Nat \ {0} : Gets("client", "server", c, k)
                \/ Goes(c) /\ SeesEof("client", "server", c)
                \/ /\ pair.client[pc[c]].error # "ends" /\ flow["server"][c] = 0
                   /\ Learns("client", "server", c)
                   /\ Goes(c) \/ Counts(c, rem[c])
          \/ /\ told["client"][c] = "reset" /\ flow["server"][c] = 0
             /\ Leaves(c, "ended") \/ Leaves(c, "killed")
      BY <1>1, <1>8, <2>2, ReadEofDoes
    <2>4. CASE /\ told["client"][c] = "reset" /\ flow["server"][c] = 0
               /\ Leaves(c, "ended") \/ Leaves(c, "killed")
      BY <1>2, <2>2, <2>4 DEF ClientQuits, ClientIn
    <2> QED  BY <2>2, <2>3, <2>4 DEF ClientReadsEof
  <1>9. CASE Close(c)
    <2>1. At(c, "close")
      BY <1>9 DEF Close
    <2> QED  BY <1>1, <1>9, <2>1, CloseDoes, ClientCalls DEF ClientCloses
  <1>10. CASE Return(c)
    <2>1. stat[c] = "run" /\ pc[c] > Len(pair.client) /\ Leaves(c, "ended")
      BY <1>1, <1>10, ReturnDoes
    <2>2. conn[c] # "none"
      BY <2>1, Shapes DEF Course, ClientShape, Types, ControlTypes, DataTypes
    <2> QED  BY <1>2, <2>1, <2>2 DEF ClientQuits
  <1>11. CASE Peek(c) \/ Echo(c) \/ Shutdown(c)
    <2>1. At(c, "peek") \/ At(c, "echo") \/ At(c, "shutdown")
      BY <1>11 DEF Peek, Echo, Shutdown
    <2> QED  BY <2>1, ClientCalls DEF Talking
  <1> QED  BY <1>3, <1>4, <1>5, <1>6, <1>7, <1>8, <1>9, <1>10, <1>11 DEF ClientStep, Step

ServerIn(c, name) ==
  /\ Serves(c) /\ conn[c] = "accepted" /\ pc[Server] \in 3..Len(pair.server)
  /\ pair.server[pc[Server]].call = name

ServerListens ==
  /\ stat[Server] = "run" /\ pc[Server] = 1
  /\ pair' = pair /\ turn' = turn /\ cur' = cur /\ listening'
  /\ Moves(Server, 2, stat[Server], rem[Server])
  /\ \A d \in Clients : Keeps(d)

ServerAccepts(c) ==
  /\ stat[Server] = "run" /\ pc[Server] = 2
  /\ conn[c] = "queued" /\ conn'[c] = "accepted" /\ SameData(c) /\ KeepsOthers(c)
  /\ cur' = c /\ turn' = turn - 1 /\ listening' = listening
  /\ Moves(Server, 3, stat[Server], rem[Server])

ServerTurns(c) ==
  /\ ServerIn(c, "again") /\ pc[Server] > CloseAt(pair.server)
  /\ Keeps(c) /\ KeepsOthers(c) /\ Idles
  /\ Moves(Server, IF turn > 0 THEN 2 ELSE pc[Server] + 1, stat[Server], rem[Server])

ServerWrites(c) ==
  LET n == pair.server[pc[Server]].size IN
  /\ ServerIn(c, "write") /\ n \in Nat \ {0}
  /\ Puts("server", "client", c, n) /\ KeepsOthers(c) /\ Goes(Server)

ServerReads(c) ==
  LET n == pair.server[pc[Server]].size IN
  /\ ServerIn(c, "read") /\ n \in Nat \ {0} /\ KeepsOthers(c) /\ Goes(Server)
  /\ \/ \E k \in 1..n : Gets("server", "client", c, k)
     \/ SeesEof("server", "client", c)
     \/ flow["client"][c] = 0 /\ Learns("server", "client", c)

ServerReadsAll(c) ==
  LET n == pair.server[pc[Server]].size IN
  /\ ServerIn(c, "readAll") /\ n \in 0..Request /\ KeepsOthers(c)
  /\ \/ \E k \in Nat \ {0} :
          /\ Gets("server", "client", c, k)
          /\ \/ rem[Server] + k >= n /\ Goes(Server)
             \/ rem[Server] + k < n /\ Counts(Server, rem[Server] + k)
     \/ /\ Learns("server", "client", c)
        /\ Goes(Server) \/ \E r \in 0..rem[Server] : Counts(Server, r)

ServerReadsEof(c) ==
  /\ ServerIn(c, "readEof") /\ KeepsOthers(c)
  /\ \/ Counts(Server, rem[Server]) /\ \E k \in Nat \ {0} : Gets("server", "client", c, k)
     \/ Goes(Server) /\ SeesEof("server", "client", c)

\* A look at the stream, or at an operator that is one.
ServerPeeks(c) ==
  /\ ServerIn(c, "peek") \/ ServerIn(c, "operator")
  /\ Keeps(c) /\ KeepsOthers(c) /\ Goes(Server)

ServerEchoes(c) ==
  LET n == pair.server[pc[Server]].size IN
  /\ ServerIn(c, "echo") /\ n \in 0..Request /\ KeepsOthers(c)
  /\ \/ /\ rem[Server] = 0
        /\ \/ \E k \in 1..n : Gets("server", "client", c, k) /\ Counts(Server, k)
           \/ Goes(Server) /\ SeesEof("server", "client", c)
           \/ Counts(Server, 0) /\ Learns("server", "client", c)
     \/ /\ rem[Server] > 0
        /\ Puts("server", "client", c, rem[Server]) /\ Counts(Server, 0)

ServerShuts(c) ==
  /\ ServerIn(c, "shutdown") /\ KeepsOthers(c) /\ Goes(Server)
  /\ Counted("server", "client", c, 0, 0, 0)
  /\ shut'["server"][c] = "half" /\ shut'["client"][c] = shut["client"][c]
  /\ told'["server"][c] = told["server"][c] /\ told'["client"][c] = told["client"][c]

ServerCloses(c) ==
  /\ ServerIn(c, "close") /\ pc[Server] = CloseAt(pair.server)
  /\ Closes("server", "client", c) /\ KeepsOthers(c) /\ Goes(Server)

\* The connections that end with the server are those of the backlog and cur.
ServerQuits ==
  \E how \in {"ended", "killed"} :
    /\ stat[Server] = "run" /\ Moves(Server, pc[Server], how, rem[Server])
    /\ pair' = pair /\ turn' = turn /\ cur' = cur /\ listening' = FALSE
    /\ \A d \in Clients :
         IF conn[d] = "queued" \/ (conn[d] = "accepted" /\ d = cur)
           THEN Closes("server", "client", d) ELSE Keeps(d)
    /\ \/ how = "ended" /\ pc[Server] = 1
       \/ how = "ended" /\ pc[Server] > Len(pair.server)
       \/ how = "ended" /\ \E c \in Clients : ServerIn(c, "operator")
       \/ /\ how = "ended"
          /\ \E c \in Clients : /\ ServerIn(c, "read") \/ ServerIn(c, "readEof")
                              /\ told["server"][c] = "reset"
       \/ /\ how = "killed"
          /\ \E c \in Clients :
               /\ ServerIn(c, "write") \/ (ServerIn(c, "echo") /\ rem[Server] > 0)
               /\ told["server"][c] = "dead"

\* After accept the server calls with the client it serves.
LEMMA ServerCalls ==
  ASSUME Types, Places, NEW name, At(Server, name), name \notin {"listen", "accept"}
  PROVE  /\ Size(Server) = pair.server[pc[Server]].size /\ Size(Server) \in 0..Request
         /\ Size(Server) \in Nat /\ cur \in Clients /\ ServerIn(cur, name)
         /\ name \in Serving
         /\ name = "close" => pc[Server] = CloseAt(pair.server)
         /\ name = "again" => pc[Server] > CloseAt(pair.server)
         /\ name \in {"read", "write", "echo"} => Size(Server) > 0
         /\ Program(Server)[pc[Server]].error \in
              CASE name = "readAll" -> {"unsigned"} [] name = "readEof" -> {"ends"}
                [] name = "read" -> {"ignored", "ends"} [] OTHER -> {"ignored"}
  <1>1. ServerShape(pair.server)
    BY Shapes DEF Types, ControlTypes, DataTypes
  <1>2. /\ stat[Server] = "run" /\ pc[Server] \in 1..Len(pair.server)
        /\ pair.server[pc[Server]].call = name
    BY TwoEnds DEF At, Running, Places, Place
  <1>3. pc[Server] \in 3..Len(pair.server)
    BY <1>1, <1>2 DEF ServerShape
  <1>4. cur \in Clients /\ Serves(cur) /\ conn[cur] = "accepted"
    BY <1>2, <1>3 DEF Places, Place, Serves
  <1>5. Size(Server) = pair.server[pc[Server]].size
    BY TwoEnds DEF Size
  <1>6. Program(Server)[pc[Server]].error \in
          CASE name = "readAll" -> {"unsigned"} [] name = "readEof" -> {"ends"}
            [] name = "read" -> {"ignored", "ends"} [] OTHER -> {"ignored"}
    BY <1>1, <1>2, <1>3, TwoEnds DEF ServerShape
  <1> QED  BY <1>1, <1>2, <1>3, <1>4, <1>5, <1>6, RequestIsSix DEF ServerShape, ServerIn

\* The second call of a server, and no other, is accept.
LEMMA AtTheDoor ==
  ASSUME Types, Places, At(Server, "accept")
  PROVE  stat[Server] = "run" /\ pc[Server] = 2
  <1>1. ServerShape(pair.server)
    BY Shapes DEF Types, ControlTypes, DataTypes
  <1>2. /\ stat[Server] = "run" /\ pc[Server] \in 1..Len(pair.server)
        /\ pair.server[pc[Server]].call = "accept"
    BY TwoEnds DEF At, Running, Places, Place
  <1>3. ~(pc[Server] \in 3..Len(pair.server))
    BY <1>1, <1>2 DEF ServerShape, Serving
  <1>4. pc[Server] = 1 \/ pc[Server] = 2
    BY <1>1, <1>2, <1>3 DEF ServerShape
  <1> QED  BY <1>1, <1>2, <1>4 DEF ServerShape

\* Every step of the server is one of these.
LEMMA ServerDoes ==
  ASSUME Types, Places, ServerStep
  PROVE  \/ ServerListens \/ ServerQuits
         \/ \E c \in Clients :
              \/ ServerAccepts(c) \/ ServerTurns(c) \/ ServerWrites(c) \/ ServerReads(c)
              \/ ServerReadsAll(c) \/ ServerReadsEof(c) \/ ServerPeeks(c) \/ ServerEchoes(c)
              \/ ServerShuts(c) \/ ServerCloses(c)
  <1>1. /\ Server \in Procs /\ cur = Conn(Server) /\ End(Server) = "server"
        /\ Peer(Server) = "client" /\ Program(Server) = pair.server
    BY TwoEnds
  <1>2. ASSUME NEW how \in {"ended", "killed"}, Leaves(Server, how)
        PROVE  /\ Moves(Server, pc[Server], how, rem[Server])
               /\ pair' = pair /\ turn' = turn /\ cur' = cur /\ listening' = FALSE
               /\ \A d \in Clients :
                    IF conn[d] = "queued" \/ (conn[d] = "accepted" /\ d = cur)
                      THEN Closes("server", "client", d) ELSE Keeps(d)
    BY <1>1, <1>2 DEF Leaves, Owned
  <1>3. CASE Listen
    <2>1. stat[Server] = "run" /\ pc[Server] = 1
      <3>1. ServerShape(pair.server)
        BY Shapes DEF Types, ControlTypes, DataTypes
      <3>2. At(Server, "listen")
        BY <1>3 DEF Listen
      <3>3. stat[Server] = "run" /\ pc[Server] \in 1..Len(pair.server)
            /\ pair.server[pc[Server]].call = "listen"
        BY <1>1, <3>2 DEF At, Running, Places, Place
      <3>4. ~(pc[Server] \in 3..Len(pair.server))
        BY <3>1, <3>3 DEF ServerShape, Serving
      <3>5. pc[Server] = 1 \/ pc[Server] = 2
        BY <3>1, <3>3, <3>4 DEF ServerShape
      <3> QED  BY <3>1, <3>3, <3>5 DEF ServerShape
    <2>2. CASE EndProcess(Server, "ended")
      <3>1. Leaves(Server, "ended")
        BY <1>1, <2>2, EndProcessLeaves
      <3> QED  BY <1>2, <2>1, <3>1 DEF ServerQuits
    <2>3. CASE /\ listening' = TRUE
               /\ pc' = [pc EXCEPT ![Server] = 2]
               /\ UNCHANGED <<pair, stat, rem, turn, cur, conn, tcp, count>>
      BY <1>1, <2>1, <2>3 DEF ServerListens, Moves, Keeps, SameData, Types, ControlTypes,
        DataTypes, tcp, count
    <2> QED  BY <1>3, <2>2, <2>3 DEF Listen
  <1>4. CASE Accept
    <2>1. stat[Server] = "run" /\ pc[Server] = 2
      BY <1>4, AtTheDoor DEF Accept
    <2>2. PICK c \in Clients : conn[c] = "queued" /\ conn' = [conn EXCEPT ![c] = "accepted"]
                               /\ cur' = c
      BY <1>4 DEF Accept
    <2>3. Moves(Server, 3, stat[Server], rem[Server])
      BY <1>1, <1>4, <2>1 DEF Accept, Moves, Types, ControlTypes, DataTypes
    <2>4. SameData(c) /\ KeepsOthers(c) /\ conn'[c] = "accepted"
      BY <1>4, <2>2 DEF Accept, SameData, KeepsOthers, Keeps, Types, ControlTypes, DataTypes,
        tcp, count
    <2> QED  BY <1>4, <2>1, <2>2, <2>3, <2>4 DEF Accept, ServerAccepts
  <1>5. CASE NextTurn
    <2>1. At(Server, "again")
      BY <1>5 DEF NextTurn
    <2>2. cur \in Clients /\ ServerIn(cur, "again") /\ pc[Server] > CloseAt(pair.server)
      BY <2>1, ServerCalls
    <2>3. Moves(Server, IF turn > 0 THEN 2 ELSE pc[Server] + 1, stat[Server], rem[Server])
      BY <1>1, <1>5 DEF NextTurn, Moves, Types, ControlTypes, DataTypes
    <2>4. Idles /\ Keeps(cur) /\ KeepsOthers(cur)
      BY <1>5 DEF NextTurn, Idles, Keeps, SameData, KeepsOthers, tcp, count
    <2> QED  BY <2>2, <2>3, <2>4 DEF ServerTurns
  <1>6. CASE Operator(Server)
    <2>1. cur \in Clients /\ ServerIn(cur, "operator")
      BY <1>6, ServerCalls DEF Operator
    <2>2. CASE GoOn(Server) /\ UNCHANGED <<pair, conn, tcp, count>>
      <3>1. Keeps(cur) /\ KeepsOthers(cur)
        BY <2>2 DEF Keeps, SameData, KeepsOthers, tcp, count
      <3> QED  BY <1>1, <2>1, <2>2, <3>1, GoOnGoes DEF ServerPeeks
    <2>3. CASE EndProcess(Server, "ended")
      <3>1. Leaves(Server, "ended") /\ stat[Server] = "run"
        BY <1>1, <2>1, <2>3, EndProcessLeaves DEF ServerIn, Serves
      <3> QED  BY <1>2, <2>1, <3>1 DEF ServerQuits
    <2> QED  BY <1>6, <2>2, <2>3 DEF Operator
  <1>7. CASE Write(Server)
    <2>1. /\ Size(Server) \in Nat \ {0} /\ Size(Server) = pair.server[pc[Server]].size
          /\ cur \in Clients /\ ServerIn(cur, "write") /\ stat[Server] = "run"
          /\ Program(Server)[pc[Server]].error = "ignored"
      BY <1>7, ServerCalls DEF Write, ServerIn, Serves
    <2>2. \/ Puts("server", "client", cur, Size(Server)) /\ KeepsOthers(cur) /\ Goes(Server)
          \/ told["server"][cur] = "dead" /\ Leaves(Server, "killed")
      BY <1>1, <1>7, <2>1, WriteDoes DEF Skips
    <2>3. CASE told["server"][cur] = "dead" /\ Leaves(Server, "killed")
      BY <1>2, <2>1, <2>3 DEF ServerQuits
    <2> QED  BY <2>1, <2>2, <2>3 DEF ServerWrites
  <1>8. CASE Read(Server)
    <2>1. /\ Size(Server) \in Nat \ {0} /\ Size(Server) = pair.server[pc[Server]].size
          /\ cur \in Clients /\ ServerIn(cur, "read") /\ stat[Server] = "run"
          /\ Program(Server)[pc[Server]].error \in {"ignored", "ends"}
      BY <1>8, ServerCalls DEF Read, ServerIn, Serves
    <2>2. \/ /\ KeepsOthers(cur) /\ Goes(Server)
             /\ \/ \E k \in 1..Size(Server) : Gets("server", "client", cur, k)
                \/ SeesEof("server", "client", cur)
                \/ flow["client"][cur] = 0 /\ Learns("server", "client", cur)
          \/ told["server"][cur] = "reset" /\ Leaves(Server, "ended")
      BY <1>1, <1>8, <2>1, ReadDoes
    <2>3. CASE told["server"][cur] = "reset" /\ Leaves(Server, "ended")
      BY <1>2, <2>1, <2>3 DEF ServerQuits
    <2> QED  BY <2>1, <2>2, <2>3 DEF ServerReads
  <1>9. CASE ReadAll(Server)
    <2>1. /\ Size(Server) \in Nat /\ Size(Server) \in 0..Request
          /\ Size(Server) = pair.server[pc[Server]].size
          /\ cur \in Clients /\ ServerIn(cur, "readAll")
          /\ Program(Server)[pc[Server]].error = "unsigned"
      BY <1>9, ServerCalls DEF ReadAll
    <2>2. /\ KeepsOthers(cur)
          /\ \/ \E k \in Nat \ {0} :
                  /\ Gets("server", "client", cur, k)
                  /\ \/ rem[Server] + k >= Size(Server) /\ Goes(Server)
                     \/ rem[Server] + k < Size(Server) /\ Counts(Server, rem[Server] + k)
             \/ /\ Learns("server", "client", cur)
                /\ Goes(Server) \/ \E r \in 0..rem[Server] : Counts(Server, r)
      BY <1>1, <1>9, <2>1, ReadAllDoes
    <2> QED  BY <2>1, <2>2 DEF ServerReadsAll
  <1>10. CASE ReadEof(Server)
    <2>1. /\ Size(Server) \in Nat /\ cur \in Clients /\ ServerIn(cur, "readEof")
          /\ stat[Server] = "run" /\ Program(Server)[pc[Server]].error = "ends"
      BY <1>10, ServerCalls DEF ReadEof, ServerIn, Serves
    <2>2. \/ /\ KeepsOthers(cur)
             /\ \/ /\ Counts(Server, rem[Server])
                   /\ \E k \in Nat \ {0} : Gets("server", "client", cur, k)
                \/ Goes(Server) /\ SeesEof("server", "client", cur)
          \/ told["server"][cur] = "reset" /\ Leaves(Server, "ended")
      BY <1>1, <1>10, <2>1, ReadEofDoes
    <2>3. CASE told["server"][cur] = "reset" /\ Leaves(Server, "ended")
      BY <1>2, <2>1, <2>3 DEF ServerQuits
    <2> QED  BY <2>1, <2>2, <2>3 DEF ServerReadsEof
  <1>11. CASE Peek(Server)
    <2>1. cur \in Clients /\ ServerIn(cur, "peek")
      BY <1>11, ServerCalls DEF Peek
    <2> QED  BY <1>1, <1>11, <2>1, PeekDoes DEF ServerPeeks
  <1>12. CASE Echo(Server)
    <2>1. /\ Size(Server) \in Nat /\ Size(Server) \in 0..Request
          /\ Size(Server) = pair.server[pc[Server]].size
          /\ cur \in Clients /\ ServerIn(cur, "echo") /\ stat[Server] = "run"
      BY <1>12, ServerCalls DEF Echo, ServerIn, Serves
    <2>2. \/ /\ rem[Server] = 0 /\ KeepsOthers(cur)
             /\ \/ \E k \in 1..Size(Server) : Gets("server", "client", cur, k) /\ Counts(Server, k)
                \/ Goes(Server) /\ SeesEof("server", "client", cur)
                \/ Counts(Server, 0) /\ Learns("server", "client", cur)
          \/ /\ rem[Server] > 0 /\ KeepsOthers(cur)
             /\ Puts("server", "client", cur, rem[Server]) /\ Counts(Server, 0)
          \/ rem[Server] > 0 /\ told["server"][cur] = "dead" /\ Leaves(Server, "killed")
      BY <1>1, <1>12, <2>1, EchoDoes
    <2>3. CASE rem[Server] > 0 /\ told["server"][cur] = "dead" /\ Leaves(Server, "killed")
      BY <1>2, <2>1, <2>3 DEF ServerQuits
    <2> QED  BY <2>1, <2>2, <2>3 DEF ServerEchoes
  <1>13. CASE Shutdown(Server)
    <2>1. cur \in Clients /\ ServerIn(cur, "shutdown")
      BY <1>13, ServerCalls DEF Shutdown
    <2> QED  BY <1>1, <1>13, <2>1, ShutdownDoes DEF ServerShuts
  <1>14. CASE Close(Server)
    <2>1. /\ cur \in Clients /\ ServerIn(cur, "close")
          /\ pc[Server] = CloseAt(pair.server)
      BY <1>14, ServerCalls DEF Close
    <2> QED  BY <1>1, <1>14, <2>1, CloseDoes DEF ServerCloses
  <1>15. CASE Return(Server)
    <2>1. stat[Server] = "run" /\ pc[Server] > Len(pair.server) /\ Leaves(Server, "ended")
      BY <1>1, <1>15, ReturnDoes
    <2> QED  BY <1>2, <2>1 DEF ServerQuits
  <1> QED  BY <1>3, <1>4, <1>5, <1>6, <1>7, <1>8, <1>9, <1>10, <1>11, <1>12, <1>13, <1>14,
              <1>15 DEF ServerStep, Step

-----------------------------------------------------------------------------
(* The domains are kept. *)

\* Adding to a table of numbers gives one.
LEMMA AddTyped ==
  ASSUME NEW f \in [Ends -> [Clients -> Nat]], NEW e \in Ends, NEW c \in Clients, NEW n \in Nat
  PROVE  Add(f, e, c, n) \in [Ends -> [Clients -> Nat]]
  <1>1. [f[e] EXCEPT ![c] = @ + n] \in [Clients -> Nat]
    OBVIOUS
  <1> QED  BY <1>1 DEF Add

\* Setting an entry keeps a table.
LEMMA SetTyped ==
  ASSUME NEW S, NEW f \in [Ends -> [Clients -> S]], NEW e \in Ends, NEW c \in Clients, NEW x \in S
  PROVE  Set(f, e, c, x) \in [Ends -> [Clients -> S]]
  <1>1. [f[e] EXCEPT ![c] = x] \in [Clients -> S]
    OBVIOUS
  <1> QED  BY <1>1 DEF Set

\* What is reported is something that can be told.
LEMMA SetTold ==
  ASSUME Types, NEW p \in Procs, NEW c \in Clients
  PROVE  /\ Set(told, End(p), c, "reset") \in [Ends -> [Clients -> {"ok", "reset", "dead"}]]
         /\ Set(told, End(p), c, "dead") \in [Ends -> [Clients -> {"ok", "reset", "dead"}]]
  <1> DEFINE S == {"ok", "reset", "dead"}
  <1>1. told \in [Ends -> [Clients -> S]] /\ End(p) \in Ends /\ "reset" \in S /\ "dead" \in S
    BY EndsOf DEF Types, DataTypes
  <1> HIDE DEF S
  <1>2. /\ Set(told, End(p), c, "reset") \in [Ends -> [Clients -> S]]
        /\ Set(told, End(p), c, "dead") \in [Ends -> [Clients -> S]]
    BY <1>1, SetTyped
  <1> QED  BY <1>2 DEF S

\* Going on keeps the domains of the control, and so does counting.
LEMMA GoOnTyped ==
  ASSUME ControlTypes, NEW p \in Procs, NEW n \in Nat,
         GoOn(p) \/ Advance(p, n) \/ Count(p, n) \/ Stay
  PROVE  ControlTypes'
  BY DEF ControlTypes, GoOn, Advance, Count, Stay, procs

\* Closing keeps the domains of the data.
LEMMA CloseAllTyped ==
  ASSUME DataTypes, NEW p \in Procs, NEW cs, CloseAll(p, cs), UNCHANGED <<pair, conn, wr, rd>>
  PROVE  DataTypes'
  <1> DEFINE e == End(p)  o == Peer(p)
  <1>1. e \in Ends /\ o \in Ends /\ e # o
    BY EndsOf
  <1>2. /\ shut' = [shut EXCEPT ![e] = [c \in Clients |-> IF c \in cs THEN "closed" ELSE @[c]]]
        /\ told' = [told EXCEPT ![o] = [c \in Clients |->
                IF c \in cs /\ shut[e][c] # "closed" /\ (flow[o][c] > 0 \/ Waits(p, c))
                  THEN Reset(@[c], e, c) ELSE @[c]]]
        /\ flow' = [flow EXCEPT
             ![o] = [c \in Clients |-> IF c \in cs THEN 0 ELSE @[c]],
             ![e] = [c \in Clients |-> IF pair.win /\ told'[o][c] # told[o][c] THEN 0 ELSE @[c]]]
    BY DEF CloseAll, e, o
  <1> HIDE DEF e, o
  <1>3. shut' \in [Ends -> [Clients -> {"open", "half", "closed"}]]
    BY <1>1, <1>2 DEF DataTypes
  <1>4. told' \in [Ends -> [Clients -> {"ok", "reset", "dead"}]]
    <2>1. \A c \in Clients : Reset(told[o][c], e, c) \in {"ok", "reset", "dead"}
      BY <1>1 DEF DataTypes, Reset
    <2> QED  BY <1>1, <1>2, <2>1 DEF DataTypes
  <1>5. flow' \in [Ends -> [Clients -> Nat]]
    <2>1. /\ [c \in Clients |-> IF c \in cs THEN 0 ELSE flow[o][c]] \in [Clients -> Nat]
          /\ [c \in Clients |-> IF pair.win /\ told'[o][c] # told[o][c] THEN 0 ELSE flow[e][c]]
               \in [Clients -> Nat]
      BY <1>1 DEF DataTypes
    <2> QED  BY <1>1, <1>2, <2>1 DEF DataTypes
  <1> QED  BY <1>3, <1>4, <1>5 DEF DataTypes

\* An end keeps the domains.
LEMMA EndProcessTyped ==
  ASSUME Types, NEW p \in Procs, NEW how \in {"ended", "killed"}, EndProcess(p, how)
  PROVE  Types'
  <1>1. ControlTypes'
    BY DEF Types, ControlTypes, EndProcess
  <1>2. CloseAll(p, Owned(p)) /\ pair' = pair /\ conn' = conn /\ wr' = wr /\ rd' = rd
    BY DEF EndProcess, count
  <1>3. DataTypes'
    BY <1>2, CloseAllTyped DEF Types
  <1> QED  BY <1>1, <1>3 DEF Types

\* A write keeps the domains of the data.
LEMMA PutTyped ==
  ASSUME Types, NEW p \in Procs, NEW c \in Clients, c = Conn(p), NEW n \in Nat,
         Put(p, n, TRUE, TRUE)
  PROVE  IF told[End(p)][c] = "dead" THEN Types' ELSE DataTypes'
  <1>1. CASE told[End(p)][c] = "dead"
    BY <1>1, EndProcessTyped DEF Put
  <1>2. CASE told[End(p)][c] # "dead"
    <2>1. wr' = wr \/ wr' = Add(wr, End(p), c, n)
      BY <1>2 DEF Put, count
    <2>2. flow' = flow \/ flow' = Add(flow, End(p), c, n)
      BY <1>2 DEF Put
    <2>3. told' = told \/ told' = Set(told, End(p), c, "reset") \/ told' = Set(told, End(p), c, "dead")
      BY <1>2 DEF Put
    <2>4. pair' = pair /\ conn' = conn /\ shut' = shut /\ rd' = rd
      BY <1>2 DEF Put, count
    <2>5. wr' \in [Ends -> [Clients -> Nat]] /\ flow' \in [Ends -> [Clients -> Nat]]
      <3>1. /\ wr \in [Ends -> [Clients -> Nat]] /\ flow \in [Ends -> [Clients -> Nat]]
            /\ End(p) \in Ends
        BY EndsOf DEF Types, DataTypes
      <3>2. /\ Add(wr, End(p), c, n) \in [Ends -> [Clients -> Nat]]
            /\ Add(flow, End(p), c, n) \in [Ends -> [Clients -> Nat]]
        BY <3>1, AddTyped
      <3> QED  BY <2>1, <2>2, <3>1, <3>2
    <2>6. told' \in [Ends -> [Clients -> {"ok", "reset", "dead"}]]
      BY <2>3, SetTold DEF Types, DataTypes
    <2> QED  BY <1>2, <2>4, <2>5, <2>6 DEF Types, DataTypes
  <1> QED  BY <1>1, <1>2

\* A read keeps the domains of the data.
LEMMA GetTyped ==
  ASSUME Types, NEW p \in Procs, NEW c \in Clients, c = Conn(p), NEW n \in Nat, NEW k,
         Get(p, n, k)
  PROVE  k \in Nat /\ DataTypes'
  BY EndsOf DEF Types, DataTypes, Get, Add

\* A failed read keeps the domains of the data.
LEMMA FailsTyped ==
  ASSUME Types, NEW p \in Procs, NEW c \in Clients, c = Conn(p), Fails(p)
  PROVE  DataTypes'
  <1>1. told' = Set(told, End(p), c, "reset") \/ told' = Set(told, End(p), c, "dead")
    BY DEF Fails
  <1>2. told' \in [Ends -> [Clients -> {"ok", "reset", "dead"}]]
    BY <1>1, SetTold
  <1> QED  BY <1>2 DEF Types, DataTypes, Fails, count

\* So does what the program makes of it.
LEMMA FailTyped ==
  ASSUME Types, NEW p \in Procs, NEW c \in Clients, c = Conn(p), Fail(p)
  PROVE  Types'
  <1>1. rem[p] \in Nat /\ (rem[p] > 0 => rem[p] - 1 \in Nat) /\ 1 \in Nat
    BY DEF Types, ControlTypes
  <1>2. CASE EndProcess(p, "ended") \/ EndProcess(p, "killed")
    BY <1>2, EndProcessTyped
  <1>3. CASE Fails(p) /\ GoOn(p)
    BY <1>1, <1>3, FailsTyped, GoOnTyped DEF Types
  <1>4. CASE Fails(p) /\ Count(p, rem[p])
    BY <1>1, <1>4, FailsTyped, GoOnTyped DEF Types
  <1>5. CASE Fails(p) /\ rem[p] > 0 /\ Count(p, rem[p] - 1)
    BY <1>1, <1>5, FailsTyped, GoOnTyped DEF Types
  <1> QED  BY <1>2, <1>3, <1>4, <1>5 DEF Fail

\* The calls of both sides.
LEMMA CallsTyped ==
  ASSUME Types, NEW p \in Procs, NEW c \in Clients, c = Conn(p), Size(p) \in Nat,
         \/ Write(p) \/ Read(p) \/ ReadAll(p) \/ ReadEof(p) \/ Peek(p) \/ Echo(p)
         \/ Shutdown(p) \/ Close(p)
  PROVE  Types'
  <1>0. 1 \in Nat /\ 2 \in Nat
    OBVIOUS
  <1>1. CASE Write(p)
    <2>1. Put(p, Size(p), TRUE, TRUE) /\ (told[End(p)][c] = "dead" \/ GoOn(p) \/ Advance(p, 2))
      BY <1>1, Zenon DEF Write, Put
    <2> QED  BY <1>0, <2>1, PutTyped, GoOnTyped DEF Types
  <1>2. CASE Read(p)
    <2>1. CASE AtEof(p) /\ GoOn(p)
      BY <1>0, <2>1, GoOnTyped DEF AtEof, Types, DataTypes, tcp, count
    <2>2. CASE \E k \in 1..Size(p) : Get(p, Size(p), k) /\ GoOn(p)
      BY <1>0, <2>2, GetTyped, GoOnTyped DEF Types
    <2> QED  BY <1>2, <2>1, <2>2, FailTyped DEF Read
  <1>3. CASE ReadAll(p)
    <2>1. ASSUME NEW k \in 1..flow[Peer(p)][c], Get(p, flow[Peer(p)][c], k),
                 IF rem[p] + k >= Size(p) THEN GoOn(p) ELSE Count(p, rem[p] + k)
          PROVE  Types'
      <3>1. flow[Peer(p)][c] \in Nat /\ rem[p] \in Nat
        BY EndsOf DEF Types, ControlTypes, DataTypes
      <3>2. DataTypes' /\ k \in Nat
        BY <2>1, <3>1, GetTyped
      <3>3. rem[p] + k \in Nat
        BY <3>1, <3>2
      <3>4. ControlTypes'
        BY <2>1, <3>3, GoOnTyped DEF Types
      <3> QED  BY <3>2, <3>4 DEF Types
    <2> QED  BY <1>3, <2>1, FailTyped DEF ReadAll
  <1>4. CASE ReadEof(p)
    <2>1. CASE AtEof(p) /\ GoOn(p)
      BY <1>0, <2>1, GoOnTyped DEF AtEof, Types, DataTypes, tcp, count
    <2>2. CASE \E k \in 1..Size(p) : Get(p, Size(p), k) /\ Stay
      BY <1>0, <2>2, GetTyped, GoOnTyped DEF Types
    <2> QED  BY <1>4, <2>1, <2>2, FailTyped DEF ReadEof
  <1>5. CASE Peek(p)
    BY <1>0, <1>5, GoOnTyped DEF Peek, Types, DataTypes, tcp, count
  <1>6. CASE Echo(p)
    <2>1. ASSUME NEW k \in 1..Size(p), Get(p, Size(p), k), Count(p, k)
          PROVE  Types'
      BY <2>1, GetTyped, GoOnTyped DEF Types
    <2>2. CASE AtEof(p) /\ GoOn(p)
      BY <1>0, <2>2, GoOnTyped DEF AtEof, Types, DataTypes, tcp, count
    <2>3. CASE Fails(p) /\ Stay
      BY <1>0, <2>3, FailsTyped, GoOnTyped DEF Types
    <2>4. CASE Put(p, rem[p], Count(p, 0), Count(p, 0))
      <3>1. /\ Put(p, rem[p], TRUE, TRUE) /\ rem[p] \in Nat /\ 0 \in Nat
            /\ told[End(p)][c] = "dead" \/ Count(p, 0)
        <4>1. rem[p] \in Nat /\ 0 \in Nat
          BY DEF Types, ControlTypes
        <4> QED  BY <2>4, <4>1, Zenon DEF Put
      <3>2. CASE told[End(p)][c] = "dead"
        BY <3>1, <3>2, PutTyped
      <3>3. CASE Count(p, 0)
        BY <3>1, <3>3, PutTyped, GoOnTyped DEF Types
      <3> QED  BY <3>1, <3>2, <3>3
    <2> QED  BY <1>6, <2>1, <2>2, <2>3, <2>4 DEF Echo
  <1>7. CASE Shutdown(p)
    <2>1. ControlTypes' /\ shut' = Set(shut, End(p), c, "half")
      BY <1>0, <1>7, GoOnTyped DEF Shutdown, Types
    <2>2. shut' \in [Ends -> [Clients -> {"open", "half", "closed"}]]
      BY <2>1, EndsOf DEF Set, Types, DataTypes
    <2> QED  BY <1>7, <2>1, <2>2 DEF Shutdown, Types, DataTypes, count
  <1>8. CASE Close(p)
    <2>1. ControlTypes' /\ CloseAll(p, {c}) /\ pair' = pair /\ conn' = conn /\ wr' = wr /\ rd' = rd
      BY <1>0, <1>8, GoOnTyped DEF Close, Types, count
    <2> QED  BY <2>1, CloseAllTyped DEF Types
  <1> QED  BY <1>1, <1>2, <1>3, <1>4, <1>5, <1>6, <1>7, <1>8

\* Every step keeps the domains.
LEMMA StepTyped ==
  ASSUME Types, Places, \A c \in Clients : Course(c), Next
  PROVE  Types'
  <1>1. ASSUME NEW c \in Clients, ClientStep(c) \/ Prompt(c)
        PROVE  Types'
    <2>1. c \in Procs /\ c = Conn(c) /\ Course(c) /\ c # Server /\ 1 \in Nat
      BY TwoEnds
    <2>2. CASE Connect(c)
      BY <2>1, <2>2, EndProcessTyped, GoOnTyped DEF Connect, Types, DataTypes, tcp, count
    <2>3. CASE Prompt(c)
      <3>1. Len(pair.client) \in Nat
        BY Shapes DEF Types, DataTypes, ClientShape
      <3>2. \E k \in Nat : pc' = [pc EXCEPT ![c] = k]
        <4>1. pc[c] + 1 \in Nat /\ Program(c) = pair.client
          BY <2>1, TwoEnds DEF Types, ControlTypes
        <4> QED  BY <2>3, <3>1, <4>1 DEF Prompt
      <3> QED  BY <2>1, <2>3, <3>2 DEF Prompt, Types, ControlTypes, DataTypes, tcp, count
    <2>4. CASE Return(c)
      BY <2>1, <2>4, EndProcessTyped DEF Return
    <2>5. CASE \/ Write(c) \/ Read(c) \/ ReadAll(c) \/ ReadEof(c) \/ Peek(c) \/ Echo(c)
               \/ Shutdown(c) \/ Close(c)
      <3>1. \E name : At(c, name)
        BY <2>5 DEF Write, Read, ReadAll, ReadEof, Peek, Echo, Shutdown, Close
      <3>2. Size(c) \in Nat
        BY <2>1, <3>1, ClientCalls
      <3> QED  BY <2>1, <2>5, <3>2, CallsTyped
    <2> QED  BY <1>1, <2>2, <2>3, <2>4, <2>5 DEF ClientStep, Step
  <1>2. ASSUME ServerStep
        PROVE  Types'
    <2>1. Server \in Procs /\ cur = Conn(Server) /\ 1 \in Nat
      BY TwoEnds
    <2>2. CASE Listen
      <3>1. CASE EndProcess(Server, "ended")
        BY <2>1, <3>1, EndProcessTyped
      <3>2. CASE /\ listening' = TRUE
                 /\ pc' = [pc EXCEPT ![Server] = 2]
                 /\ UNCHANGED <<pair, stat, rem, turn, cur, conn, tcp, count>>
        <4>1. 2 \in Nat
          OBVIOUS
        <4> QED  BY <2>1, <3>2, <4>1 DEF Types, ControlTypes, DataTypes, tcp, count
      <3> QED  BY <2>2, <3>1, <3>2 DEF Listen
    <2>3. CASE Accept
      <3>1. turn - 1 \in Nat
        BY <2>3, AtTheDoor DEF Accept, Places, Types, ControlTypes
      <3> QED  BY <2>1, <2>3, <3>1, TwoEnds DEF Accept, Types, ControlTypes, DataTypes, tcp, count
    <2>4. CASE NextTurn
      BY <2>1, <2>4 DEF NextTurn, Types, ControlTypes, DataTypes, tcp, count
    <2>5. CASE Operator(Server)
      BY <2>1, <2>5, EndProcessTyped, GoOnTyped DEF Operator, Types, DataTypes, tcp, count
    <2>6. CASE Return(Server)
      BY <2>1, <2>6, EndProcessTyped DEF Return
    <2>7. CASE \/ Write(Server) \/ Read(Server) \/ ReadAll(Server) \/ ReadEof(Server)
               \/ Peek(Server) \/ Echo(Server) \/ Shutdown(Server) \/ Close(Server)
      <3>1. \E name : At(Server, name) /\ name \notin {"listen", "accept"}
        BY <2>7 DEF Write, Read, ReadAll, ReadEof, Peek, Echo, Shutdown, Close
      <3>2. Size(Server) \in Nat /\ cur \in Clients
        BY <3>1, ServerCalls
      <3> QED  BY <2>1, <2>7, <3>2, CallsTyped
    <2> QED  BY <1>2, <2>2, <2>3, <2>4, <2>5, <2>6, <2>7 DEF ServerStep, Step
  <1> QED  BY <1>1, <1>2 DEF Next

-----------------------------------------------------------------------------
(* The stream. *)

\* The numbers of a connection.
LEMMA Numbers ==
  ASSUME DataTypes, NEW c \in Clients, NEW e \in Ends
  PROVE  /\ flow[e][c] \in Nat /\ wr[e][c] \in Nat /\ rd[e][c] \in Nat
         /\ shut[e][c] \in {"open", "half", "closed"} /\ told[e][c] \in {"ok", "reset", "dead"}
  BY DEF DataTypes

\* And after the step.
LEMMA NumbersNext ==
  ASSUME DataTypes', NEW c \in Clients, NEW e \in Ends
  PROVE  /\ flow'[e][c] \in Nat /\ wr'[e][c] \in Nat /\ rd'[e][c] \in Nat
         /\ shut'[e][c] \in {"open", "half", "closed"} /\ told'[e][c] \in {"ok", "reset", "dead"}
  BY DEF DataTypes

\* A connection that is left alone keeps its balance,
LEMMA KeepsNet ==
  ASSUME NEW c \in Clients, Net(c), SameData(c), pair' = pair
  PROVE  Net(c)'
  BY DEF Net, SameData

\* and so does one that is written to,
LEMMA PutsNet ==
  ASSUME DataTypes, DataTypes', NEW c \in Clients, NEW e \in Ends, NEW o \in Ends, e # o,
         NEW n \in Nat, Net(c), Puts(e, o, c, n), pair' = pair
  PROVE  Net(c)'
  <1>1. \A x \in Ends : x = e \/ x = o
    BY DEF Ends
  <1>2. CASE Sends(e, o, c, n)
    BY <1>1, <1>2, Numbers, NumbersNext DEF Net, Sends, Counted, Told
  <1>3. CASE SendsInVain(e, o, c, n)
    BY <1>1, <1>3, Numbers, NumbersNext DEF Net, SendsInVain, Counted, Told, Reported
  <1>4. CASE Learns(e, o, c)
    BY <1>1, <1>4, Numbers, NumbersNext DEF Net, Learns, Counted, Told, Reported
  <1> QED  BY <1>2, <1>3, <1>4 DEF Puts

\* one that is read from,
LEMMA GetsNet ==
  ASSUME DataTypes, DataTypes', NEW c \in Clients, NEW e \in Ends, NEW o \in Ends, e # o,
         NEW k, Net(c), Gets(e, o, c, k), pair' = pair
  PROVE  Net(c)'
  <1>1. \A x \in Ends : x = e \/ x = o
    BY DEF Ends
  <1> QED  BY <1>1, Numbers, NumbersNext DEF Net, Gets, Counted, Told

\* one whose reset is reported,
LEMMA LearnsNet ==
  ASSUME DataTypes, DataTypes', NEW c \in Clients, NEW e \in Ends, NEW o \in Ends, e # o,
         Net(c), Learns(e, o, c), pair' = pair
  PROVE  Net(c)'
  BY PutsNet DEF Puts

\* one that is closed,
LEMMA ClosesNet ==
  ASSUME DataTypes, DataTypes', NEW c \in Clients, NEW e \in Ends, NEW o \in Ends, e # o,
         Net(c), Closes(e, o, c), pair' = pair
  PROVE  Net(c)'
  <1>1. \A x \in Ends : x = e \/ x = o
    BY DEF Ends
  <1> QED  BY <1>1, Numbers, NumbersNext DEF Net, Closes, Reset

\* and, on Linux, one that is half-closed.
LEMMA HalfClosesNet ==
  ASSUME DataTypes, DataTypes', NEW c \in Clients, NEW e \in Ends, NEW o \in Ends, e # o,
         Net(c), ~pair.win, shut[e][c] # "closed", pair' = pair,
         Counted(e, o, c, 0, 0, 0),
         shut'[e][c] = "half", shut'[o][c] = shut[o][c],
         told'[e][c] = told[e][c], told'[o][c] = told[o][c]
  PROVE  Net(c)'
  <1>1. \A x \in Ends : x = e \/ x = o
    BY DEF Ends
  <1> QED  BY <1>1, Numbers, NumbersNext DEF Net, Counted

-----------------------------------------------------------------------------
(* Who is not concerned by a step. *)

\* Client d and its connection do not move.
Untouched(d) ==
  /\ pair' = pair /\ Keeps(d)
  /\ pc'[d] = pc[d] /\ stat'[d] = stat[d] /\ rem'[d] = rem[d]

SameServer ==
  /\ pc'[Server] = pc[Server] /\ stat'[Server] = stat[Server] /\ rem'[Server] = rem[Server]
  /\ cur' = cur

\* The server is neither with d before the step nor after it.
Elsewhere(d) ==
  ~Serves(d) /\ ~(Serves(d)') /\ (stat'[Server] = "run" => stat[Server] = "run")

\* Nothing changes for a client when neither it nor the server moves,
LEMMA FrameSame ==
  ASSUME NEW d \in Clients, Own(d), Untouched(d), SameServer
  PROVE  Own(d)'
  <1>1. Serves(d)' = Serves(d)
    BY DEF SameServer, Serves
  <1>2. Net(d)'
    BY KeepsNet DEF Own, Stream, Untouched, Keeps
  <1>3. "server" \in Ends /\ "client" \in Ends
    BY TwoEnds
  <1>4. Stream(d)' /\ Course(d)'
    BY <1>1, <1>2, <1>3 DEF Own, Untouched, Keeps, SameData, SameServer, Stream, Course, Gone,
      CloseAt
  <1>5. Patience(d)' /\ Transfer(d)'
    BY <1>1, <1>3 DEF Own, Untouched, Keeps, SameData, SameServer, Patience, Transfer, Answered,
      Gone
  <1>6. Asked(d)' /\ Echoed(d)' /\ Abreast(d)'
    BY <1>1, <1>3 DEF Own, Untouched, Keeps, SameData, SameServer, Asked, Echoed, Abreast, Left,
      Gone, CloseAt
  <1> QED  BY <1>4, <1>5, <1>6 DEF Own

\* nor when the server moves and is with others.
LEMMA FrameElsewhere ==
  ASSUME NEW d \in Clients, Own(d), Untouched(d), Elsewhere(d)
  PROVE  Own(d)'
  <1>2. Net(d)'
    BY KeepsNet DEF Own, Stream, Untouched, Keeps
  <1>3. "server" \in Ends /\ "client" \in Ends
    BY TwoEnds
  <1>4. Stream(d)' /\ Course(d)'
    BY <1>2, <1>3 DEF Own, Untouched, Keeps, SameData, Elsewhere, Stream, Course, Gone
  <1>5. Patience(d)' /\ Transfer(d)'
    BY <1>3 DEF Own, Untouched, Keeps, SameData, Elsewhere, Patience, Transfer, Answered, Gone
  <1>6. Asked(d)' /\ Echoed(d)' /\ Abreast(d)'
    BY <1>3 DEF Own, Untouched, Keeps, SameData, Elsewhere, Asked, Echoed, Abreast, Left, Gone
  <1> QED  BY <1>4, <1>5, <1>6 DEF Own

\* What a client's step leaves alone.
LEMMA ClientApart ==
  ASSUME Types, Places, NEW c \in Clients, Course(c), ClientStep(c) \/ Prompt(c)
  PROVE  /\ SameServer /\ turn' = turn /\ listening' = listening /\ pair' = pair
         /\ stat[c] = "run"
         /\ \A d \in Clients \ {c} : Untouched(d)
         /\ \A q \in Procs \ {c} : pc'[q] = pc[q] /\ stat'[q] = stat[q] /\ rem'[q] = rem[q]
  <1>1. /\ KeepsOthers(c) /\ Idles /\ stat[c] = "run"
        /\ \A q \in Procs \ {c} : pc'[q] = pc[q] /\ stat'[q] = stat[q] /\ rem'[q] = rem[q]
    BY ClientDoes DEF ClientConnects, ClientPrompts, ClientWrites, ClientSkips, ClientReads,
      ClientReadsAll, ClientReadsEof, ClientCloses, ClientQuits, ClientIn, Goes, Counts, Moves
  <1> QED  BY <1>1, TwoEnds DEF KeepsOthers, Idles, SameServer, Untouched

\* What a step of the server with c leaves alone.
ServerWith(c) ==
  \/ ServerTurns(c) \/ ServerWrites(c) \/ ServerReads(c) \/ ServerReadsAll(c)
  \/ ServerReadsEof(c) \/ ServerPeeks(c) \/ ServerEchoes(c) \/ ServerShuts(c) \/ ServerCloses(c)

\* A step of the server with one client concerns no other.
LEMMA ServerApart ==
  ASSUME NEW c \in Clients, ServerWith(c)
  PROVE  /\ KeepsOthers(c) /\ Idles /\ Serves(c) /\ conn[c] = "accepted"
         /\ stat'[Server] = "run" /\ cur = c /\ cur' = c
         /\ \A q \in Clients : pc'[q] = pc[q] /\ stat'[q] = stat[q] /\ rem'[q] = rem[q]
         /\ \A d \in Clients \ {c} : Untouched(d) /\ Elsewhere(d)
  <1>1. /\ KeepsOthers(c) /\ Idles /\ Serves(c) /\ conn[c] = "accepted"
        /\ stat'[Server] = stat[Server]
        /\ \A q \in Procs \ {Server} : pc'[q] = pc[q] /\ stat'[q] = stat[q] /\ rem'[q] = rem[q]
    BY DEF ServerWith, ServerTurns, ServerWrites, ServerReads, ServerReadsAll, ServerReadsEof,
      ServerPeeks, ServerEchoes, ServerShuts, ServerCloses, ServerIn, Goes, Counts, Moves, Idles
  <1>2. cur = c /\ cur' = c /\ stat[Server] = "run"
    BY <1>1 DEF Serves, Idles
  <1>3. \A q \in Clients : pc'[q] = pc[q] /\ stat'[q] = stat[q] /\ rem'[q] = rem[q]
    BY <1>1, TwoEnds
  <1> QED  BY <1>1, <1>2, <1>3 DEF KeepsOthers, Untouched, Elsewhere, Serves

-----------------------------------------------------------------------------
(* Stream is kept. *)

\* The steps of a client keep the balance of its connection.
LEMMA StreamClient ==
  ASSUME Types, Types', Places, NEW c \in Clients, Stream(c), Course(c),
         ClientStep(c) \/ Prompt(c)
  PROVE  Stream(c)'
  <1> DEFINE e == "client"  o == "server"
  <1>1. e \in Ends /\ o \in Ends /\ e # o /\ c \in Procs
    BY TwoEnds
  <1>2. DataTypes /\ DataTypes' /\ rem[c] \in Nat /\ Net(c) /\ pair' = pair
    BY <1>1, ClientApart DEF Types, ControlTypes, Stream
  <1>3. CASE ClientConnects(c) \/ ClientPrompts(c)
    <2>1. SameData(c) /\ (rem'[c] = 0 \/ rem'[c] = rem[c])
      BY <1>3 DEF ClientConnects, ClientPrompts, Goes, Moves, Keeps
    <2> QED  BY <1>1, <1>2, <2>1, KeepsNet, NumbersNext DEF Stream, SameData
  <1>4. CASE ClientWrites(c)
    <2>1. PICK n \in Nat : Puts(e, o, c, n) /\ Goes(c)
      BY <1>4 DEF ClientWrites
    <2>2. Net(c)'
      BY <1>1, <1>2, <2>1, PutsNet
    <2>3. shut'[e][c] = shut[e][c] /\ rem'[c] = 0
      BY <2>1 DEF Puts, Sends, SendsInVain, Learns, Told, Goes, Moves
    <2> QED  BY <1>1, <1>2, <2>2, <2>3, NumbersNext DEF Stream
  <1>5. CASE ClientReads(c) \/ ClientReadsAll(c) \/ ClientReadsEof(c)
    <2>1. \/ \E k \in Nat : Gets(e, o, c, k) /\ (rem'[c] = 0 \/ rem'[c] = rem[c] \/ rem'[c] = rem[c] + k)
          \/ Keeps(c) /\ (rem'[c] = 0 \/ rem'[c] = rem[c])
          \/ Learns(e, o, c) /\ rem'[c] \in 0..rem[c]
      BY <1>2, <1>5 DEF ClientReads, ClientReadsAll, ClientReadsEof, Goes, Counts, Moves, SeesEof
    <2>2. CASE \E k \in Nat : Gets(e, o, c, k) /\ (rem'[c] = 0 \/ rem'[c] = rem[c] \/ rem'[c] = rem[c] + k)
      <3>1. PICK k \in Nat : Gets(e, o, c, k) /\ (rem'[c] = 0 \/ rem'[c] = rem[c] \/ rem'[c] = rem[c] + k)
        BY <2>2
      <3>2. Net(c)'
        BY <1>1, <1>2, <3>1, GetsNet
      <3>3. shut'[e][c] = shut[e][c] /\ rd'[e][c] = rd[e][c] + k
        BY <3>1 DEF Gets, Counted, Told
      <3> QED  BY <1>1, <1>2, <3>1, <3>2, <3>3, Numbers, NumbersNext DEF Stream
    <2>3. CASE Keeps(c) /\ (rem'[c] = 0 \/ rem'[c] = rem[c])
      BY <1>1, <1>2, <2>3, KeepsNet, NumbersNext DEF Stream, Keeps, SameData
    <2>4. CASE Learns(e, o, c) /\ rem'[c] \in 0..rem[c]
      <3>1. Net(c)'
        BY <1>1, <1>2, <2>4, LearnsNet
      <3> QED  BY <1>1, <1>2, <2>4, <3>1, Numbers DEF Stream, Learns, Counted, Told
    <2> QED  BY <2>1, <2>2, <2>3, <2>4
  <1>6. CASE ClientCloses(c) \/ ClientQuits(c)
    <2>1. /\ Keeps(c) \/ Closes(e, o, c)
          /\ rem'[c] = 0 \/ rem'[c] = rem[c]
      BY <1>6 DEF ClientCloses, ClientQuits, Goes, Moves
    <2>2. CASE Keeps(c)
      BY <1>1, <1>2, <2>1, <2>2, KeepsNet, NumbersNext DEF Stream, Keeps, SameData
    <2>3. CASE Closes(e, o, c)
      <3>1. Net(c)'
        BY <1>1, <1>2, <2>3, ClosesNet
      <3> QED  BY <1>1, <1>2, <2>1, <2>3, <3>1, Numbers DEF Stream, Closes
    <2> QED  BY <2>1, <2>2, <2>3
  <1>7. CASE ClientSkips(c)
    <2>1. Learns(e, o, c) /\ rem'[c] = 0
      BY <1>7 DEF ClientSkips, Moves
    <2>2. Net(c)'
      BY <1>1, <1>2, <2>1, LearnsNet
    <2> QED  BY <1>1, <2>1, <2>2, NumbersNext, <1>2 DEF Stream, Learns, Told
  <1> QED  BY <1>3, <1>4, <1>5, <1>6, <1>7, ClientDoes

Without(s, name) == \A k \in 2..Len(s) : s[k].call # name

USE DEF Call, OnError, Listening, Connecting, Accepting, Again, Prompting, Writing, Reading,
        ReadingAll, ReadingEof, Peeking, Echoing, CheckingOp, ShuttingDown, Closing,
        Typed, Msg, BufSize, OpSz, Operands
\* Which servers neither half-close nor count.
LEMMA ServersWithout ==
  /\ \A s \in {echo_server, echo_server5, echo_server_win, echo_stdserv, test_echo_server,
               me_op_server, hello_server, hello_server_win, tcp_server, tcp_server_win,
               peek_recv, OverlappedRecv, CmpRoutinesRecv} :
       Without(s, "shutdown") /\ Without(s, "readAll")
  /\ Without(op_server, "shutdown")
  /\ Without(file_server, "readAll") /\ Without(sep_serv2, "readAll")
  <1>1. /\ Without(echo_server, "shutdown") /\ Without(echo_server5, "shutdown")
        /\ Without(echo_server_win, "shutdown") /\ Without(echo_stdserv, "shutdown")
    BY DEF Without, echo_server, echo_server5, echo_server_win, echo_stdserv
  <1>2. /\ Without(echo_server, "readAll") /\ Without(echo_server5, "readAll")
        /\ Without(echo_server_win, "readAll") /\ Without(echo_stdserv, "readAll")
    BY DEF Without, echo_server, echo_server5, echo_server_win, echo_stdserv
  <1>3. Without(test_echo_server, "shutdown") /\ Without(test_echo_server, "readAll")
    BY DEF Without, test_echo_server
  <1>4. Without(me_op_server, "shutdown") /\ Without(me_op_server, "readAll")
    BY DEF Without, me_op_server
  <1>5. Without(op_server, "shutdown")
    BY DEF Without, op_server
  <1>6. Without(file_server, "readAll") /\ Without(sep_serv2, "readAll")
    BY DEF Without, file_server, sep_serv2
  <1>7. /\ Without(hello_server, "shutdown") /\ Without(hello_server_win, "shutdown")
        /\ Without(tcp_server, "shutdown") /\ Without(tcp_server_win, "shutdown")
    BY DEF Without, hello_server, hello_server_win, tcp_server, tcp_server_win
  <1>8. /\ Without(hello_server, "readAll") /\ Without(hello_server_win, "readAll")
        /\ Without(tcp_server, "readAll") /\ Without(tcp_server_win, "readAll")
    BY DEF Without, hello_server, hello_server_win, tcp_server, tcp_server_win
  <1>9. /\ Without(peek_recv, "shutdown") /\ Without(peek_recv, "readAll")
        /\ Without(OverlappedRecv, "shutdown") /\ Without(OverlappedRecv, "readAll")
    BY DEF Without, peek_recv, OverlappedRecv
  <1>10. Without(CmpRoutinesRecv, "shutdown") /\ Without(CmpRoutinesRecv, "readAll")
    BY DEF Without, CmpRoutinesRecv
  <1> QED  BY <1>1, <1>2, <1>3, <1>4, <1>5, <1>6, <1>7, <1>8, <1>9, <1>10

\* Which clients do not count.
LEMMA ClientsWithout ==
  \A s \in {echo_client, echo_client_win, test_echo_client, op_client, me_op_client, file_client,
            sep_clnt, hello_client, hello_client_win, tcp_client, tcp_client_win, peek_send,
            OverlappedSend, echo_stdclnt} :
    Without(s, "readAll")
  <1>1. /\ Without(echo_client, "readAll") /\ Without(echo_client_win, "readAll")
        /\ Without(echo_stdclnt, "readAll")
    BY DEF Without, echo_client, echo_client_win, echo_stdclnt
  <1>2. Without(test_echo_client, "readAll") /\ Without(file_client, "readAll")
    BY DEF Without, test_echo_client, file_client
  <1>3. Without(op_client, "readAll") /\ Without(me_op_client, "readAll")
    BY DEF Without, op_client, me_op_client
  <1>4. Without(sep_clnt, "readAll") /\ Without(peek_send, "readAll")
        /\ Without(OverlappedSend, "readAll")
    BY DEF Without, sep_clnt, peek_send, OverlappedSend
  <1>5. Without(hello_client, "readAll") /\ Without(hello_client_win, "readAll")
    BY DEF Without, hello_client, hello_client_win
  <1>6. Without(tcp_client, "readAll") /\ Without(tcp_client_win, "readAll")
    BY DEF Without, tcp_client, tcp_client_win
  <1> QED  BY <1>1, <1>2, <1>3, <1>4, <1>5, <1>6

HIDE DEF Call, OnError, Listening, Connecting, Accepting, Again, Prompting, Writing, Reading,
         ReadingAll, ReadingEof, Peeking, Echoing, CheckingOp, ShuttingDown, Closing,
         Typed, Msg, BufSize, OpSz, Operands

\* Only servers of Linux half-close, and only a connection they have not closed.
LEMMA Halves ==
  ASSUME NEW q \in Pairs, NEW k \in 3..Len(q.server), q.server[k].call = "shutdown"
  PROVE  q.name \in {"file", "sep"} /\ ~q.win
  <1>1. ~Without(q.server, "shutdown")
    <2>1. Len(q.server) \in Nat
      BY Shapes DEF ServerShape
    <2> QED  BY <2>1 DEF Without
  <1> QED  BY <1>1, ServersWithout DEF Pairs, Talk

\* So do those of the server with it.
LEMMA StreamServer ==
  ASSUME Types, Types', NEW c \in Clients, Stream(c), Course(c), ServerWith(c)
  PROVE  Stream(c)'
  <1> DEFINE e == "server"  o == "client"
  <1>1. e \in Ends /\ o \in Ends /\ e # o /\ c \in Procs
    BY TwoEnds
  <1>2. DataTypes /\ DataTypes' /\ rem[Server] \in Nat /\ Net(c) /\ pair' = pair
    BY TwoEnds, ServerApart DEF Types, ControlTypes, Stream, KeepsOthers
  <1>3. SUFFICES Net(c)' /\ shut'[o][c] = shut[o][c] /\ rd'[o][c] = rd[o][c]
    BY ServerApart DEF Stream
  <1>4. CASE ServerTurns(c) \/ ServerPeeks(c)
    BY <1>1, <1>2, <1>4, KeepsNet DEF ServerTurns, ServerPeeks, Keeps, SameData
  <1>5. ASSUME NEW n \in Nat, Puts(e, o, c, n)
        PROVE  Net(c)' /\ shut'[o][c] = shut[o][c] /\ rd'[o][c] = rd[o][c]
    <2>1. Net(c)'
      BY <1>1, <1>2, <1>5, PutsNet
    <2> QED  BY <1>5, <2>1 DEF Puts, Sends, SendsInVain, Learns, Told, Counted
  <1>6. ASSUME NEW k \in Nat, Gets(e, o, c, k)
        PROVE  Net(c)' /\ shut'[o][c] = shut[o][c] /\ rd'[o][c] = rd[o][c]
    <2>1. Net(c)'
      BY <1>1, <1>2, <1>6, GetsNet
    <2> QED  BY <1>6, <2>1 DEF Gets, Told, Counted
  <1>7. ASSUME SeesEof(e, o, c)
        PROVE  Net(c)' /\ shut'[o][c] = shut[o][c] /\ rd'[o][c] = rd[o][c]
    BY <1>1, <1>2, <1>7, KeepsNet DEF SeesEof, Keeps, SameData
  <1>8. CASE ServerWrites(c)
    BY <1>5, <1>8 DEF ServerWrites
  <1>9. CASE ServerReads(c) \/ ServerReadsAll(c) \/ ServerReadsEof(c)
    <2>1. (\E k \in Nat : Gets(e, o, c, k)) \/ SeesEof(e, o, c) \/ Learns(e, o, c)
      BY <1>9 DEF ServerReads, ServerReadsAll, ServerReadsEof
    <2>2. Learns(e, o, c) => Puts(e, o, c, 0)
      BY DEF Puts
    <2> QED  BY <1>5, <1>6, <1>7, <2>1, <2>2
  <1>10. CASE ServerEchoes(c)
    <2>1. (\E k \in Nat : Gets(e, o, c, k)) \/ SeesEof(e, o, c) \/ Learns(e, o, c)
          \/ Puts(e, o, c, rem[Server])
      <3>1. \A n \in 0..Request : 1..n \subseteq Nat
        BY RequestIsSix
      <3> QED  BY <1>10, <3>1 DEF ServerEchoes
    <2>2. Learns(e, o, c) => Puts(e, o, c, 0)
      BY DEF Puts
    <2> QED  BY <1>2, <1>5, <1>6, <1>7, <2>1, <2>2
  <1>11. CASE ServerShuts(c)
    <2>1. /\ ServerIn(c, "shutdown") /\ Counted(e, o, c, 0, 0, 0)
          /\ shut'[e][c] = "half" /\ shut'[o][c] = shut[o][c]
          /\ told'[e][c] = told[e][c] /\ told'[o][c] = told[o][c]
      BY <1>11 DEF ServerShuts
    <2>2. ~pair.win
      BY <1>2, <2>1, Halves DEF ServerIn, DataTypes
    <2>3. shut[e][c] # "closed"
      <3>1. pc[Server] <= CloseAt(pair.server)
        <4>1. ServerShape(pair.server)
          BY <1>2, Shapes DEF DataTypes
        <4> QED  BY <2>1, <4>1 DEF ServerIn, ServerShape
      <3> QED  BY <2>1, <3>1 DEF ServerIn, Course, Gone
    <2>4. Net(c)'
      BY <1>1, <1>2, <2>1, <2>2, <2>3, HalfClosesNet
    <2> QED  BY <2>1, <2>4 DEF Counted
  <1>12. CASE ServerCloses(c)
    <2>1. Closes(e, o, c)
      BY <1>12 DEF ServerCloses
    <2>2. Net(c)'
      BY <1>1, <1>2, <2>1, ClosesNet
    <2> QED  BY <1>1, <2>1, <2>2 DEF Closes
  <1> QED  BY <1>4, <1>8, <1>9, <1>10, <1>11, <1>12 DEF ServerWith

-----------------------------------------------------------------------------
(* Course is kept. *)

\* What a client does not do to the server's end, and how its own goes on.
LEMMA ClientEnd ==
  ASSUME Types, Places, NEW c \in Clients, Stream(c), Course(c), ClientStep(c) \/ Prompt(c)
  PROVE  /\ conn'[c] = conn[c] \/ (ClientConnects(c) /\ conn'[c] = "queued")
         /\ wr'["server"][c] = wr["server"][c] /\ rd'["server"][c] = rd["server"][c]
         /\ shut'["server"][c] = shut["server"][c]
         /\ flow["server"][c] = 0 => told'["server"][c] = told["server"][c]
         /\ \/ shut'["client"][c] = shut["client"][c]
                 /\ told'["server"][c] = told["server"][c]
            \/ ClientCloses(c) \/ ClientQuits(c)
         /\ \/ wr'["client"][c] = wr["client"][c]
                 /\ (told["client"][c] = "ok" => told'["client"][c] = "ok")
            \/ ClientWrites(c)
  <1>1. "server" \in Ends /\ "client" \in Ends /\ wr["client"][c] \in Nat /\ rd["server"][c] \in Nat
    BY TwoEnds, Numbers DEF Types
  <1>2. CASE ClientConnects(c) \/ ClientPrompts(c)
    BY <1>1, <1>2 DEF ClientConnects, ClientPrompts, Keeps, SameData
  <1>3. CASE ClientWrites(c)
    BY <1>3 DEF ClientWrites, Puts, Sends, SendsInVain, Learns, Counted, Told, Gone
  <1>4. CASE ClientReads(c) \/ ClientReadsAll(c) \/ ClientReadsEof(c)
    <2>1. (\E k \in Nat : Gets("client", "server", c, k)) \/ Keeps(c) \/ Learns("client", "server", c)
      BY <1>4 DEF ClientReads, ClientReadsAll, ClientReadsEof, SeesEof
    <2> QED  BY <1>1, <2>1 DEF Gets, Learns, Counted, Told, Keeps, SameData
  <1>5. CASE ClientCloses(c) \/ ClientQuits(c)
    <2>1. Keeps(c) \/ Closes("client", "server", c)
      BY <1>5 DEF ClientCloses, ClientQuits
    <2> QED  BY <1>1, <1>5, <2>1 DEF Closes, Keeps, SameData
  <1>6. CASE ClientSkips(c)
    BY <1>1, <1>6 DEF ClientSkips, Learns, Counted, Told
  <1> QED  BY <1>2, <1>3, <1>4, <1>5, <1>6, ClientDoes

\* The steps of a client keep the course of its connection.
LEMMA CourseClient ==
  ASSUME Types, Types', Places, NEW c \in Clients, Stream(c), Course(c),
         ClientStep(c) \/ Prompt(c)
  PROVE  Course(c)'
  <1> DEFINE e == "client"  o == "server"
  <1>1. e \in Ends /\ o \in Ends /\ e # o /\ c \in Procs
    BY TwoEnds
  <1>2. /\ pair' = pair /\ SameServer /\ Serves(c)' = Serves(c)
        /\ pc[c] \in Nat /\ ClientShape(pair.client)
    BY <1>1, ClientApart, Shapes DEF Types, ControlTypes, DataTypes, SameServer, Serves
  <1>3. /\ wr'[o][c] = wr[o][c] /\ rd'[o][c] = rd[o][c] /\ shut'[o][c] = shut[o][c]
        /\ conn[c] # "accepted" => told'[o][c] = told[o][c]
    <2>1. flow[o][c] + rd[e][c] <= wr[o][c] /\ flow[o][c] \in Nat /\ rd[e][c] \in Nat
      BY <1>1, Numbers DEF Stream, Net, Types
    <2>2. conn[c] # "accepted" => flow[o][c] = 0
      BY <2>1 DEF Course
    <2> QED  BY <2>2, ClientEnd
  <1>4. SUFFICES /\ conn'[c] = conn[c] \/ (conn[c] = "none" /\ conn'[c] = "queued")
                 /\ conn'[c] = "none" <=> pc'[c] = 1
                 /\ conn'[c] = "none" => shut'[e][c] = "open" /\ wr'[e][c] = 0
                 /\ shut'[e][c] = "closed" => stat'[c] # "run" \/ pc'[c] > Len(pair.client)
                 /\ stat'[c] = "run" /\ pc'[c] > Len(pair.client) => shut'[e][c] = "closed"
    BY <1>2, <1>3 DEF Course, Gone, SameServer, Serves
  <1>5. CASE ClientConnects(c)
    BY <1>1, <1>2, <1>5 DEF ClientConnects, SameData, Course, Goes, Moves, ClientShape
  <1>6. CASE ClientPrompts(c)
    BY <1>1, <1>2, <1>6 DEF ClientPrompts, ClientIn, Keeps, SameData, Course, Moves, ClientShape,
      Gone
  <1>7. CASE ClientWrites(c) \/ ClientReads(c) \/ ClientReadsAll(c) \/ ClientReadsEof(c)
    <2>1. /\ conn'[c] = conn[c] /\ shut'[e][c] = shut[e][c] /\ stat'[c] = stat[c]
          /\ pc'[c] = pc[c] \/ pc'[c] = pc[c] + 1
          /\ \E name \in {"write", "read", "readAll", "readEof"} : ClientIn(c, name)
      <3>1. /\ \/ \E n : Puts(e, o, c, n)
               \/ \E k : Gets(e, o, c, k)
               \/ Keeps(c)
               \/ Learns(e, o, c)
            /\ Goes(c) \/ \E r : Counts(c, r)
            /\ \E name \in {"write", "read", "readAll", "readEof"} : ClientIn(c, name)
        BY <1>7 DEF ClientWrites, ClientReads, ClientReadsAll, ClientReadsEof, SeesEof
      <3>2. stat'[c] = stat[c] /\ (pc'[c] = pc[c] \/ pc'[c] = pc[c] + 1)
        BY <3>1 DEF Goes, Counts, Moves
      <3>3. conn'[c] = conn[c] /\ shut'[e][c] = shut[e][c]
        BY <1>1, <3>1 DEF Puts, Sends, SendsInVain, Learns, Gets, Keeps, SameData, Counted, Told
      <3> QED  BY <3>1, <3>2, <3>3
    <2>2. pc[c] \in 2..Len(pair.client) /\ pc[c] # Len(pair.client) /\ conn[c] # "none"
      BY <1>2, <2>1 DEF ClientIn, ClientShape
    <2> QED  BY <1>2, <2>1, <2>2 DEF Course, Gone, ClientIn, ClientShape
  <1>8. CASE ClientSkips(c)
    <2>1. /\ conn'[c] = conn[c] /\ shut'[e][c] = shut[e][c] /\ stat'[c] = stat[c]
          /\ pc'[c] = pc[c] + 2 /\ pc[c] + 2 <= Len(pair.client) /\ ClientIn(c, "write")
      BY <1>1, <1>8 DEF ClientSkips, Learns, Counted, Told, Moves
    <2> QED  BY <1>2, <2>1 DEF Course, Gone, ClientIn, ClientShape
  <1>9. CASE ClientCloses(c)
    BY <1>2, <1>9 DEF ClientCloses, ClientIn, Closes, Goes, Moves, Course, ClientShape
  <1>10. CASE ClientQuits(c)
    BY <1>1, <1>2, <1>10 DEF ClientQuits, Keeps, SameData, Closes, Moves, Course, Gone
  <1> QED  BY <1>5, <1>6, <1>7, <1>9, <1>10, <1>8, ClientDoes

\* What the server does not do to a client's end.
LEMMA ServerEnd ==
  ASSUME Types, NEW c \in Clients, ServerWith(c)
  PROVE  /\ wr'["client"][c] = wr["client"][c] /\ rd'["client"][c] = rd["client"][c]
         /\ shut'["client"][c] = shut["client"][c] /\ conn'[c] = conn[c]
         /\ \/ shut'["server"][c] = shut["server"][c]
                 /\ told'["client"][c] = told["client"][c]
            \/ ServerShuts(c) /\ told'["client"][c] = told["client"][c]
            \/ ServerCloses(c)
         /\ \/ wr'["server"][c] = wr["server"][c]
            \/ ServerWrites(c) /\ \E n \in Nat : wr'["server"][c] = wr["server"][c] + n
            \/ ServerEchoes(c)
  <1>1. /\ "server" \in Ends /\ "client" \in Ends
        /\ wr["server"][c] \in Nat /\ rd["client"][c] \in Nat
    BY TwoEnds, Numbers DEF Types
  <1>2. CASE ServerTurns(c) \/ ServerPeeks(c)
    BY <1>1, <1>2 DEF ServerTurns, ServerPeeks, Keeps, SameData
  <1>3. CASE ServerWrites(c)
    BY <1>1, <1>3 DEF ServerWrites, Puts, Sends, SendsInVain, Learns, Counted, Told
  <1>4. CASE ServerReads(c) \/ ServerReadsAll(c) \/ ServerReadsEof(c) \/ ServerEchoes(c)
    <2>1. \/ \E k : Gets("server", "client", c, k)
          \/ ServerEchoes(c) /\ \E k : Puts("server", "client", c, k)
          \/ Keeps(c) \/ Learns("server", "client", c)
      BY <1>4 DEF ServerReads, ServerReadsAll, ServerReadsEof, ServerEchoes, SeesEof
    <2> QED  BY <1>1, <2>1 DEF Puts, Sends, SendsInVain, Gets, Learns, Counted, Told, Keeps,
               SameData
  <1>5. CASE ServerShuts(c)
    BY <1>1, <1>5 DEF ServerShuts, Counted
  <1>6. CASE ServerCloses(c)
    BY <1>1, <1>6 DEF ServerCloses, Closes
  <1> QED  BY <1>2, <1>3, <1>4, <1>5, <1>6 DEF ServerWith

\* How a served connection and the server's place go on together.
LEMMA ServerPlace ==
  ASSUME Types, NEW c \in Clients, Stream(c), Course(c), ServerWith(c)
  PROVE  /\ pc[Server] \in 3..Len(pair.server)
         /\ \/ /\ pc[Server] < CloseAt(pair.server) /\ pc'[Server] \in {pc[Server], pc[Server] + 1}
               /\ ~Gone("server", c) /\ shut'["server"][c] # "closed" /\ Serves(c)'
            \/ /\ pc[Server] = CloseAt(pair.server) /\ pc'[Server] = pc[Server] + 1
               /\ ~Gone("server", c) /\ shut'["server"][c] = "closed" /\ Serves(c)'
               /\ ServerCloses(c)
            \/ /\ pc[Server] > CloseAt(pair.server) /\ pc[Server] = Len(pair.server)
               /\ Gone("server", c) /\ Keeps(c)
               /\ \/ pc'[Server] = 2 /\ turn > 0 /\ ~(Serves(c)')
                  \/ pc'[Server] = pc[Server] + 1 /\ Serves(c)'
  <1>1. ServerShape(pair.server) /\ pair' = pair
    BY Shapes, ServerApart DEF Types, DataTypes, KeepsOthers
  <1>2. /\ Serves(c) /\ conn[c] = "accepted" /\ stat'[Server] = "run" /\ cur' = c
        /\ pc[Server] \in 3..Len(pair.server)
    BY ServerApart DEF ServerWith, ServerTurns, ServerWrites, ServerReads, ServerReadsAll,
      ServerReadsEof, ServerPeeks, ServerEchoes, ServerShuts, ServerCloses, ServerIn
  <1>3. Gone("server", c) <=> pc[Server] > CloseAt(pair.server)
    BY <1>1, <1>2 DEF Course, ServerShape
  <1>4. CASE ServerTurns(c)
    <2>1. pc[Server] > CloseAt(pair.server) /\ pc[Server] = Len(pair.server)
      BY <1>1, <1>2, <1>4 DEF ServerTurns, ServerShape, CloseAt
    <2>2. Keeps(c) /\ ((pc'[Server] = 2 /\ turn > 0) \/ pc'[Server] = pc[Server] + 1)
      BY <1>4 DEF ServerTurns, Moves
    <2> QED  BY <1>2, <1>3, <2>1, <2>2 DEF Serves
  <1>5. CASE ServerCloses(c)
    <2>1. /\ pc[Server] = CloseAt(pair.server) /\ pc'[Server] = pc[Server] + 1
          /\ shut'["server"][c] = "closed"
      BY <1>5 DEF ServerCloses, Goes, Moves, Closes
    <2> QED  BY <1>1, <1>2, <1>3, <1>5, <2>1 DEF Serves, ServerShape
  <1>6. CASE \/ ServerWrites(c) \/ ServerReads(c) \/ ServerReadsAll(c) \/ ServerReadsEof(c)
             \/ ServerPeeks(c) \/ ServerEchoes(c) \/ ServerShuts(c)
    <2>1. /\ pc'[Server] \in {pc[Server], pc[Server] + 1}
          /\ \E name \in Serving \ {"close", "again"} : ServerIn(c, name)
      BY <1>6 DEF ServerWrites, ServerReads, ServerReadsAll, ServerReadsEof, ServerPeeks,
        ServerEchoes, ServerShuts, Goes, Counts, Moves, Serving
    <2>2. pc[Server] < CloseAt(pair.server)
      BY <1>1, <1>2, <2>1 DEF ServerIn, ServerShape
    <2>3. shut'["server"][c] = shut["server"][c] \/ ServerShuts(c) \/ ServerCloses(c)
      BY ServerEnd
    <2>4. shut'["server"][c] # "closed"
      BY <1>1, <1>2, <1>3, <2>2, <2>3 DEF Gone, ServerShuts, ServerCloses, ServerShape
    <2>5. Serves(c)'
      BY <1>2, <2>1 DEF Serves
    <2> QED  BY <1>1, <1>2, <1>3, <2>1, <2>2, <2>4, <2>5 DEF ServerShape
  <1> QED  BY <1>4, <1>5, <1>6 DEF ServerWith

\* So do those of the server with it.
LEMMA CourseServer ==
  ASSUME Types, NEW c \in Clients, Stream(c), Course(c), ServerWith(c)
  PROVE  Course(c)'
  <1>1. /\ pair' = pair /\ conn[c] = "accepted" /\ pc'[c] = pc[c] /\ stat'[c] = stat[c]
        /\ ServerShape(pair.server)
    BY ServerApart, Shapes DEF KeepsOthers, Types, DataTypes
  <1>2. /\ wr'["client"][c] = wr["client"][c] /\ shut'["client"][c] = shut["client"][c]
        /\ conn'[c] = conn[c]
    BY ServerEnd
  <1>3. Gone("server", c)' <=> ~(Serves(c)' /\ pc'[Server] <= CloseAt(pair.server))
    <2>1. "server" \in Ends
      BY TwoEnds
    <2> QED  BY <1>1, <2>1, ServerPlace DEF Gone, Keeps, SameData, ServerShape
  <1> QED  BY <1>1, <1>2, <1>3 DEF Course, Gone, CloseAt

-----------------------------------------------------------------------------
(* Patience is kept: who listens to the end of what the other has to say. *)

\* The place where the client hears the answer, and where the server gives it.
PatientPrograms(s, t, r, h, last) ==
  /\ r \in 2..(Len(t) - 1) /\ t[r].call = IF last THEN "readEof" ELSE "read"
  /\ \A k \in 2..Len(t) : t[k].call \in {"write", "read", "readEof", "close"}
  /\ h \in 3..CloseAt(s)
  /\ \A k \in 3..Len(s) :
       /\ s[k].call # "echo"
       /\ last /\ k < h => s[k].call # "shutdown"
       /\ last /\ k > h => s[k].call # "write"
       /\ ~last => (s[k].call = "write" <=> k = h)
       /\ s[k].call = "readAll" => k <= h

PatientShape(q) ==
  PatientPrograms(q.server, q.client, Hears(q.name), Answers(q.name), q.name \in Listeners)

\* The programs of the pairs in which the client waits for its answer.
LEMMA WhoIsPatient ==
  ASSUME NEW q \in Pairs
  PROVE  /\ q.name = "test" => q.server = test_echo_server /\ q.client = test_echo_client
         /\ q.name = "op" => q.server = op_server /\ q.client = op_client
         /\ q.name = "me_op" => q.server = me_op_server /\ q.client = me_op_client
         /\ q.name = "file" => q.server = file_server /\ q.client = file_client
         /\ q.name = "sep" => q.server = sep_serv2 /\ q.client = sep_clnt
         /\ q.name = "hello" => q.server = hello_server /\ q.client = hello_client
         /\ q.name = "tcp" => q.server = tcp_server /\ q.client = tcp_client
         /\ q.name = "tcp_win" => q.server = tcp_server_win /\ q.client = tcp_client_win
  BY DEF Pairs, Talk

\* In each of them the client hears its answer in one place.
LEMMA Patients ==
  ASSUME NEW q \in Pairs, q.name \in Listeners \cup Askers
  PROVE  PatientShape(q)
  <1> USE DEF PatientPrograms, CloseAt, Call, OnError, Listening, Connecting, Accepting, Closing, Writing
  <1>1. PatientPrograms(test_echo_server, test_echo_client, 3, 5, TRUE)
    BY DEF test_echo_server, test_echo_client, ReadingEof, Again
  <1>2. PatientPrograms(op_server, op_client, 3, 5, FALSE)
    BY DEF op_server, op_client, Reading, ReadingAll, Again
  <1>3. PatientPrograms(me_op_server, me_op_client, 6, 8, FALSE)
    BY DEF me_op_server, me_op_client, Reading, CheckingOp, Again
  <1>4. PatientPrograms(file_server, file_client, 2, 6, TRUE)
    BY DEF file_server, file_client, Reading, ReadingEof, ShuttingDown
  <1>5. PatientPrograms(sep_serv2, sep_clnt, 2, 4, TRUE)
    BY DEF sep_serv2, sep_clnt, Reading, ReadingEof, ShuttingDown
  <1>6. PatientPrograms(hello_server, hello_client, 2, 3, FALSE)
    BY DEF hello_server, hello_client, Reading
  <1>7. PatientPrograms(tcp_server, tcp_client, 2, 5, TRUE)
    BY DEF tcp_server, tcp_client, ReadingEof
  <1>8. PatientPrograms(tcp_server_win, tcp_client_win, 2, 4, TRUE)
    BY DEF tcp_server_win, tcp_client_win, ReadingEof
  <1> HIDE DEF PatientPrograms
  <1>9. CASE q.name = "test"
    BY <1>1, <1>9, WhoIsPatient DEF PatientShape, Hears, Answers, Listeners, TransferPairs
  <1>10. CASE q.name = "op"
    BY <1>2, <1>10, WhoIsPatient DEF PatientShape, PatientPrograms, Hears, Answers, Listeners,
      TransferPairs
  <1>11. CASE q.name = "me_op"
    BY <1>3, <1>11, WhoIsPatient DEF PatientShape, PatientPrograms, Hears, Answers, Listeners,
      TransferPairs
  <1>12. CASE q.name = "file"
    BY <1>4, <1>12, WhoIsPatient DEF PatientShape, Hears, Answers, Listeners, TransferPairs
  <1>13. CASE q.name = "sep"
    BY <1>5, <1>13, WhoIsPatient DEF PatientShape, Hears, Answers, Listeners, TransferPairs
  <1>14. CASE q.name = "hello"
    BY <1>6, <1>14, WhoIsPatient DEF PatientShape, PatientPrograms, Hears, Answers, Listeners,
      TransferPairs
  <1>15. CASE q.name = "tcp"
    BY <1>7, <1>15, WhoIsPatient DEF PatientShape, Hears, Answers, Listeners, TransferPairs
  <1>16. CASE q.name = "tcp_win"
    BY <1>8, <1>16, WhoIsPatient DEF PatientShape, Hears, Answers, Listeners, TransferPairs
  <1> QED  BY <1>9, <1>10, <1>11, <1>12, <1>13, <1>14, <1>15, <1>16
              DEF Askers, Listeners, TransferPairs

\* A client that waits does not leave before the answer.
LEMMA PatienceClient ==
  ASSUME Types, Types', Places, NEW c \in Clients, Stream(c), Course(c), Patience(c),
         ClientStep(c) \/ Prompt(c)
  PROVE  Patience(c)'
  <1> DEFINE e == "client"  o == "server"  r == Hears(pair.name)
  <1>1. e \in Ends /\ o \in Ends /\ e # o /\ c \in Procs
    BY TwoEnds
  <1>2. pair' = pair /\ SameServer /\ Serves(c)' = Serves(c) /\ pc[c] \in Nat
    BY <1>1, ClientApart DEF Types, ControlTypes, SameServer, Serves
  <1>3. Answered(c)' = Answered(c)
    BY <1>2, ClientEnd DEF Answered, Gone
  <1>4. SUFFICES ASSUME pair.name \in Listeners \cup Askers, ~Answered(c),
                        ~Gone(e, c), pc[c] <= r
                 PROVE  shut'[e][c] # "closed" /\ pc'[c] <= r
    <2>1. shut'[o][c] = shut[o][c] /\ pc'[c] \in Nat
      BY <1>1, ClientEnd DEF Types, ControlTypes
    <2>2. Hears(pair.name) \in Nat
      BY DEF Hears
    <2> QED  BY <1>2, <1>3, <1>4, <2>1, <2>2 DEF Patience, Gone, SameServer
  <1>5. PatientShape(pair) /\ ClientShape(pair.client)
    BY <1>4, Patients, Shapes DEF Types, DataTypes
  <1>6. shut[o][c] = "open" /\ told[e][c] = "ok"
        /\ (pair.name \notin Listeners => flow[o][c] = 0)
    <2>1. ~Gone(o, c)
      BY <1>4 DEF Answered, Gone
    <2>2. told[e][c] = "ok"
      BY <1>1, <2>1, Numbers DEF Stream, Net, Gone, Types
    <2>3. shut[o][c] # "half"
      BY <1>4 DEF Patience, Answered, Listeners, TransferPairs
    <2>4. pair.name \notin Listeners => wr[o][c] = 0
      BY <1>1, <1>4, Numbers DEF Answered, Types
    <2>5. flow[o][c] + rd[e][c] <= wr[o][c]
      BY <1>1 DEF Stream, Net
    <2> QED  BY <1>1, <2>1, <2>2, <2>3, <2>4, <2>5, Numbers DEF Types, Gone
  <1>7. CASE ClientConnects(c)
    BY <1>1, <1>2, <1>4, <1>5, <1>7 DEF ClientConnects, SameData, Goes, Moves, PatientShape,
      PatientPrograms, Gone
  <1>8. CASE ClientPrompts(c) \/ ClientReadsAll(c)
    BY <1>5, <1>8 DEF ClientPrompts, ClientReadsAll, ClientIn, PatientShape, PatientPrograms
  <1>9. CASE ClientWrites(c)
    <2>1. pc[c] # r
      BY <1>5, <1>9 DEF ClientWrites, ClientIn, PatientShape, PatientPrograms
    <2> QED  BY <1>2, <1>4, <1>5, <1>9, <2>1 DEF ClientWrites, Puts, Sends, SendsInVain, Learns,
               Told, Goes, Moves, Gone, PatientShape, PatientPrograms
  <1>10. CASE ClientReads(c) \/ ClientReadsEof(c)
    <2>1. \E k \in Nat \ {0} : Gets(e, o, c, k)
      BY <1>6, <1>10 DEF ClientReads, ClientReadsEof, SeesEof, Learns
    <2>2. pc'[c] = pc[c] \/ (ClientReads(c) /\ pc'[c] = pc[c] + 1)
      <3>1. ~SeesEof(e, o, c)
        BY <1>6 DEF SeesEof
      <3>2. ClientReads(c) => pc'[c] = pc[c] + 1
        BY DEF ClientReads, Goes, Moves
      <3>3. ClientReadsEof(c) => pc'[c] = pc[c]
        BY <1>6, <3>1 DEF ClientReadsEof, Learns, Counts, Moves
      <3> QED  BY <1>10, <3>2, <3>3
    <2>3. ClientReads(c) => pc[c] # r
      BY <1>1, <1>5, <1>6, <2>1, Numbers DEF ClientReads, ClientIn, PatientShape,
        PatientPrograms, Gets, Types
    <2>4. shut'[e][c] = shut[e][c]
      BY <2>1 DEF Gets, Told
    <2> QED  BY <1>2, <1>4, <1>5, <2>2, <2>3, <2>4 DEF Gone, PatientShape, PatientPrograms
  <1>11. CASE ClientCloses(c)
    BY <1>4, <1>5, <1>11 DEF ClientCloses, PatientShape, PatientPrograms
  <1>12. CASE ClientQuits(c)
    <2>1. Keeps(c) /\ pc'[c] = pc[c]
      <3>1. pc[c] <= Len(pair.client) /\ Len(pair.client) \in Nat
        BY <1>2, <1>4, <1>5 DEF PatientShape, PatientPrograms, ClientShape
      <3>2. ~ClientIn(c, "readAll")
        BY <1>5 DEF PatientShape, PatientPrograms, ClientIn
      <3>3. ~(pc[c] > Len(pair.client))
        BY <1>2, <3>1
      <3> QED  BY <1>6, <1>12, <3>2, <3>3 DEF ClientQuits, Moves
    <2> QED  BY <1>1, <1>4, <2>1 DEF Keeps, SameData, Gone
  <1>13. ~ClientSkips(c)
    BY <1>6 DEF ClientSkips, Learns
  <1> QED  BY <1>7, <1>8, <1>9, <1>10, <1>11, <1>12, <1>13, ClientDoes

\* The server does not take its answer back, nor give it early.
LEMMA PatienceServer ==
  ASSUME Types, Types', NEW c \in Clients, Stream(c), Course(c), Patience(c), ServerWith(c)
  PROVE  Patience(c)'
  <1> DEFINE h == Answers(pair.name)
  <1>1. "server" \in Ends /\ "client" \in Ends /\ pair' = pair /\ pc'[c] = pc[c]
    BY TwoEnds, ServerApart DEF KeepsOthers
  <1>2. shut'["client"][c] = shut["client"][c]
    BY ServerEnd
  <1>3. shut'["server"][c] = "half" => pair.name \in {"file", "sep"}
    <2>1. CASE shut'["server"][c] = shut["server"][c]
      BY <2>1 DEF Patience
    <2>2. CASE ServerShuts(c)
      BY <2>2, Halves DEF ServerShuts, ServerIn, Types, DataTypes
    <2>3. CASE ServerCloses(c)
      BY <2>3 DEF ServerCloses, Closes
    <2> QED  BY <2>1, <2>2, <2>3, ServerEnd
  <1>4. SUFFICES ASSUME pair.name \in Listeners \cup Askers
                 PROVE  /\ Answered(c) => Answered(c)'
                        /\ Serves(c)' /\ pc'[Server] <= h => ~(Answered(c)')
    BY <1>1, <1>2, <1>3 DEF Patience, Gone
  <1>5. PatientShape(pair) /\ ServerShape(pair.server)
    BY <1>4, Patients, Shapes DEF Types, DataTypes
  <1>6. ~ServerEchoes(c)
    BY <1>5 DEF ServerEchoes, ServerIn, PatientShape, PatientPrograms
  <1>7. Answered(c) => Answered(c)'
    <2>1. wr'["server"][c] >= wr["server"][c]
      BY <1>1, <1>6, ServerEnd, Numbers DEF Types
    <2>2. shut'["server"][c] = shut["server"][c] \/ shut'["server"][c] = "closed"
          \/ (shut'["server"][c] = "half" /\ ~Gone("server", c))
      BY <1>1, ServerEnd, ServerPlace DEF ServerShuts, ServerCloses, Closes, Keeps, SameData
    <2> QED  BY <1>1, <2>1, <2>2, Numbers, NumbersNext DEF Answered, Gone, Types
  <1>8. ASSUME Serves(c)', pc'[Server] <= h
        PROVE  ~(Answered(c)')
    <2>1. /\ pc[Server] \in 3..Len(pair.server) /\ pc'[Server] \in {pc[Server], pc[Server] + 1}
          /\ ~ServerCloses(c) /\ shut'["server"][c] # "closed"
      <3>1. ServerCloses(c) => shut'["server"][c] = "closed"
        BY DEF ServerCloses, Closes
      <3> QED  BY <1>5, <1>8, <3>1, ServerPlace DEF PatientShape, PatientPrograms, ServerShape
    <2>2. ~Answered(c) /\ pc[Server] <= h
      BY <1>4, <1>5, <1>8, <2>1, ServerApart DEF Patience, PatientShape, PatientPrograms
    <2>3. pair.name \in Listeners => ~ServerShuts(c)
      BY <1>5, <1>8, <2>1, <2>2 DEF ServerShuts, ServerIn, Goes, Moves, PatientShape,
        PatientPrograms
    <2>4. pair.name \notin Listeners => ~ServerWrites(c)
      BY <1>5, <1>8, <2>1, <2>2 DEF ServerWrites, ServerIn, Goes, Moves, PatientShape,
        PatientPrograms
    <2>5. /\ pair.name \in Listeners => shut'["server"][c] = shut["server"][c]
          /\ pair.name \notin Listeners => wr'["server"][c] = wr["server"][c]
      BY <1>6, <2>1, <2>3, <2>4, ServerEnd
    <2> QED  BY <1>1, <2>1, <2>2, <2>5 DEF Answered, Gone
  <1> QED  BY <1>7, <1>8

-----------------------------------------------------------------------------
(* Transfer is kept. *)

TransferShape(q) ==
  /\ q.win => q.name = "tcp_win"
  /\ q.client[2].call = "readEof" /\ (q.win => q.client[2].error = "ends")
  /\ \A k \in 3..Len(q.client) : q.client[k].call \in {"write", "close"} /\ q.client[k].error # "skips"
  /\ q.name = "tcp_win" => \A k \in 2..Len(q.client) : q.client[k].call # "write"
  /\ q.name \in {"file", "sep"} =>
       /\ Len(q.client) = 4 /\ Len(q.server) \in Nat /\ CloseAt(q.server) = Len(q.server)
       /\ q.server[Len(q.server) - 1].call = "read"

\* The programs of the pairs that transfer up to the end of file.
LEMMA Transfers ==
  ASSUME NEW q \in Pairs, q.name \in TransferPairs
  PROVE  TransferShape(q)
  <1> USE DEF TransferShape, Call, OnError, Connecting, Listening, Accepting, Writing, Closing
  <1>1. CASE q.name = "file"
    <2>1. q.server = file_server /\ q.client = file_client /\ ~q.win
      BY <1>1 DEF Pairs, Talk
    <2> QED  BY <1>1, <2>1 DEF file_server, file_client, Reading, ReadingEof, ShuttingDown, CloseAt
  <1>2. CASE q.name = "sep"
    <2>1. q.server = sep_serv2 /\ q.client = sep_clnt /\ ~q.win
      BY <1>2 DEF Pairs, Talk
    <2> QED  BY <1>2, <2>1 DEF sep_serv2, sep_clnt, Reading, ReadingEof, ShuttingDown, CloseAt
  <1>3. CASE q.name = "tcp"
    <2>1. q.client = tcp_client /\ ~q.win
      BY <1>3 DEF Pairs, Talk
    <2> QED  BY <1>3, <2>1 DEF tcp_client, ReadingEof
  <1>4. CASE q.name = "tcp_win"
    <2>1. q.client = tcp_client_win
      BY <1>4 DEF Pairs, Talk
    <2> QED  BY <1>4, <2>1 DEF tcp_client_win, ReadingEof
  <1> QED  BY <1>1, <1>2, <1>3, <1>4 DEF TransferPairs

\* A receiver goes on only at the end of file, with everything.
LEMMA TransferClient ==
  ASSUME Types, Types', Places, NEW c \in Clients, Stream(c), Course(c), Patience(c), Transfer(c),
         ClientStep(c) \/ Prompt(c)
  PROVE  Transfer(c)'
  <1> DEFINE e == "client"  o == "server"
  <1>1. e \in Ends /\ o \in Ends /\ e # o /\ c \in Procs
    BY TwoEnds
  <1>2. /\ pair' = pair /\ SameServer /\ Serves(c)' = Serves(c) /\ pc[c] \in Nat /\ pc'[c] \in Nat
        /\ wr'[o][c] = wr[o][c] /\ rd'[o][c] = rd[o][c] /\ shut'[o][c] = shut[o][c]
    BY <1>1, ClientApart, ClientEnd DEF Types, ControlTypes, SameServer, Serves
  <1>3. CASE pair.name \notin TransferPairs
    BY <1>2, <1>3 DEF Transfer, TransferPairs
  <1>4. CASE pair.name \in TransferPairs
    <2>1. TransferShape(pair) /\ ClientShape(pair.client)
      BY <1>4, Transfers, Shapes DEF Types, DataTypes
    <2>2. /\ ~ClientPrompts(c) /\ ~ClientReads(c) /\ ~ClientReadsAll(c) /\ ~ClientSkips(c)
          /\ ~ClientIn(c, "read") /\ ~ClientIn(c, "readAll")
          /\ ClientReadsEof(c) \/ ClientIn(c, "readEof") => pc[c] = 2
      <3>1. \A k \in 2..Len(pair.client) : pair.client[k].call \in {"readEof", "write", "close"}
        BY <2>1 DEF TransferShape
      <3>2. \A k \in 3..Len(pair.client) :
              pair.client[k].call # "readEof" /\ pair.client[k].error # "skips"
        BY <2>1 DEF TransferShape
      <3> QED  BY <2>1, <3>1, <3>2 DEF ClientPrompts, ClientReads, ClientReadsAll, ClientSkips,
                 ClientReadsEof, ClientIn, ClientShape, TransferShape
    <2>3. pair.name = "tcp_win" => wr'[e][c] = 0
      <3>1. pair.name = "tcp_win" => ~ClientWrites(c)
        BY <2>1 DEF TransferShape, ClientWrites, ClientIn
      <3> QED  BY <3>1, ClientEnd DEF Transfer
    <2>4. ASSUME pc'[c] > 2, shut'[e][c] # "closed"
          PROVE  rd'[e][c] = wr'[o][c]
      <3>1. CASE ClientConnects(c)
        BY <2>4, <3>1 DEF ClientConnects, Goes, Moves
      <3>2. CASE ClientWrites(c)
        <4>1. rd'[e][c] = rd[e][c] /\ shut'[e][c] = shut[e][c]
          BY <1>1, <3>2, Numbers DEF Types, ClientWrites, Puts, Sends, SendsInVain, Learns,
            Counted, Told
        <4>2. pc[c] \in 2..Len(pair.client) /\ pc[c] # 2
          BY <2>1, <3>2 DEF ClientWrites, ClientIn, TransferShape
        <4>3. pc[c] > 2
          BY <2>1, <4>2 DEF ClientShape
        <4>4. rd[e][c] = wr[o][c]
          BY <1>4, <2>4, <4>1, <4>3 DEF Transfer, Gone
        <4> QED  BY <1>2, <4>1, <4>4
      <3>3. CASE ClientReadsEof(c)
        <4>1. pc[c] = 2 /\ (SeesEof(e, o, c) \/ (~pair.win /\ flow[o][c] = 0 /\ Learns(e, o, c)))
          BY <2>1, <2>2, <2>4, <3>3 DEF ClientReadsEof, Counts, Moves, TransferShape
        <4>2. flow[o][c] = 0 /\ rd'[e][c] = rd[e][c] /\ shut'[e][c] = shut[e][c]
          BY <1>1, <4>1, Numbers DEF SeesEof, Learns, Counted, Told, Keeps, SameData, Types
        <4>3. pair.win => told[e][c] = "ok"
          BY <1>1, <4>1, Numbers DEF SeesEof, Stream, Net, Types
        <4>4. flow[o][c] + rd[e][c] = wr[o][c]
          BY <1>1, <2>4, <4>2, <4>3 DEF Stream, Net
        <4> QED  BY <1>1, <1>2, <4>2, <4>4, Numbers DEF Types
      <3>4. CASE ClientCloses(c)
        BY <2>4, <3>4 DEF ClientCloses, Closes
      <3>5. CASE ClientQuits(c)
        BY <1>1, <1>2, <2>4, <3>5 DEF ClientQuits, Closes, Moves
      <3> QED  BY <2>2, <3>1, <3>2, <3>3, <3>4, <3>5, ClientDoes
    <2>5. ASSUME pair.name \in {"file", "sep"}, shut'[e][c] = "closed" \/ pc'[c] > 3
          PROVE  wr'[e][c] > 0 \/ Gone(o, c)
      <3>1. CASE ClientConnects(c)
        BY <1>1, <2>5, <3>1 DEF ClientConnects, Goes, Moves, SameData, Course
      <3>2. CASE ClientWrites(c)
        <4>1. PICK n \in Nat \ {0} : Puts(e, o, c, n)
          BY <3>2 DEF ClientWrites
        <4>2. wr'[e][c] = wr[e][c] + n \/ told[e][c] = "reset"
          BY <4>1 DEF Puts, Sends, SendsInVain, Learns, Counted
        <4> QED  BY <1>1, <4>2, Numbers DEF Types, Stream, Net, Gone
      <3>3. CASE ClientReadsEof(c)
        <4>1. pc'[c] \in {2, 3}
          BY <2>2, <3>3 DEF ClientReadsEof, Goes, Counts, Moves
        <4>2. shut'[e][c] = shut[e][c] /\ (wr'[e][c] = wr[e][c] \/ ClientWrites(c))
          BY <1>1, <3>3, ClientEnd, Numbers DEF Types, ClientReadsEof, SeesEof, Gets, Learns,
            Keeps, SameData, Told
        <4>3. wr[e][c] > 0 \/ Gone(o, c)
          BY <2>5, <4>1, <4>2 DEF Transfer, Gone
        <4> QED  BY <4>2, <4>3, <3>2
      <3>4. CASE ClientCloses(c)
        <4>1. pc[c] = 4 /\ wr'[e][c] = wr[e][c]
          BY <1>1, <2>1, <2>5, <3>4 DEF ClientCloses, TransferShape, Closes
        <4> QED  BY <2>5, <4>1 DEF Transfer
      <3>5. CASE ClientQuits(c)
        <4>1. wr'[e][c] = wr[e][c] /\ pc'[c] = pc[c]
          BY <1>1, <3>5 DEF ClientQuits, Closes, Keeps, SameData, Moves
        <4>2. CASE Gone(e, c) \/ pc[c] > 3
          BY <2>5, <4>1, <4>2 DEF Transfer
        <4>3. CASE ~(Gone(e, c) \/ pc[c] > 3)
          <5>1. ~(pc[c] > Len(pair.client))
            <6>1. Len(pair.client) = 4
              BY <2>1, <2>5 DEF TransferShape
            <6> QED  BY <1>2, <4>3, <6>1
          <5>2. told[e][c] # "ok"
            BY <1>1, <2>2, <2>5, <3>5, <4>1, <4>3, <5>1 DEF ClientQuits, Keeps, SameData, Gone
          <5> QED  BY <1>1, <5>2 DEF Stream, Net, Gone
        <4> QED  BY <4>2, <4>3
      <3> QED  BY <2>2, <3>1, <3>2, <3>3, <3>4, <3>5, ClientDoes
    <2> QED  BY <1>2, <2>3, <2>4, <2>5 DEF Transfer, Gone, SameServer
  <1> QED  BY <1>3, <1>4

\* A sender that has announced the end writes no more, and waits for the message.
LEMMA TransferServer ==
  ASSUME Types, Types', NEW c \in Clients, Stream(c), Course(c), Patience(c), Transfer(c),
         ServerWith(c)
  PROVE  Transfer(c)'
  <1> DEFINE e == "server"  o == "client"
  <1>1. e \in Ends /\ o \in Ends /\ e # o
    BY TwoEnds
  <1>2. /\ pair' = pair /\ pc'[c] = pc[c] /\ pc[c] \in Nat
        /\ wr'[o][c] = wr[o][c] /\ rd'[o][c] = rd[o][c] /\ shut'[o][c] = shut[o][c]
    BY TwoEnds, ServerApart, ServerEnd DEF KeepsOthers, Types, ControlTypes
  <1>3. CASE pair.name \notin TransferPairs
    BY <1>2, <1>3 DEF Transfer, TransferPairs
  <1>4. CASE pair.name \in TransferPairs
    <2>1. TransferShape(pair) /\ PatientShape(pair) /\ ServerShape(pair.server)
          /\ pair.name \in Listeners
      BY <1>4, Transfers, Patients, Shapes DEF Types, DataTypes, Listeners
    <2>3. ASSUME pc[c] > 2, ~Gone(o, c)
          PROVE  rd[o][c] = wr'[e][c]
      <3>1. rd[o][c] = wr[e][c]
        BY <1>4, <2>3 DEF Transfer
      <3>2. Answered(c)
        <4>1. Hears(pair.name) = 2
          BY <1>4 DEF Hears, TransferPairs
        <4> QED  BY <2>1, <2>3, <4>1 DEF Patience
      <3>3. ~ServerWrites(c) /\ ~ServerEchoes(c)
        <4>1. Answers(pair.name) \in Nat
          BY DEF Answers
        <4>2. Serves(c) /\ pc[Server] \in Nat
          BY ServerApart, TwoEnds DEF Types, ControlTypes
        <4>3. pc[Server] > Answers(pair.name)
          BY <2>1, <3>2, <4>1, <4>2 DEF Patience
        <4> QED  BY <2>1, <4>1, <4>3 DEF ServerWrites, ServerEchoes, ServerIn, PatientShape,
                   PatientPrograms
      <3> QED  BY <3>1, <3>3, ServerEnd
    <2>4. Gone(e, c) => shut'[e][c] = "closed"
      BY <1>1, ServerPlace DEF Gone, Keeps, SameData
    <2>5. ASSUME pair.name \in {"file", "sep"}, Serves(c)', pc'[Server] = Len(pair.server)
          PROVE  rd'[e][c] > 0
      <3>1. /\ pc[Server] = Len(pair.server) - 1 /\ ~Gone(e, c)
            /\ pair.server[pc[Server]].call = "read"
        BY <2>1, <2>5, ServerPlace DEF TransferShape, ServerShape
      <3>2. ServerReads(c)
        BY <3>1 DEF ServerWith, ServerTurns, ServerWrites, ServerReads, ServerReadsAll,
          ServerReadsEof, ServerPeeks, ServerEchoes, ServerShuts, ServerCloses, ServerIn
      <3>3. CASE \E k \in Nat \ {0} : Gets(e, o, c, k)
        BY <1>1, <3>3, Numbers DEF Types, Gets, Counted
      <3>4. CASE SeesEof(e, o, c) \/ (flow[o][c] = 0 /\ Learns(e, o, c))
        <4>1. flow[o][c] = 0 /\ Gone(o, c) /\ rd'[e][c] = rd[e][c]
          BY <1>1, <3>4, Numbers DEF Types, SeesEof, Learns, Counted, Keeps, SameData, Stream,
            Net, Gone
        <4>2. wr[o][c] > 0
          BY <2>5, <3>1, <4>1 DEF Transfer
        <4>3. flow[o][c] + rd[e][c] = wr[o][c]
          BY <1>1, <2>1, <2>5, <3>1 DEF Stream, Net, TransferShape, Gone
        <4> QED  BY <1>1, <4>1, <4>2, <4>3, Numbers DEF Types
      <3> QED  BY <3>2, <3>3, <3>4 DEF ServerReads
    <2> QED  BY <1>2, <2>3, <2>4, <2>5 DEF Transfer, Gone
  <1> QED  BY <1>3, <1>4

-----------------------------------------------------------------------------
(* Asked is kept. *)

\* The calculating server and its client.
LEMMA Operations ==
  ASSUME NEW q \in Pairs, q.name = "op"
  PROVE  /\ Len(q.client) = 4
         /\ q.client[2].call = "write" /\ q.client[2].size = Request
         /\ q.client[3].call = "read" /\ q.client[4].call = "close"
         /\ \A k \in 2..4 : q.client[k].error # "skips"
         /\ Len(q.server) = 7 /\ CloseAt(q.server) = 6
         /\ q.server[3].call = "read" /\ q.server[3].size = 1
         /\ q.server[4].call = "readAll" /\ q.server[4].size = Request - 1
         /\ q.server[5].call = "write"
  <1>1. q.server = op_server /\ q.client = op_client
    BY DEF Pairs, Talk
  <1> QED  BY <1>1 DEF op_server, op_client, CloseAt, Call, OnError, Listening, Connecting, Accepting,
             Reading, ReadingAll, Writing, Closing, Again, Request, Operands, OpSz

\* The client writes one request.
LEMMA AskedClient ==
  ASSUME Types, Types', Places, NEW c \in Clients, Stream(c), Course(c), Asked(c),
         ClientStep(c) \/ Prompt(c)
  PROVE  Asked(c)'
  <1>1. /\ pair' = pair /\ SameServer /\ Serves(c)' = Serves(c) /\ pc[c] \in Nat /\ pc'[c] \in Nat
        /\ rd'["server"][c] = rd["server"][c] /\ wr["client"][c] \in Nat /\ wr'["client"][c] \in Nat
    BY TwoEnds, ClientApart, ClientEnd, Numbers, NumbersNext DEF Types, ControlTypes, SameServer,
      Serves
  <1>2. ASSUME pair.name = "op"
        PROVE  wr'["client"][c] <= Request /\ (pc'[c] <= 2 => wr'["client"][c] = 0)
    <2>1. /\ Len(pair.client) = 4 /\ pair.client[2].call = "write" /\ pair.client[2].size = Request
          /\ pair.client[3].call = "read" /\ pair.client[4].call = "close"
          /\ \A k \in 2..4 : pair.client[k].error # "skips"
      BY <1>2, Operations DEF Types, DataTypes
    <2>2. CASE ClientWrites(c)
      <3>1. pc[c] = 2
        BY <2>1, <2>2 DEF ClientWrites, ClientIn
      <3>2. wr["client"][c] = 0 /\ pc'[c] = 3
        BY <1>1, <1>2, <2>2, <3>1 DEF Asked, ClientWrites, Goes, Moves
      <3>3. Puts("client", "server", c, Request)
        BY <2>1, <2>2, <3>1 DEF ClientWrites
      <3>4. wr'["client"][c] = Request \/ wr'["client"][c] = 0
        BY <3>2, <3>3, RequestIsSix DEF Puts, Sends, SendsInVain, Learns, Counted
      <3> QED  BY <3>2, <3>4, RequestIsSix
    <2>3. CASE ~ClientWrites(c)
      <3>1. wr'["client"][c] = wr["client"][c]
        BY <2>3, ClientEnd
      <3>2. ~ClientPrompts(c) /\ ~ClientSkips(c)
        BY <2>1 DEF ClientPrompts, ClientSkips, ClientIn
      <3>3. pc'[c] = pc[c] \/ pc'[c] = pc[c] + 1
        BY <2>3, <3>2, ClientDoes DEF ClientConnects, ClientReads, ClientReadsAll, ClientReadsEof,
          ClientCloses, ClientQuits, Goes, Counts, Moves
      <3> QED  BY <1>1, <1>2, <3>1, <3>3 DEF Asked
    <2> QED  BY <2>2, <2>3
  <1> QED  BY <1>1, <1>2 DEF Asked, SameServer, Request

\* The server counts what it has read of the request.
LEMMA AskedServer ==
  ASSUME Types, Types', NEW c \in Clients, Stream(c), Stream(c)', Course(c), Patience(c), Asked(c),
         ServerWith(c)
  PROVE  Asked(c)'
  <1> DEFINE e == "server"  o == "client"
  <1>1. e \in Ends /\ o \in Ends /\ e # o
    BY TwoEnds
  <1>2. /\ pair' = pair /\ pc'[c] = pc[c] /\ wr'[o][c] = wr[o][c]
        /\ Serves(c) /\ pc[Server] \in Nat /\ rem[Server] \in Nat
        /\ rd[e][c] \in Nat /\ wr[o][c] \in Nat
    BY <1>1, TwoEnds, ServerApart, ServerEnd, Numbers DEF KeepsOthers, Types, ControlTypes
  <1>3. SUFFICES ASSUME pair.name = "op", Serves(c)'
                 PROVE  /\ pc'[Server] = 3 => rd'[e][c] = 0
                        /\ pc'[Server] = 4 => rd'[e][c] = 1 + rem'[Server]
                        /\ pc'[Server] = 5 => rd'[e][c] = Request
    BY <1>2 DEF Asked, Request
  <1>4. /\ Len(pair.server) = 7 /\ CloseAt(pair.server) = 6
        /\ pair.server[3].call = "read" /\ pair.server[3].size = 1
        /\ pair.server[4].call = "readAll" /\ pair.server[4].size = Request - 1
        /\ pair.server[5].call = "write"
    BY <1>3, Operations DEF Types, DataTypes
  <1>5. SUFFICES ASSUME pc[Server] \in {3, 4, 5}, pc'[Server] \in {3, 4, 5}
                 PROVE  \/ pc'[Server] = 4 /\ rd'[e][c] = 1 + rem'[Server]
                        \/ pc'[Server] = 5 /\ rd'[e][c] = Request
    BY <1>2, <1>3, <1>4, ServerPlace
  <1>6. shut[o][c] = "open" /\ told[e][c] = "ok"
    <2>1. ~Gone(o, c)
      <3>1. Answers(pair.name) = 5
        BY <1>3 DEF Answers
      <3> QED  BY <1>2, <1>3, <1>5, <3>1 DEF Patience, Askers
    <2> QED  BY <1>1, <2>1, Numbers DEF Types, Stream, Net, Gone
  <1>7. CASE pc[Server] = 3
    <2>1. ServerReads(c)
      BY <1>4, <1>7 DEF ServerWith, ServerTurns, ServerWrites, ServerReads, ServerReadsAll,
        ServerReadsEof, ServerPeeks, ServerEchoes, ServerShuts, ServerCloses, ServerIn
    <2>2. Gets(e, o, c, 1)
      BY <1>4, <1>6, <1>7, <2>1 DEF ServerReads, SeesEof, Learns
    <2>3. rd[e][c] = 0
      BY <1>2, <1>3, <1>7 DEF Asked
    <2>4. rd'[e][c] = 1 /\ pc'[Server] = 4 /\ rem'[Server] = 0
      BY <1>7, <2>1, <2>2, <2>3 DEF ServerReads, Gets, Counted, Goes, Moves
    <2> QED  BY <2>4
  <1>8. CASE pc[Server] = 4
    <2>1. ServerReadsAll(c)
      BY <1>4, <1>8 DEF ServerWith, ServerTurns, ServerWrites, ServerReads, ServerReadsAll,
        ServerReadsEof, ServerPeeks, ServerEchoes, ServerShuts, ServerCloses, ServerIn
    <2>2. PICK k \in Nat \ {0} :
            /\ Gets(e, o, c, k)
            /\ \/ rem[Server] + k >= Request - 1 /\ Goes(Server)
               \/ rem[Server] + k < Request - 1 /\ Counts(Server, rem[Server] + k)
      BY <1>4, <1>6, <1>8, <2>1 DEF ServerReadsAll, Learns
    <2>3. rd'[e][c] = 1 + rem[Server] + k
      BY <1>2, <1>3, <1>8, <2>2 DEF Asked, Gets, Counted
    <2>4. rd'[e][c] <= Request
      <3>1. flow'[o][c] + rd'[e][c] <= wr'[o][c] /\ flow'[o][c] \in Nat /\ rd'[e][c] \in Nat
        BY <1>1, NumbersNext DEF Types, Stream, Net
      <3>2. wr[o][c] <= Request
        BY <1>3 DEF Asked
      <3> QED  BY <1>2, <3>1, <3>2, RequestIsSix
    <2>5. CASE rem[Server] + k >= Request - 1 /\ Goes(Server)
      <3>1. pc'[Server] = 5
        BY <1>8, <2>5 DEF Goes, Moves
      <3> QED  BY <1>2, <2>3, <2>4, <2>5, <3>1, RequestIsSix
    <2>6. CASE rem[Server] + k < Request - 1 /\ Counts(Server, rem[Server] + k)
      <3>1. pc'[Server] = 4 /\ rem'[Server] = rem[Server] + k
        BY <1>8, <2>6 DEF Counts, Moves
      <3> QED  BY <1>2, <2>3, <3>1
    <2> QED  BY <2>2, <2>5, <2>6
  <1>9. CASE pc[Server] = 5
    <2>1. ServerWrites(c)
      BY <1>4, <1>9 DEF ServerWith, ServerTurns, ServerWrites, ServerReads, ServerReadsAll,
        ServerReadsEof, ServerPeeks, ServerEchoes, ServerShuts, ServerCloses, ServerIn
    <2>2. pc'[Server] = 6
      BY <1>9, <2>1 DEF ServerWrites, Goes, Moves
    <2> QED  BY <1>5, <2>2
  <1> QED  BY <1>5, <1>7, <1>8, <1>9

-----------------------------------------------------------------------------
(* Echoed and Abreast are kept. *)

EchoShape(s) ==
  /\ s[3].call = "echo" /\ s[3].size \in Nat
  /\ CloseAt(s) \in {4, 5} /\ CloseAt(s) <= Len(s) /\ Len(s) \in Nat
  /\ CloseAt(s) = 5 => s[4].call = "write"

CountingShape(t) ==
  /\ Len(t) = 8 /\ t[3].size \in Nat
  /\ t[2].call = "prompt" /\ t[5].call = "prompt"
  /\ t[3].call = "write" /\ t[6].call = "write" /\ t[6].size = t[3].size
  /\ \A k \in {4, 7} :
       t[k].size = t[3].size /\ (t[k].call = "readAll" \/ (t[k].call = "read" /\ t[k].size = 1))
  /\ t[8].call = "close"

\* An echo server loops, and may write once more before it closes.
LEMMA EchoServersEcho ==
  ASSUME NEW q \in Pairs, q.name \in Echoes
  PROVE  EchoShape(q.server)
  <1>1. /\ EchoShape(echo_server) /\ EchoShape(echo_server5) /\ EchoShape(echo_server_win)
        /\ EchoShape(echo_stdserv)
    BY DEF EchoShape, CloseAt, echo_server, echo_server5, echo_server_win, echo_stdserv, Call,
      Listening, Accepting, Echoing, Writing, Closing, Again, BufSize
  <1>2. q.server \in {echo_server, echo_server5, echo_server_win, echo_stdserv}
    BY DEF Pairs, Talk, Echoes, InStepPairs
  <1> QED  BY <1>1, <1>2

\* A client that counts reads as much as it has written, twice; echo_client2 minds a -1.
LEMMA CountingClients ==
  ASSUME NEW q \in Pairs, q.name \in InStepPairs
  PROVE  /\ CountingShape(q.client)
         /\ q.name = "echo2" =>
              \A k \in {4, 7} : q.client[k].call = "readAll" /\ q.client[k].error = "ends"
  <1> USE DEF CountingShape, Typed, Call, OnError, Connecting, Prompting, Writing, Reading,
          ReadingAll, Closing, Msg
  <1>1. /\ CountingShape(echo_client2)
        /\ \A k \in {4, 7} : echo_client2[k].call = "readAll" /\ echo_client2[k].error = "ends"
    BY DEF echo_client2
  <1>2. CountingShape(StableEchoClnt)
    BY DEF StableEchoClnt
  <1>3. CountingShape(echo_stdclnt)
    BY DEF echo_stdclnt
  <1> HIDE DEF CountingShape, Typed, Call, OnError, Connecting, Prompting, Writing, Reading,
        ReadingAll, Closing, Msg
  <1>4. q.client \in {echo_client2, StableEchoClnt, echo_stdclnt}
        /\ (q.name = "echo2" => q.client = echo_client2)
    BY DEF Pairs, Talk, InStepPairs
  <1> QED  BY <1>1, <1>2, <1>3, <1>4

\* A client does not change what the server has echoed.
LEMMA EchoedClient ==
  ASSUME Types, Places, NEW c \in Clients, Stream(c), Course(c), Echoed(c), ClientStep(c) \/ Prompt(c)
  PROVE  Echoed(c)'
  <1>1. /\ pair' = pair /\ SameServer /\ Serves(c)' = Serves(c)
        /\ rd'["server"][c] = rd["server"][c] /\ wr'["server"][c] = wr["server"][c]
    BY ClientApart, ClientEnd DEF SameServer, Serves
  <1> QED  BY <1>1 DEF Echoed, SameServer

\* The numbers of both directions.
LEMMA Account ==
  ASSUME Types, NEW c \in Clients, Stream(c)
  PROVE  /\ \A e \in Ends : flow[e][c] \in Nat /\ wr[e][c] \in Nat /\ rd[e][c] \in Nat
         /\ flow["server"][c] + rd["client"][c] <= wr["server"][c]
         /\ flow["client"][c] + rd["server"][c] <= wr["client"][c]
  BY TwoEnds, Numbers DEF Types, Stream, Net

\* The server at its echo loop.
LEMMA AtTheLoop ==
  ASSUME Types, NEW c \in Clients, Stream(c), Course(c), Echoed(c), ServerWith(c),
         pair.name \in Echoes, pc[Server] = 3
  PROVE  /\ wr["server"][c] + rem[Server] <= rd["server"][c] /\ ~Gone("server", c)
         /\ \/ /\ rem[Server] = 0 /\ \E k \in Nat : Gets("server", "client", c, k) /\ Counts(Server, k)
            \/ /\ rem[Server] = 0 /\ Goes(Server) /\ SeesEof("server", "client", c)
            \/ /\ rem[Server] = 0 /\ Counts(Server, 0) /\ Learns("server", "client", c)
            \/ /\ rem[Server] > 0 /\ Counts(Server, 0) /\ Puts("server", "client", c, rem[Server])
  <1>1. EchoShape(pair.server)
    BY EchoServersEcho DEF Types, DataTypes
  <1>2. ServerEchoes(c)
    BY <1>1 DEF EchoShape, ServerWith, ServerTurns, ServerWrites, ServerReads, ServerReadsAll,
      ServerReadsEof, ServerPeeks, ServerEchoes, ServerShuts, ServerCloses, ServerIn
  <1>3. Serves(c) /\ ~Gone("server", c)
    BY <1>1, ServerApart, ServerPlace DEF EchoShape
  <1>4. 1..pair.server[3].size \subseteq Nat
    BY <1>1 DEF EchoShape
  <1> QED  BY <1>2, <1>3, <1>4 DEF ServerEchoes, Echoed

\* The server writes no more than it has read.
LEMMA EchoedServer ==
  ASSUME Types, NEW c \in Clients, Stream(c), Course(c), Echoed(c), ServerWith(c)
  PROVE  Echoed(c)'
  <1> DEFINE e == "server"  o == "client"
  <1>1. SUFFICES ASSUME pair.name \in Echoes, Serves(c)', pc'[Server] = 3
                 PROVE  wr'[e][c] + rem'[Server] <= rd'[e][c]
    BY ServerApart DEF Echoed, KeepsOthers
  <1>2. pc[Server] = 3 /\ rem[Server] \in Nat
    <2>1. EchoShape(pair.server)
      BY <1>1, EchoServersEcho DEF Types, DataTypes
    <2> QED  BY <1>1, <2>1, ServerPlace, TwoEnds DEF EchoShape, Types, ControlTypes
  <1>3. wr[e][c] + rem[Server] <= rd[e][c] /\ wr[e][c] \in Nat /\ rd[e][c] \in Nat
    BY <1>1, <1>2, AtTheLoop, Account, TwoEnds
  <1>4. CASE rem[Server] = 0 /\ \E k \in Nat : Gets(e, o, c, k) /\ Counts(Server, k)
    BY <1>3, <1>4 DEF Gets, Counted, Counts, Moves
  <1>5. CASE Goes(Server)
    BY <1>1, <1>2, <1>5 DEF Goes, Moves
  <1>6. CASE rem[Server] = 0 /\ Counts(Server, 0) /\ Learns(e, o, c)
    BY <1>3, <1>6 DEF Learns, Counted, Counts, Moves
  <1>7. CASE Counts(Server, 0) /\ Puts(e, o, c, rem[Server])
    BY <1>2, <1>3, <1>7 DEF Puts, Sends, SendsInVain, Learns, Counted, Counts, Moves
  <1> QED  BY <1>1, <1>2, <1>4, <1>5, <1>6, <1>7, AtTheLoop

\* A client that counts is abreast of its answers whenever it stops counting.
LEMMA AbreastClient ==
  ASSUME Types, Types', Places, NEW c \in Clients, Stream(c), Course(c), Patience(c), Abreast(c),
         ClientStep(c) \/ Prompt(c)
  PROVE  Abreast(c)'
  <1> DEFINE e == "client"  o == "server"  m == pair.client[3].size
  <1>1. e \in Ends /\ o \in Ends /\ e # o /\ c \in Procs
    BY TwoEnds
  <1>2. /\ pair' = pair /\ SameServer /\ Serves(c)' = Serves(c)
        /\ wr'[o][c] = wr[o][c] /\ rd'[o][c] = rd[o][c] /\ shut'[o][c] = shut[o][c]
        /\ pc[c] \in Nat /\ rem[c] \in Nat /\ stat[c] = "run"
        /\ conn'[c] = conn[c] \/ (conn[c] = "none" /\ conn'[c] = "queued")
    BY <1>1, ClientApart, ClientEnd DEF Types, ControlTypes, SameServer, Serves, ClientConnects
  <1>3. SUFFICES ASSUME pair.name \in InStepPairs
                 PROVE  Abreast(c)'
    BY <1>2 DEF Abreast
  <1>4. CountingShape(pair.client) /\ ClientShape(pair.client) /\ ServerShape(pair.server)
    BY <1>3, CountingClients, Shapes DEF Types, DataTypes
  <1>5. m \in Nat /\ Len(pair.client) = 8
    BY <1>4 DEF CountingShape
  <1>6. /\ wr[e][c] \in Nat /\ rd[e][c] \in Nat /\ wr'[e][c] \in Nat /\ rd'[e][c] \in Nat
        /\ wr[o][c] \in Nat /\ rd[o][c] \in Nat /\ flow[o][c] \in Nat /\ flow[e][c] \in Nat
    BY <1>1, Numbers, NumbersNext DEF Types
  <1>7. /\ pc[c] \in {1, 2, 3, 5, 6, 8} /\ ~Left(c) => wr[e][c] <= rd[e][c]
        /\ pc[c] \in {4, 7} /\ ~Left(c) => wr[e][c] + rem[c] <= rd[e][c] + m
        /\ Gone(e, c) /\ ~Gone(o, c) => wr[e][c] <= rd[e][c]
        /\ Gone(o, c) /\ ~Gone(e, c) => conn[c] # "accepted"
        /\ ~Gone(e, c) => wr[o][c] <= rd[o][c]
        /\ Serves(c) /\ pc[Server] > 3 => Gone(e, c)
        /\ Serves(c) /\ pc[Server] < CloseAt(pair.server) => told[o][c] = "ok"
    BY <1>2, <1>3 DEF Abreast
  \* Whoever has gone stays gone, and a reset means that the server has.
  <1>8. Gone(e, c) => shut'[e][c] = "closed"
    BY <1>1, ClientEnd DEF Gone, ClientCloses, ClientQuits, Closes, Keeps, SameData
  <1>9. told[e][c] # "ok" => Gone(o, c)
    BY <1>1 DEF Stream, Net, Gone
  <1>10. SUFFICES /\ stat'[c] = "run" /\ pc'[c] \in {1, 2, 3, 5, 6, 8} /\ ~Left(c) => wr'[e][c] <= rd'[e][c]
                  /\ pc'[c] \in {4, 7} /\ ~Left(c) => wr'[e][c] + rem'[c] <= rd'[e][c] + m
                  /\ shut'[e][c] = "closed" /\ ~Gone(o, c) => wr'[e][c] <= rd'[e][c]
                  /\ Serves(c) /\ pc[Server] < CloseAt(pair.server) => told'[o][c] = "ok"
    <2>1. ~(Left(c)') => ~Left(c)
      BY <1>2 DEF Left, Gone
    <2>2. Gone(o, c) /\ shut'[e][c] # "closed" => conn'[c] # "accepted"
      BY <1>2, <1>7, <1>8
    <2>3. shut'[e][c] # "closed" => wr'[o][c] <= rd'[o][c]
      BY <1>2, <1>7, <1>8
    <2> QED  BY <1>2, <1>7, <1>8, <1>10, <2>1, <2>2, <2>3 DEF Abreast, Gone, SameServer, CloseAt
  \* Who is left by the server while it waits for its answer is left unheard.
  <1>11. Gone(o, c) /\ pc[c] \in {4, 7} /\ pair.name # "echo2" => Left(c)
    <2>1. pc[c] \in {4, 7} => conn[c] # "none" /\ ~Gone(e, c)
      BY <1>2, <1>5 DEF Course
    <2>2. conn[c] \in {"none", "queued", "accepted"}
      BY DEF Types, DataTypes
    <2> QED  BY <1>7, <2>1, <2>2 DEF Left
  <1>12. CASE ClientConnects(c)
    <2>1. /\ pc'[c] = 2 /\ pc[c] = 1 /\ wr'[e][c] = wr[e][c] /\ rd'[e][c] = rd[e][c]
          /\ shut'[e][c] = shut[e][c] /\ told'[o][c] = told[o][c]
      BY <1>1, <1>12 DEF ClientConnects, SameData, Goes, Moves
    <2> QED  BY <1>7, <2>1 DEF Gone
  <1>13. CASE ClientPrompts(c)
    <2>1. /\ pc[c] \in {2, 5} /\ pc'[c] \in {3, 6, 8}
          /\ wr'[e][c] = wr[e][c] /\ rd'[e][c] = rd[e][c]
          /\ shut'[e][c] = shut[e][c] /\ told'[o][c] = told[o][c]
      <3>1. pc[c] \in 2..8 /\ pair.client[pc[c]].call = "prompt"
        BY <1>5, <1>13 DEF ClientPrompts, ClientIn
      <3>2. pc[c] \in {2, 5}
        BY <1>4, <3>1 DEF CountingShape
      <3> QED  BY <1>1, <1>5, <1>13, <3>2 DEF ClientPrompts, Keeps, SameData, Moves
    <2> QED  BY <1>7, <2>1 DEF Gone
  <1>14. CASE ClientWrites(c)
    <2>1. pc[c] \in {3, 6} /\ pair.client[pc[c]].size = m
      <3>1. pc[c] \in 2..8 /\ pair.client[pc[c]].call = "write"
        BY <1>5, <1>14 DEF ClientWrites, ClientIn
      <3> QED  BY <1>4, <3>1 DEF CountingShape
    <2>2. Puts(e, o, c, m) /\ Goes(c)
      BY <1>14, <2>1 DEF ClientWrites
    <2>3. /\ wr'[e][c] <= wr[e][c] + m /\ rd'[e][c] = rd[e][c]
          /\ shut'[e][c] = shut[e][c] /\ told'[o][c] = told[o][c]
      BY <1>5, <1>6, <2>2 DEF Puts, Sends, SendsInVain, Learns, Counted, Told
    <2>4. pc'[c] \in {4, 7} /\ rem'[c] = 0
      BY <2>1, <2>2 DEF Goes, Moves
    <2>5. ~Gone(e, c)
      BY <1>2, <1>5, <2>1 DEF Course
    <2> QED  BY <1>5, <1>6, <1>7, <2>1, <2>3, <2>4, <2>5 DEF Gone
  <1>15. CASE ClientReads(c) \/ ClientReadsAll(c)
    <2>1. /\ pc[c] \in {4, 7} /\ pair.client[pc[c]].size = m
          /\ ClientReads(c) => m = 1 /\ pair.name # "echo2"
          /\ ClientReadsAll(c) /\ pair.name = "echo2" => pair.client[pc[c]].error = "ends"
      <3>1. /\ pc[c] \in 2..8 /\ pair.client[pc[c]].call \in {"read", "readAll"}
            /\ ClientReads(c) => pair.client[pc[c]].call = "read"
        BY <1>5, <1>15 DEF ClientReads, ClientReadsAll, ClientIn
      <3>2. pc[c] \in {4, 7}
        BY <1>4, <3>1 DEF CountingShape
      <3>3. pair.name = "echo2" =>
              pair.client[pc[c]].call = "readAll" /\ pair.client[pc[c]].error = "ends"
        BY <1>3, <3>2, CountingClients DEF Types, DataTypes
      <3> QED  BY <1>4, <3>1, <3>2, <3>3 DEF CountingShape
    <2>2. ~Gone(e, c) /\ (~Left(c) => wr[e][c] + rem[c] <= rd[e][c] + m)
      BY <1>2, <1>5, <1>7, <2>1 DEF Course
    <2>3. CASE \E k \in Nat \ {0} :
                 /\ Gets(e, o, c, k)
                 /\ \/ rem[c] + k >= m /\ Goes(c)
                    \/ rem[c] + k < m /\ Counts(c, rem[c] + k)
      <3>1. PICK k \in Nat \ {0} :
              /\ Gets(e, o, c, k)
              /\ \/ rem[c] + k >= m /\ Goes(c)
                 \/ rem[c] + k < m /\ Counts(c, rem[c] + k)
        BY <2>3
      <3>2. /\ wr'[e][c] = wr[e][c] /\ rd'[e][c] = rd[e][c] + k
            /\ shut'[e][c] = shut[e][c] /\ told'[o][c] = told[o][c]
        BY <1>6, <3>1 DEF Gets, Counted, Told
      <3>3. CASE rem[c] + k >= m /\ Goes(c)
        <4>1. pc'[c] \in {5, 8}
          BY <2>1, <3>3 DEF Goes, Moves
        <4>2. ~Left(c) => wr'[e][c] <= rd'[e][c]
          BY <1>2, <1>5, <1>6, <2>2, <3>2, <3>3
        <4> QED  BY <1>7, <2>2, <3>2, <4>1, <4>2 DEF Gone
      <3>4. CASE rem[c] + k < m /\ Counts(c, rem[c] + k)
        <4>1. pc'[c] = pc[c] /\ rem'[c] = rem[c] + k
          BY <3>4 DEF Counts, Moves
        <4>2. ~Left(c) => wr'[e][c] + rem'[c] <= rd'[e][c] + m
          BY <1>2, <1>5, <1>6, <2>2, <3>2, <4>1
        <4> QED  BY <1>7, <2>1, <2>2, <3>2, <4>1, <4>2 DEF Gone
      <3> QED  BY <3>1, <3>3, <3>4
    <2>4. CASE pair.name # "echo2" /\ (SeesEof(e, o, c) \/ Learns(e, o, c))
      <3>1. shut[o][c] # "half"
        BY <1>3 DEF Patience, InStepPairs
      <3>2. Gone(o, c)
        BY <1>1, <1>9, <2>4, <3>1, Numbers DEF Types, SeesEof, Learns, Gone
      <3>3. Left(c)
        BY <1>11, <2>1, <2>4, <3>2
      <3>4. told'[o][c] = told[o][c]
        BY <1>1, <2>4 DEF SeesEof, Learns, Told, Keeps, SameData
      <3> QED  BY <1>7, <3>2, <3>3, <3>4
    <2> QED  BY <1>2, <1>15, <2>1, <2>3, <2>4 DEF ClientReads, ClientReadsAll
  <1>16. ~ClientReadsEof(c)
    <2>1. ClientReadsEof(c) => pc[c] \in 2..8 /\ pair.client[pc[c]].call = "readEof"
      BY <1>5 DEF ClientReadsEof, ClientIn
    <2> QED  BY <1>4, <2>1 DEF CountingShape
  <1>17. CASE ClientSkips(c)
    <2>1. pc[c] \in {3, 6}
      <3>1. pc[c] \in 2..8 /\ pair.client[pc[c]].call = "write"
        BY <1>5, <1>17 DEF ClientSkips, ClientIn
      <3> QED  BY <1>4, <3>1 DEF CountingShape
    <2>2. /\ wr'[e][c] = wr[e][c] /\ rd'[e][c] = rd[e][c] /\ pc'[c] \in {5, 8}
          /\ shut'[e][c] = shut[e][c] /\ told'[o][c] = told[o][c]
      BY <1>6, <1>17, <2>1 DEF ClientSkips, Learns, Counted, Told, Moves
    <2> QED  BY <1>7, <2>1, <2>2 DEF Gone
  <1>18. CASE ClientCloses(c) \/ ClientQuits(c)
    <2>1. /\ wr'[e][c] = wr[e][c] /\ rd'[e][c] = rd[e][c]
          /\ \/ pc[c] = 8 /\ pc'[c] = 9 /\ Closes(e, o, c)
             \/ /\ stat'[c] # "run" /\ pc'[c] = pc[c] /\ rem'[c] = rem[c]
                /\ Keeps(c) \/ (Gone(e, c) /\ Closes(e, o, c)) \/ Gone(o, c)
      <3>1. CASE ClientCloses(c)
        BY <1>1, <1>5, <3>1 DEF ClientCloses, Closes, Goes, Moves
      <3>2. CASE ClientQuits(c)
        BY <1>1, <1>2, <1>9, <3>2 DEF ClientQuits, Closes, Keeps, SameData, Moves, Course
      <3> QED  BY <1>18, <3>1, <3>2
    <2>2. shut'[e][c] = "closed" /\ ~Gone(o, c) => wr'[e][c] <= rd'[e][c]
      BY <1>1, <1>7, <2>1 DEF Gone, Left, Keeps, SameData
    <2>3. ASSUME Serves(c), pc[Server] < CloseAt(pair.server)
          PROVE  told'[o][c] = "ok"
      <3>1. ~Gone(o, c)
        <4>1. conn[c] = "accepted"
          BY <2>3 DEF Places, Serves
        <4>2. pc[Server] <= CloseAt(pair.server)
          <5>1. ServerShape(pair.server)
            BY Shapes DEF Types, DataTypes
          <5>2. Len(pair.server) \in Nat /\ CloseAt(pair.server) \in 3..Len(pair.server)
            BY <5>1 DEF ServerShape
          <5>3. pc[Server] \in Nat
            BY TwoEnds DEF Types, ControlTypes
          <5> QED  BY <2>3, <5>2, <5>3
        <4> QED  BY <2>3, <4>1, <4>2 DEF Course
      <3>2. CASE Keeps(c) \/ (Gone(e, c) /\ Closes(e, o, c))
        BY <1>1, <1>7, <2>3, <3>2 DEF Keeps, SameData, Gone, Closes
      <3>3. CASE ~Gone(e, c) /\ pc[c] = 8 /\ Closes(e, o, c)
        <4>1. flow[o][c] = 0
          BY <1>6, <1>7, <3>1, <3>3, Account DEF Left
        <4> QED  BY <1>7, <2>3, <3>3, <4>1 DEF Closes
      <3> QED  BY <2>1, <3>1, <3>2, <3>3
    <2> QED  BY <1>7, <2>1, <2>2, <2>3
  <1> QED  BY <1>12, <1>13, <1>14, <1>15, <1>16, <1>18, <1>17, ClientDoes

\* The server does not fall behind such a client, nor leaves it halfway.
LEMMA AbreastServer ==
  ASSUME Types, Types', NEW c \in Clients, Stream(c), Course(c), Echoed(c), Abreast(c),
         ServerWith(c)
  PROVE  Abreast(c)'
  <1> DEFINE e == "server"  o == "client"
  <1>1. e \in Ends /\ o \in Ends /\ e # o
    BY TwoEnds
  <1>2. /\ pair' = pair /\ Serves(c) /\ pc[Server] \in Nat /\ rem[Server] \in Nat
        /\ pc'[c] = pc[c] /\ stat'[c] = stat[c] /\ rem'[c] = rem[c]
        /\ wr'[o][c] = wr[o][c] /\ rd'[o][c] = rd[o][c] /\ shut'[o][c] = shut[o][c]
    BY TwoEnds, ServerApart, ServerEnd DEF KeepsOthers, Types, ControlTypes
  <1>3. SUFFICES ASSUME pair.name \in InStepPairs
                 PROVE  Abreast(c)'
    BY <1>2 DEF Abreast
  <1>4. pair.name \in Echoes /\ EchoShape(pair.server) /\ ServerShape(pair.server)
    BY <1>3, EchoServersEcho, Shapes DEF Types, DataTypes, Echoes
  <1>5. /\ Gone(o, c) /\ ~Gone(e, c) => wr[o][c] <= rd[o][c]
        /\ Gone(e, c) => Gone(o, c)
        /\ ~Gone(o, c) => wr[e][c] <= rd[e][c]
        /\ pc[Server] > 3 => Gone(o, c)
        /\ pc[Server] < CloseAt(pair.server) => told[e][c] = "ok"
    BY <1>2, <1>3, ServerApart DEF Abreast
  <1>6. Gone(e, c) => shut'[e][c] = "closed"
    BY <1>1, ServerPlace DEF Gone, Keeps, SameData
  <1>7. SUFFICES /\ shut'[e][c] = "closed" => Gone(o, c)
                 /\ ~Gone(o, c) => wr'[e][c] <= rd'[e][c]
                 /\ Serves(c)' /\ pc'[Server] > 3 => Gone(o, c)
                 /\ Serves(c)' /\ pc'[Server] < CloseAt(pair.server) => told'[e][c] = "ok"
    <2>1. ~Left(c) /\ conn'[c] = "accepted"
      BY ServerApart, ServerEnd DEF Left
    <2> QED  BY <1>2, <1>3, <1>6, <1>7, <2>1 DEF Abreast, Gone, CloseAt
  <1>8. CASE pc[Server] # 3
    <2>1. Gone(o, c)
      BY <1>5, <1>8, ServerPlace
    <2>2. ASSUME Serves(c)', pc'[Server] < CloseAt(pair.server)
          PROVE  FALSE
      <3>1. pc[Server] = 4 /\ CloseAt(pair.server) = 5 /\ pair.server[4].call = "write"
        BY <1>4, <1>8, <2>2, ServerPlace DEF EchoShape
      <3>2. ServerWrites(c)
        BY <3>1 DEF ServerWith, ServerTurns, ServerWrites, ServerReads, ServerReadsAll,
          ServerReadsEof, ServerPeeks, ServerEchoes, ServerShuts, ServerCloses, ServerIn
      <3> QED  BY <2>2, <3>1, <3>2 DEF ServerWrites, Goes, Moves
    <2> QED  BY <2>1, <2>2
  <1>9. CASE pc[Server] = 3
    <2>1. /\ wr[e][c] + rem[Server] <= rd[e][c] /\ wr[e][c] \in Nat /\ rd[e][c] \in Nat
          /\ told[e][c] = "ok" /\ ~Gone(e, c)
      BY <1>1, <1>4, <1>5, <1>9, AtTheLoop, Account DEF EchoShape
    <2>2. CASE rem[Server] = 0 /\ \E k \in Nat : Gets(e, o, c, k) /\ Counts(Server, k)
      BY <1>9, <2>1, <2>2 DEF Gets, Counted, Told, Counts, Moves, Gone
    <2>3. CASE Goes(Server) /\ SeesEof(e, o, c)
      <3>1. Gone(o, c)
        BY <1>1, <2>1, <2>3, Numbers DEF Types, SeesEof, Stream, Gone
      <3> QED  BY <1>1, <2>1, <2>3, <3>1 DEF SeesEof, Keeps, SameData
    <2>4. CASE Learns(e, o, c)
      BY <2>1, <2>4 DEF Learns
    <2>5. CASE rem[Server] > 0 /\ Counts(Server, 0) /\ Puts(e, o, c, rem[Server])
      <3>1. ~Gone(o, c)
        BY <1>1, <1>2, <1>5, <2>1, <2>5, Account
      <3>2. Sends(e, o, c, rem[Server])
        BY <2>1, <2>5, <3>1 DEF Puts, SendsInVain, Learns, Gone
      <3> QED  BY <1>2, <1>9, <2>1, <2>5, <3>2 DEF Sends, Counted, Told, Counts, Moves, Gone
    <2> QED  BY <1>4, <1>9, <2>2, <2>3, <2>4, <2>5, AtTheLoop
  <1> QED  BY <1>8, <1>9

-----------------------------------------------------------------------------
(* What concerns one connection is kept by every step. *)

\* A client that is accepted starts a conversation.
LEMMA AcceptKeeps ==
  ASSUME Types, Types', Places, NEW c \in Clients, Own(c), ServerAccepts(c)
  PROVE  Own(c)'
  <1> DEFINE e == "client"  o == "server"
  <1>1. e \in Ends /\ o \in Ends /\ Server \in Procs /\ Program(Server) = pair.server
    BY TwoEnds
  <1>2. ServerShape(pair.server) /\ pair' = pair
    BY Shapes DEF Types, DataTypes, ServerAccepts, KeepsOthers
  <1>3. /\ conn[c] = "queued" /\ conn'[c] = "accepted" /\ SameData(c)
        /\ stat[Server] = "run" /\ pc[Server] = 2 /\ pc'[Server] = 3
        /\ rem'[Server] = rem[Server] /\ Serves(c)'
        /\ pc'[c] = pc[c] /\ stat'[c] = stat[c] /\ rem'[c] = rem[c]
    BY TwoEnds DEF ServerAccepts, Moves, Serves
  <1>4. /\ rd[o][c] = 0 /\ wr[o][c] = 0 /\ told[o][c] = "ok" /\ shut[o][c] = "open"
        /\ ~Serves(c)
    BY <1>3 DEF Own, Course, Serves
  <1>5. rem[Server] = 0
    <2>1. pair.server[2].call = "accept"
      BY <1>2 DEF ServerShape
    <2>2. rem[Server] \in Nat /\ ~(pair.server[pc[Server]].call \in {"readAll", "echo"})
      BY <1>1, <1>3, <2>1 DEF Types, ControlTypes
    <2>3. rem[Server] > 0 => Program(Server)[pc[Server]].call \in {"readAll", "echo"}
      BY <1>1 DEF Places, Place
    <2> QED  BY <1>1, <2>2, <2>3
  <1>6. Stream(c)' /\ Course(c)'
    <2>1. Stream(c)'
      BY <1>1, <1>2, <1>3, KeepsNet DEF Own, Stream, SameData
    <2>2. Gone(o, c)' <=> ~(Serves(c)' /\ pc'[Server] <= CloseAt(pair.server))
      BY <1>1, <1>2, <1>3, <1>4 DEF SameData, Gone, ServerShape
    <2> QED  BY <1>1, <1>2, <1>3, <2>1, <2>2 DEF Own, SameData, Course, Gone, CloseAt
  <1>7. Patience(c)'
    BY <1>1, <1>2, <1>3, <1>4 DEF Own, SameData, Patience, Answered, Gone
  <1>8. Transfer(c)'
    <2>1. pc'[Server] # Len(pair.server)
      BY <1>2, <1>3 DEF ServerShape
    <2> QED  BY <1>1, <1>2, <1>3, <2>1 DEF Own, SameData, Transfer, Gone
  <1>9. Asked(c)' /\ Echoed(c)' /\ Abreast(c)'
    BY <1>1, <1>2, <1>3, <1>4, <1>5 DEF Own, SameData, Asked, Echoed, Abreast, Left, Gone
  <1> QED  BY <1>6, <1>7, <1>8, <1>9 DEF Own

\* A server that has to stop does not leave a client in the middle of an answer it
\* counts on: it was never told of a reset.
LEMMA NotInStep ==
  ASSUME Types, NEW c \in Clients, Own(c), ServerQuits, pair.name \in InStepPairs,
         conn[c] = "accepted", ~Gone("server", c)
  PROVE  FALSE
  <1>1. Serves(c) /\ pc[Server] <= CloseAt(pair.server) /\ pc[Server] > 2 /\ cur = c
    BY DEF Own, Course, Serves
  <1>2. EchoShape(pair.server) /\ ServerShape(pair.server)
    BY EchoServersEcho, Shapes DEF Types, DataTypes, Echoes
  <1>3. pc[Server] < CloseAt(pair.server) => told["server"][c] = "ok"
    BY <1>1 DEF Own, Abreast
  <1>4. ASSUME NEW d \in Clients, NEW name \in {"write", "echo"}, ServerIn(d, name),
               told["server"][d] = "dead"
        PROVE  FALSE
    <2>1. d = c /\ pc[Server] \in 3..Len(pair.server) /\ pair.server[pc[Server]].call = name
      BY <1>1, <1>4 DEF ServerIn, Serves
    <2>2. pc[Server] < CloseAt(pair.server)
      BY <1>1, <1>2, <2>1 DEF ServerShape
    <2> QED  BY <1>3, <1>4, <2>1, <2>2
  <1>5. ~\E d \in Clients : \E name \in {"operator", "read", "readEof"} : ServerIn(d, name)
    BY <1>2 DEF EchoShape, ServerShape, ServerIn
  <1>6. pc[Server] # 1 /\ ~(pc[Server] > Len(pair.server))
    <2>1. /\ pc[Server] \in Nat /\ Len(pair.server) \in Nat /\ CloseAt(pair.server) \in Nat
          /\ CloseAt(pair.server) <= Len(pair.server)
      BY <1>2, TwoEnds DEF ServerShape, Types, ControlTypes
    <2> QED  BY <1>1, <2>1
  <1> QED  BY <1>4, <1>5, <1>6 DEF ServerQuits

\* A server that ends closes what it has.
LEMMA QuitKeeps ==
  ASSUME Types, Types', Places, NEW c \in Clients, Own(c), ServerQuits
  PROVE  Own(c)'
  <1> DEFINE e == "client"  o == "server"
  <1>1. /\ e \in Ends /\ o \in Ends /\ e # o /\ \A x \in Ends : x = e \/ x = o
    BY TwoEnds
  <1>2. /\ stat[Server] = "run" /\ stat'[Server] # "run" /\ pair' = pair /\ ~(Serves(c)')
        /\ pc'[c] = pc[c] /\ stat'[c] = stat[c] /\ rem'[c] = rem[c]
    BY TwoEnds DEF ServerQuits, Moves, Serves
  <1>3. CASE ~(conn[c] = "queued" \/ (conn[c] = "accepted" /\ c = cur))
    <2>1. Keeps(c)
      BY <1>3 DEF ServerQuits
    <2>2. ~Serves(c)
      BY <1>3 DEF Places, Place, Serves
    <2> QED  BY <1>2, <2>1, <2>2, FrameElsewhere DEF Untouched, Elsewhere
  <1>4. CASE conn[c] = "queued" \/ (conn[c] = "accepted" /\ c = cur)
    <2>1. Closes(o, e, c)
      BY <1>4 DEF ServerQuits
    <2>2. /\ conn'[c] = conn[c] /\ shut'[o][c] = "closed" /\ shut'[e][c] = shut[e][c]
          /\ told'[o][c] = told[o][c]
          /\ wr'[e][c] = wr[e][c] /\ wr'[o][c] = wr[o][c]
          /\ rd'[e][c] = rd[e][c] /\ rd'[o][c] = rd[o][c]
      BY <1>1, <2>1, Numbers DEF Closes, Types
    <2>3. Stream(c)'
      <3>1. Net(c)'
        BY <1>1, <1>2, <2>1, ClosesNet DEF Types, Own, Stream
      <3> QED  BY <1>2, <2>2, <3>1 DEF Own, Stream
    <2>4. Course(c)'
      BY <1>2, <1>4, <2>2 DEF Own, Course, Gone
    <2>5. Patience(c)'
      BY <1>2, <2>2 DEF Own, Patience, Answered, Gone
    <2>6. Transfer(c)'
      BY <1>2, <2>2 DEF Own, Transfer, Gone
    <2>7. Asked(c)' /\ Echoed(c)'
      BY <1>2, <2>2 DEF Own, Asked, Echoed
    <2>8. Abreast(c)'
      <3>1. pair.name \in InStepPairs /\ ~Gone(e, c) => conn[c] # "accepted"
        BY NotInStep DEF Own, Abreast
      <3>2. ~(Left(c)') => ~Left(c)
        BY <1>2, <2>2 DEF Left, Gone
      <3> QED  BY <1>2, <2>2, <3>1, <3>2 DEF Own, Abreast, Gone
    <2> QED  BY <2>3, <2>4, <2>5, <2>6, <2>7, <2>8 DEF Own
  <1> QED  BY <1>3, <1>4

\* What concerns a client is kept by the steps of all.
LEMMA OwnKept ==
  ASSUME Types, Types', Places, \A d \in Clients : Own(d), Next, NEW c \in Clients
  PROVE  Own(c)'
  <1>1. ASSUME NEW d \in Clients, ClientStep(d) \/ Prompt(d)
        PROVE  Own(c)'
    <2>1. Own(c) /\ Own(d)
      OBVIOUS
    <2>2. CASE c = d
      BY <1>1, <2>1, <2>2, StreamClient, CourseClient, PatienceClient, TransferClient,
         AskedClient, EchoedClient, AbreastClient DEF Own
    <2>3. CASE c # d
      <3>1. SameServer /\ Untouched(c)
        BY <1>1, <2>1, <2>3, ClientApart DEF Own
      <3> QED  BY <2>1, <3>1, FrameSame
    <2> QED  BY <2>2, <2>3
  <1>2. ASSUME NEW d \in Clients, ServerWith(d)
        PROVE  Own(c)'
    <2>1. Own(c) /\ Own(d)
      OBVIOUS
    <2>2. CASE c = d
      BY <1>2, <2>1, <2>2, StreamServer, CourseServer, PatienceServer, TransferServer,
         AskedServer, EchoedServer, AbreastServer DEF Own
    <2>3. CASE c # d
      <3>1. Untouched(c) /\ Elsewhere(c)
        BY <1>2, <2>3, ServerApart
      <3> QED  BY <2>1, <3>1, FrameElsewhere
    <2> QED  BY <2>2, <2>3
  <1>3. ASSUME NEW d \in Clients, ServerAccepts(d)
        PROVE  Own(c)'
    <2>1. Own(c) /\ Own(d)
      OBVIOUS
    <2>2. CASE c = d
      BY <1>3, <2>1, <2>2, AcceptKeeps
    <2>3. CASE c # d
      <3>1. Untouched(c) /\ Elsewhere(c)
        BY <1>3, <2>3, TwoEnds DEF ServerAccepts, KeepsOthers, Moves, Untouched, Elsewhere, Serves
      <3> QED  BY <2>1, <3>1, FrameElsewhere
    <2> QED  BY <2>2, <2>3
  <1>4. ASSUME ServerListens
        PROVE  Own(c)'
    <2>1. Untouched(c) /\ Elsewhere(c)
      BY <1>4, TwoEnds DEF ServerListens, Moves, Untouched, Elsewhere, Serves
    <2> QED  BY <2>1, FrameElsewhere
  <1>5. ASSUME ServerQuits
        PROVE  Own(c)'
    BY <1>5, QuitKeeps
  <1> QED  BY <1>1, <1>2, <1>3, <1>4, <1>5, ServerDoes DEF Next, ServerWith

-----------------------------------------------------------------------------
(* Places is kept. *)

\* Who loops until a count is reached.
LEMMA WhoCounts ==
  ASSUME NEW q \in Pairs
  PROVE  /\ (\E k \in 2..Len(q.client) : q.client[k].call = "readAll") => q.name \in InStepPairs
         /\ (\E k \in 3..Len(q.server) : q.server[k].call = "readAll") => q.name = "op"
  <1>1. /\ (\E k \in 2..Len(q.client) : q.client[k].call = "readAll") => ~Without(q.client, "readAll")
        /\ (\E k \in 3..Len(q.server) : q.server[k].call = "readAll") => ~Without(q.server, "readAll")
    <2>1. Len(q.server) \in Nat
      BY Shapes DEF ServerShape
    <2> QED  BY <2>1 DEF Without
  <1> QED  BY <1>1, ServersWithout, ClientsWithout DEF Pairs, Talk, InStepPairs

\* A client that gives up its count has read nothing yet.
LEMMA GivesUpAtOnce ==
  ASSUME Types, Places, NEW c \in Clients, Own(c), ClientIn(c, "readAll"),
         told["client"][c] = "reset", flow["server"][c] = 0
  PROVE  rem[c] = 0
  <1> DEFINE e == "client"  o == "server"
  <1>1. e \in Ends /\ o \in Ends /\ e # o /\ c \in Procs
    BY TwoEnds
  <1>2. pair.name \in InStepPairs
    BY WhoCounts DEF ClientIn, Types, DataTypes
  <1>3. Gone(o, c) /\ ~Gone(e, c)
    <2>1. stat[c] = "run" /\ pc[c] <= Len(pair.client) /\ pc[c] \in Nat /\ Len(pair.client) \in Nat
      BY <1>1, Shapes DEF ClientIn, Types, ControlTypes, DataTypes, ClientShape
    <2>2. Gone(o, c)
      BY <1>1 DEF Own, Stream, Net, Gone
    <2> QED  BY <2>1, <2>2 DEF Own, Course
  <1>4. wr[o][c] = 0
    BY <1>2, <1>3 DEF Own, Abreast, Course
  <1>5. flow[o][c] + rd[e][c] <= wr[o][c] /\ rem[c] <= rd[e][c]
    BY Account DEF Own, Stream
  <1>6. rd[e][c] \in Nat /\ flow[o][c] \in Nat /\ rem[c] \in Nat
    BY <1>1, Numbers DEF Types, ControlTypes
  <1> QED  BY <1>4, <1>5, <1>6

\* A client stays within its program, and counts only where it loops.
LEMMA PlaceClient ==
  ASSUME Types, Types', Places, NEW c \in Clients, Own(c), ClientStep(c) \/ Prompt(c)
  PROVE  Place(c)'
  <1> DEFINE t == pair.client
  <1>1. /\ c \in Procs /\ pair' = pair /\ Program(c) = t /\ Program(c)' = t
        /\ ClientShape(t) /\ Len(t) \in Nat
        /\ pc[c] \in Nat /\ rem[c] \in Nat /\ Place(c)
    <2>1. pair' = pair
      BY ClientApart DEF Own
    <2> QED  BY <2>1, TwoEnds, Shapes DEF Types, ControlTypes, DataTypes, Program, ClientShape,
               Places
  <1>2. \/ ClientConnects(c) \/ ClientPrompts(c) \/ ClientWrites(c) \/ ClientSkips(c)
        \/ ClientReads(c) \/ ClientReadsAll(c) \/ ClientReadsEof(c) \/ ClientCloses(c) \/ ClientQuits(c)
    BY ClientDoes DEF Own
  <1>3. ASSUME NEW name, ClientIn(c, name)
        PROVE  /\ pc[c] \in 2..Len(t) /\ t[pc[c]].call = name /\ pc[c] + 1 \in 1..Len(t) + 1
               /\ (name # "readAll" /\ name # "echo" => rem[c] = 0)
    <2>1. pc[c] \in 2..Len(t) /\ t[pc[c]].call = name
      BY <1>3 DEF ClientIn
    <2>2. pc[c] + 1 \in 1..Len(t) + 1
      BY <1>1, <2>1
    <2> QED  BY <1>1, <2>1, <2>2 DEF Place
  <1>4. CASE Goes(c) /\ pc[c] + 1 \in 1..Len(t) + 1
    BY <1>1, <1>4, RequestIsSix DEF Goes, Moves, Place
  <1>5. CASE ClientConnects(c)
    <2>1. pc[c] + 1 \in 1..Len(t) + 1 /\ Goes(c)
      BY <1>1, <1>5 DEF ClientConnects, ClientShape
    <2> QED  BY <1>4, <2>1
  <1>6. CASE ClientPrompts(c)
    <2>1. ClientIn(c, "prompt") /\ pc[c] + 1 <= Len(t)
      BY <1>6 DEF ClientPrompts
    <2>2. rem'[c] = 0 /\ pc'[c] \in {pc[c] + 1, Len(t)}
      BY <1>3, <1>6, <2>1 DEF ClientPrompts, Moves
    <2>3. pc'[c] \in 1..Len(t) + 1
      BY <1>1, <2>1, <2>2
    <2> QED  BY <1>1, <2>2, <2>3, RequestIsSix DEF Place
  <1>7. CASE ClientWrites(c) \/ ClientReads(c) \/ ClientCloses(c)
    <2>1. Goes(c) /\ \E name : ClientIn(c, name)
      BY <1>7 DEF ClientWrites, ClientReads, ClientCloses
    <2> QED  BY <1>3, <1>4, <2>1
  <1>8. CASE ClientReadsAll(c)
    <2>1. ClientIn(c, "readAll") /\ t[pc[c]].size \in 0..Request
      BY <1>8 DEF ClientReadsAll
    <2>2. Goes(c) \/ \E r \in 0..Request : Counts(c, r)
      <3>1. \A k \in Nat : rem[c] + k < t[pc[c]].size => rem[c] + k \in 0..Request
        BY <1>1, <2>1, CountFits
      <3>2. 0..rem[c] \subseteq 0..Request
        BY <1>1, RequestIsSix DEF Place
      <3> QED  BY <1>8, <3>1, <3>2 DEF ClientReadsAll
    <2>3. ASSUME NEW r \in 0..Request, Counts(c, r)
          PROVE  Place(c)'
      <3>1. rem'[c] <= Request /\ pc'[c] = pc[c] /\ stat'[c] = "run"
        BY <2>1, <2>3, RequestIsSix DEF Counts, Moves, ClientIn
      <3>2. pc[c] \in 2..Len(t) /\ t[pc[c]].call = "readAll"
        BY <2>1 DEF ClientIn
      <3>3. pc'[c] \in 1..Len(t) + 1 /\ pc'[c] <= Len(t)
        BY <1>1, <3>1, <3>2
      <3> QED  BY <1>1, <3>1, <3>2, <3>3 DEF Place
    <2> QED  BY <1>3, <1>4, <2>1, <2>2, <2>3
  <1>9. CASE ClientReadsEof(c)
    <2>1. ClientIn(c, "readEof") /\ (Goes(c) \/ Counts(c, rem[c]))
      BY <1>9 DEF ClientReadsEof
    <2>2. CASE Counts(c, rem[c])
      <3>1. rem'[c] = 0 /\ pc'[c] = pc[c]
        BY <1>3, <2>1, <2>2 DEF Counts, Moves
      <3> QED  BY <1>1, <3>1, RequestIsSix DEF Place
    <2> QED  BY <1>3, <1>4, <2>1, <2>2
  <1>10. CASE ClientQuits(c)
    <2>1. pc'[c] = pc[c] /\ rem'[c] = rem[c]
      BY <1>10 DEF ClientQuits, Moves
    <2>2. rem[c] = 0
      <3>1. CASE pc[c] = 1
        <4>1. t[1].call = "connect"
          BY <1>1 DEF ClientShape
        <4> QED  BY <1>1, <3>1, <4>1 DEF Place
      <3>2. CASE pc[c] > Len(t)
        BY <1>1, <3>2 DEF Place
      <3>3. CASE ClientIn(c, "write") \/ ClientIn(c, "read") \/ ClientIn(c, "readEof")
        BY <1>3, <3>3
      <3>4. CASE ClientIn(c, "readAll") /\ told["client"][c] = "reset" /\ flow["server"][c] = 0
        BY <3>4, GivesUpAtOnce
      <3> QED  BY <1>10, <3>1, <3>2, <3>3, <3>4 DEF ClientQuits
    <2> QED  BY <1>1, <2>1, <2>2, RequestIsSix DEF Place
  <1>11. CASE ClientSkips(c)
    <2>1. /\ rem'[c] = 0 /\ pc'[c] = pc[c] + 2 /\ pc[c] + 2 <= Len(t)
      BY <1>11 DEF ClientSkips, Moves
    <2> QED  BY <1>1, <2>1, RequestIsSix DEF Place
  <1> QED  BY <1>2, <1>5, <1>6, <1>7, <1>8, <1>9, <1>10, <1>11

\* The calculating server cannot be reset before it has answered.
LEMMA NeverGivesUp ==
  ASSUME Types, NEW c \in Clients, Own(c), ServerIn(c, "readAll")
  PROVE  told["server"][c] = "ok"
  <1>1. pair.name = "op"
    BY WhoCounts DEF ServerIn, Types, DataTypes
  <1>2. pc[Server] <= Answers(pair.name) /\ Serves(c)
    BY <1>1, Patients DEF ServerIn, PatientShape, PatientPrograms, Askers, Listeners,
       TransferPairs, Types, DataTypes
  <1>3. ~Gone("client", c)
    BY <1>1, <1>2 DEF Own, Patience, Askers
  <1> QED  BY <1>3, TwoEnds DEF Own, Stream, Net, Gone

\* So does the server.
LEMMA PlaceServer ==
  ASSUME Types, Types', Places, \A c \in Clients : Own(c), ServerStep
  PROVE  Place(Server)'
  <1> DEFINE s == pair.server
  <1>1. /\ Server \in Procs /\ pair' = pair /\ Program(Server) = s /\ Program(Server)' = s
        /\ ServerShape(s) /\ Len(s) \in Nat
        /\ pc[Server] \in Nat /\ rem[Server] \in Nat /\ Place(Server)
    <2>1. pair' = pair
      BY ServerDoes, ServerApart DEF ServerWith, ServerListens, ServerAccepts, ServerQuits,
        KeepsOthers
    <2> QED  BY <2>1, TwoEnds, Shapes DEF Types, ControlTypes, DataTypes, Program, ServerShape,
               Places
  <1>2. ASSUME NEW c \in Clients, NEW name, ServerIn(c, name)
        PROVE  /\ pc[Server] \in 3..Len(s) /\ s[pc[Server]].call = name
               /\ pc[Server] + 1 \in 1..Len(s) + 1
               /\ (name # "readAll" /\ name # "echo" => rem[Server] = 0)
    <2>1. pc[Server] \in 3..Len(s) /\ s[pc[Server]].call = name
      BY <1>2 DEF ServerIn
    <2>2. pc[Server] + 1 \in 1..Len(s) + 1
      BY <1>1, <2>1
    <2> QED  BY <1>1, <2>1, <2>2 DEF Place
  <1>3. ASSUME NEW i \in 1..Len(s) + 1, pc'[Server] = i, rem'[Server] = 0
        PROVE  Place(Server)'
    BY <1>1, <1>3, RequestIsSix DEF Place
  <1>4. CASE ServerListens
    <2>1. rem[Server] = 0
      <3>1. s[1].call = "listen"
        BY <1>1 DEF ServerShape
      <3> QED  BY <1>1, <1>4, <3>1 DEF ServerListens, Place
    <2>2. 2 \in 1..Len(s) + 1
      BY <1>1 DEF ServerShape
    <2> QED  BY <1>3, <1>4, <2>1, <2>2 DEF ServerListens, Moves
  <1>5. CASE ServerQuits
    <2>1. pc'[Server] = pc[Server] /\ rem'[Server] = rem[Server]
      BY <1>5 DEF ServerQuits, Moves
    <2>2. rem[Server] = 0 \/ stat'[Server] = "killed"
      <3>1. CASE pc[Server] = 1
        <4>1. s[1].call = "listen"
          BY <1>1 DEF ServerShape
        <4> QED  BY <1>1, <3>1, <4>1 DEF Place
      <3>2. CASE pc[Server] > Len(s)
        BY <1>1, <3>2 DEF Place
      <3>3. CASE \E c \in Clients : ServerIn(c, "operator")
        BY <1>2, <3>3
      <3>4. CASE \E c \in Clients : ServerIn(c, "read") \/ ServerIn(c, "readEof")
        BY <1>2, <3>4
      <3> QED  BY <1>5, <3>1, <3>2, <3>3, <3>4 DEF ServerQuits, Moves
    <2> QED  BY <1>1, <2>1, <2>2, RequestIsSix DEF Place
  <1>6. ASSUME NEW c \in Clients, ServerAccepts(c)
        PROVE  Place(Server)'
    <2>1. rem[Server] = 0
      <3>1. s[2].call = "accept"
        BY <1>1 DEF ServerShape
      <3> QED  BY <1>1, <1>6, <3>1 DEF ServerAccepts, Place
    <2>2. 3 \in 1..Len(s) + 1
      BY <1>1 DEF ServerShape
    <2> QED  BY <1>3, <1>6, <2>1, <2>2 DEF ServerAccepts, Moves
  <1>7. ASSUME NEW c \in Clients, ServerTurns(c)
        PROVE  Place(Server)'
    <2>1. rem'[Server] = 0 /\ pc'[Server] \in {2, pc[Server] + 1} /\ pc[Server] + 1 \in 1..Len(s) + 1
      BY <1>2, <1>7 DEF ServerTurns, Moves
    <2>2. 2 \in 1..Len(s) + 1
      BY <1>1 DEF ServerShape
    <2> QED  BY <1>3, <2>1, <2>2
  <1>8. ASSUME NEW c \in Clients, NEW name, ServerIn(c, name), Goes(Server)
        PROVE  Place(Server)'
    BY <1>2, <1>3, <1>8 DEF Goes, Moves
  <1>9. ASSUME NEW c \in Clients, \/ ServerWrites(c) \/ ServerReads(c) \/ ServerPeeks(c)
                                  \/ ServerShuts(c) \/ ServerCloses(c)
        PROVE  Place(Server)'
    <2>1. Goes(Server) /\ \E name : ServerIn(c, name)
      BY <1>9 DEF ServerWrites, ServerReads, ServerPeeks, ServerShuts, ServerCloses
    <2> QED  BY <1>8, <2>1
  <1>10. ASSUME NEW c \in Clients, NEW name \in {"readAll", "echo"}, NEW r \in 0..Request,
                ServerIn(c, name), Counts(Server, r)
         PROVE  Place(Server)'
    <2>1. r <= Request /\ pc'[Server] = pc[Server] /\ stat'[Server] = "run" /\ rem'[Server] = r
      BY <1>10, RequestIsSix DEF Counts, Moves, ServerIn, Serves
    <2> QED  BY <1>1, <1>2, <1>10, <2>1 DEF Place
  <1>11. ASSUME NEW c \in Clients, ServerReadsAll(c)
         PROVE  Place(Server)'
    <2>1. ServerIn(c, "readAll") /\ s[pc[Server]].size \in 0..Request
      BY <1>11 DEF ServerReadsAll
    <2>2. Goes(Server) \/ \E r \in 0..Request : Counts(Server, r)
      <3>1. \A k \in Nat : rem[Server] + k < s[pc[Server]].size => rem[Server] + k \in 0..Request
        BY <1>1, <2>1, CountFits
      <3>2. 0..rem[Server] \subseteq 0..Request
        BY <1>1, RequestIsSix DEF Place
      <3> QED  BY <1>11, <3>1, <3>2 DEF ServerReadsAll
    <2> QED  BY <1>8, <1>10, <2>1, <2>2
  <1>12. ASSUME NEW c \in Clients, ServerReadsEof(c)
         PROVE  Place(Server)'
    <2>1. ServerIn(c, "readEof") /\ (Goes(Server) \/ Counts(Server, rem[Server]))
      BY <1>12 DEF ServerReadsEof
    <2>2. CASE Counts(Server, rem[Server])
      <3>1. rem'[Server] = 0 /\ pc'[Server] = pc[Server]
        BY <1>2, <2>1, <2>2 DEF Counts, Moves
      <3> QED  BY <1>1, <1>3, <3>1 DEF Place
    <2> QED  BY <1>8, <2>1, <2>2
  <1>13. ASSUME NEW c \in Clients, ServerEchoes(c)
         PROVE  Place(Server)'
    <2>1. ServerIn(c, "echo") /\ s[pc[Server]].size \in 0..Request
      BY <1>13 DEF ServerEchoes
    <2>2. \/ Goes(Server)
          \/ \E k \in 1..s[pc[Server]].size : Counts(Server, k)
          \/ Counts(Server, 0)
      BY <1>13 DEF ServerEchoes
    <2>3. 1..s[pc[Server]].size \subseteq 0..Request /\ 0 \in 0..Request
      BY <2>1, RequestIsSix
    <2> QED  BY <1>8, <1>10, <2>1, <2>2, <2>3
  <1> QED  BY <1>4, <1>5, <1>6, <1>7, <1>9, <1>11, <1>12, <1>13, ServerDoes

\* Every step leaves the processes where they can be.
LEMMA PlacesKept ==
  ASSUME Types, Types', Places, \A c \in Clients : Own(c), Next
  PROVE  Places'
  <1>1. ASSUME NEW c \in Clients, ClientStep(c) \/ Prompt(c)
        PROVE  Places'
    <2>1. c \in Procs /\ c # Server /\ Own(c)
      BY TwoEnds
    <2>2. /\ pair' = pair /\ SameServer /\ turn' = turn /\ listening' = listening
          /\ \A d \in Clients \ {c} : Keeps(d)
          /\ \A q \in Procs \ {c} : pc'[q] = pc[q] /\ stat'[q] = stat[q] /\ rem'[q] = rem[q]
      BY <1>1, <2>1, ClientApart DEF Own, Untouched
    <2>3. \A q \in Procs : Place(q)'
      <3>1. Place(c)'
        BY <1>1, <2>1, PlaceClient
      <3>2. ASSUME NEW q \in Procs \ {c}
            PROVE  Place(q)'
        BY <2>2 DEF Places, Place, Program
      <3> QED  BY <3>1, <3>2
    <2>4. conn[c] = "accepted" => conn'[c] = "accepted"
      BY <1>1, <2>1, ClientEnd DEF Own, ClientConnects
    <2> QED  BY <2>1, <2>2, <2>3, <2>4 DEF Places, SameServer, Keeps
  <1>2. ASSUME ServerStep
        PROVE  Places'
    <2>1. \A q \in Procs : Place(q)'
      <3>1. Place(Server)'
        BY <1>2, PlaceServer
      <3>2. ASSUME NEW c \in Clients
            PROVE  Place(c)'
        <4>1. pair' = pair /\ pc'[c] = pc[c] /\ stat'[c] = stat[c] /\ rem'[c] = rem[c]
          BY <1>2, TwoEnds, ServerDoes, ServerApart DEF ServerWith, ServerListens, ServerAccepts,
            ServerQuits, KeepsOthers, Moves
        <4> QED  BY <4>1, TwoEnds DEF Places, Place, Program
      <3> QED  BY <3>1, <3>2 DEF Procs
    <2>2. turn \in Nat /\ Turns \in Nat /\ pc[Server] \in Nat /\ Server \notin Clients
      BY TwoEnds DEF Types, ControlTypes
    <2>3. CASE ServerListens
      BY <2>1, <2>2, <2>3 DEF Places, ServerListens, Moves, Keeps
    <2>4. CASE ServerQuits
      <3>1. \A d \in Clients : conn'[d] = conn[d]
        BY <2>4 DEF ServerQuits, Keeps, Closes
      <3>2. /\ stat'[Server] # "run" /\ pc'[Server] = pc[Server] /\ turn' = turn /\ cur' = cur
            /\ listening' = FALSE
        BY <2>4 DEF ServerQuits, Moves
      <3> QED  BY <2>1, <3>1, <3>2 DEF Places
    <2>5. ASSUME NEW c \in Clients, ServerAccepts(c)
          PROVE  Places'
      BY <2>1, <2>2, <2>5 DEF Places, ServerAccepts, Moves
    <2>6. ASSUME NEW c \in Clients, ServerWith(c)
          PROVE  Places'
      <3>1. /\ conn'[c] = "accepted" /\ cur' = c /\ turn' = turn /\ listening' = listening
            /\ stat[Server] = "run" /\ stat'[Server] = "run"
        BY <2>6, ServerApart, ServerEnd DEF Idles, Serves
      <3>2. pc'[Server] = 2 => turn > 0
        BY <2>2, <2>6, ServerPlace DEF Own
      <3>3. pc'[Server] >= 2
        BY <2>2, <2>6, ServerPlace DEF Own
      <3>4. pc'[Server] \in Nat
        BY TwoEnds DEF Types, ControlTypes
      <3> QED  BY <2>1, <2>6, <3>1, <3>2, <3>3, <3>4 DEF Places
    <2> QED  BY <1>2, <2>3, <2>4, <2>5, <2>6, ServerDoes DEF ServerWith
  <1> QED  BY <1>1, <1>2 DEF Next

-----------------------------------------------------------------------------
(* Death is kept: who writes to a client that has reset. *)

\* Who writes to a client that may have reset.
LEMMA WhoSpeaks ==
  ASSUME NEW q \in Pairs
  PROVE  /\ q.win \/ q.name \in InStepPairs \cup Listeners \cup Askers \cup {"echo", "peek"}
         /\ q.name = "echo" => /\ q.server[3].call = "echo" /\ CloseAt(q.server) = 4
         /\ q.name = "peek" => \A k \in 3..Len(q.server) : q.server[k].call \notin {"write", "echo"}
  <1>1. /\ q.win \/ q.name \in InStepPairs \cup Listeners \cup Askers \cup {"echo", "peek"}
        /\ q.name = "echo" => q.server = echo_server
        /\ q.name = "peek" => q.server = peek_recv
    BY DEF Pairs, Talk, InStepPairs, Listeners, TransferPairs, Askers
  <1>2. echo_server[3].call = "echo" /\ CloseAt(echo_server) = 4
    BY DEF echo_server, CloseAt, Call, Listening, Accepting, Echoing, Closing, Again
  <1>3. \A k \in 3..Len(peek_recv) : peek_recv[k].call \notin {"write", "echo"}
    BY DEF peek_recv, Call, Listening, Accepting, Peeking, Reading, Closing
  <1> QED  BY <1>1, <1>2, <1>3

\* A server is killed only in its echo loop, on the way to a client that closed without
\* having read all of an answer.
LEMMA KilledInTheLoop ==
  ASSUME Types, Places, NEW c \in Clients, Own(c), ServerQuits, told["server"][c] = "dead",
         ServerIn(c, "write") \/ (ServerIn(c, "echo") /\ rem[Server] > 0)
  PROVE  pair.name = "echo" /\ Gone("client", c) /\ rd["client"][c] < wr["client"][c]
  <1> DEFINE s == pair.server
  <1>1. /\ "client" \in Ends /\ "server" \in Ends /\ Server \in Procs
        /\ ServerShape(s) /\ pair \in Pairs
    BY TwoEnds, Shapes DEF Types, DataTypes
  <1>2. /\ Serves(c) /\ conn[c] = "accepted" /\ pc[Server] \in 3..Len(s)
        /\ s[pc[Server]].call \in {"write", "echo"}
        /\ s[pc[Server]].call = "echo" => rem[Server] > 0
    BY DEF ServerIn
  <1>3. pc[Server] < CloseAt(s) /\ ~Gone("server", c)
    <2>1. pc[Server] < CloseAt(s)
      BY <1>1, <1>2 DEF ServerShape
    <2>2. pc[Server] <= CloseAt(s)
      BY <1>1, <1>2, <2>1 DEF ServerShape
    <2> QED  BY <1>2, <2>1, <2>2 DEF Own, Course
  <1>4. Gone("client", c) /\ ~pair.win
    BY <1>1 DEF Own, Stream, Net, Gone
  <1>5. pair.name \notin InStepPairs
    BY <1>2, <1>3, NotInStep
  <1>6. pair.name \notin Listeners \cup Askers
    <2>1. SUFFICES ASSUME pair.name \in Listeners \cup Askers
                   PROVE  FALSE
      OBVIOUS
    <2>2. PatientShape(pair)
      BY <1>1, <2>1, Patients
    <2>3. pc[Server] <= Answers(pair.name)
      <3>1. pc[Server] \in Nat /\ Answers(pair.name) \in Nat
        BY <1>1 DEF Types, ControlTypes, Answers
      <3> QED  BY <1>2, <2>2, <3>1 DEF PatientShape, PatientPrograms
    <2> QED  BY <1>2, <1>4, <2>1, <2>3 DEF Own, Patience
  <1>7. pair.name = "echo"
    BY <1>1, <1>2, <1>4, <1>5, <1>6, WhoSpeaks
  <1>8. pc[Server] = 3
    BY <1>1, <1>2, <1>3, <1>7, WhoSpeaks
  <1>9. wr["server"][c] + rem[Server] <= rd["server"][c] /\ rem[Server] > 0
    BY <1>1, <1>2, <1>7, <1>8, WhoSpeaks DEF Own, Echoed, Echoes
  <1>10. rd["client"][c] < wr["client"][c]
    <2>1. /\ rem[Server] \in Nat
          /\ \A e \in Ends : flow[e][c] \in Nat /\ wr[e][c] \in Nat /\ rd[e][c] \in Nat
          /\ flow["server"][c] + rd["client"][c] <= wr["server"][c]
          /\ flow["client"][c] + rd["server"][c] <= wr["client"][c]
      BY <1>1, Account DEF Own, Types, ControlTypes
    <2> QED  BY <1>1, <1>9, <2>1
  <1> QED  BY <1>4, <1>7, <1>10

\* The reason of a death holds from then on.
LEMMA DeathKept ==
  ASSUME Types, Places, Death, \A c \in Clients : Own(c), Next
  PROVE  Death'
  <1>1. "client" \in Ends /\ "server" \in Ends
    BY TwoEnds
  <1>2. ASSUME NEW c \in Clients, ClientStep(c) \/ Prompt(c), stat'[Server] = "killed"
        PROVE  Death'
    <2>1. /\ Own(c) /\ pair' = pair /\ SameServer /\ stat[c] = "run"
          /\ \A d \in Clients \ {c} : Keeps(d)
      BY <1>2, ClientApart DEF Own, Untouched
    <2>2. /\ pair.name = "echo" /\ cur \in Clients /\ Gone("client", cur)
          /\ rd["client"][cur] < wr["client"][cur] /\ cur' = cur
      BY <1>2, <2>1 DEF Death, SameServer
    <2>3. CASE cur # c
      BY <1>1, <2>1, <2>2, <2>3 DEF Death, Keeps, SameData, Gone
    <2>4. CASE cur = c
      <3>1. pc[c] > Len(pair.client) /\ Len(pair.client) \in Nat /\ Len(pair.client) > 1
            /\ pc[c] \in Nat
        BY <2>1, <2>2, <2>4, TwoEnds, Shapes DEF Own, Course, Types, ControlTypes, DataTypes,
          ClientShape
      <3>2. pc[c] # 1 /\ \A name : ~ClientIn(c, name)
        BY <3>1 DEF ClientIn
      <3>3. ClientQuits(c)
        BY <1>2, <2>1, <3>2, ClientDoes DEF Own, ClientConnects, ClientPrompts, ClientWrites,
          ClientSkips, ClientReads, ClientReadsAll, ClientReadsEof, ClientCloses
      <3>4. Closes("client", "server", c)
        BY <3>2, <3>3 DEF ClientQuits
      <3> QED  BY <1>1, <2>1, <2>2, <2>4, <3>4 DEF Death, Closes, Gone
    <2> QED  BY <2>3, <2>4
  <1>3. ASSUME ServerStep, stat'[Server] = "killed"
        PROVE  Death'
    <2>1. ServerQuits
      BY <1>3, ServerDoes, ServerApart DEF ServerWith, ServerListens, ServerAccepts, Moves
    <2>2. PICK c \in Clients :
            /\ ServerIn(c, "write") \/ (ServerIn(c, "echo") /\ rem[Server] > 0)
            /\ told["server"][c] = "dead"
      BY <1>3, <2>1 DEF ServerQuits, Moves
    <2>3. pair.name = "echo" /\ Gone("client", c) /\ rd["client"][c] < wr["client"][c]
      BY <2>1, <2>2, KilledInTheLoop
    <2>4. cur = c /\ cur' = c /\ pair' = pair /\ conn[c] = "accepted"
      BY <2>1, <2>2 DEF ServerQuits, ServerIn, Serves
    <2>5. Closes("server", "client", c)
      BY <2>1, <2>4 DEF ServerQuits
    <2> QED  BY <1>1, <2>3, <2>4, <2>5 DEF Death, Closes, Gone
  <1>4. stat'[Server] # "killed" => Death'
    BY DEF Death
  <1> QED  BY <1>2, <1>3, <1>4 DEF Next

-----------------------------------------------------------------------------
(* The invariant is inductive. *)

\* The invariant holds at first.
LEMMA InitHolds ==
  ASSUME Init
  PROVE  IInv
  <1>1. /\ Ends = {"server", "client"} /\ Server \in Procs /\ Server \notin Clients
        /\ Clients \subseteq Procs /\ Turns \in Nat \ {0}
    BY TwoEnds
  <1>2. /\ \A p \in Procs : pc[p] = 1 /\ stat[p] = "run" /\ rem[p] = 0
        /\ \A c \in Clients : conn[c] = "none"
        /\ \A e \in Ends, c \in Clients :
             /\ flow[e][c] = 0 /\ shut[e][c] = "open" /\ told[e][c] = "ok"
             /\ wr[e][c] = 0 /\ rd[e][c] = 0
        /\ turn \in 1..Turns /\ cur = Server /\ listening = FALSE /\ pair \in Pairs
    BY DEF Init, Both
  <1>3. ServerShape(pair.server) /\ ClientShape(pair.client)
    BY <1>2, Shapes
  <1>4. Types
    <2>1. 1..Turns \subseteq Nat
      BY <1>1
    <2> QED  BY <1>1, <2>1 DEF Init, Both, Types, ControlTypes, DataTypes
  <1>5. Places
    <2>1. \A p \in Procs : Len(Program(p)) \in Nat
      BY <1>3 DEF Program, ServerShape, ClientShape
    <2>2. \A p \in Procs : Place(p)
      BY <1>2, <2>1, RequestIsSix DEF Place
    <2> QED  BY <1>1, <1>2, <2>2 DEF Places
  <1>6. Death
    BY <1>1, <1>2 DEF Death
  <1>7. ASSUME NEW c \in Clients
        PROVE  Own(c)
    <2>1. ~Serves(c) /\ pc[c] = 1 /\ stat[c] = "run" /\ rem[c] = 0
      BY <1>1, <1>2 DEF Serves
    <2>2. Stream(c)
      BY <1>1, <1>2, <2>1 DEF Stream, Net
    <2>3. Course(c)
      BY <1>1, <1>2, <1>3, <2>1 DEF Course, Gone, ClientShape
    <2>4. Patience(c)
      <3>1. Hears(pair.name) > 1
        BY DEF Hears
      <3> QED  BY <1>1, <1>2, <2>1, <3>1 DEF Patience, Gone, Hears
    <2>5. Transfer(c) /\ Asked(c) /\ Echoed(c) /\ Abreast(c)
      <3>1. Transfer(c) /\ Asked(c)
        BY <1>1, <1>2, <2>1, RequestIsSix DEF Transfer, Asked, Gone
      <3>2. Echoed(c) /\ Abreast(c)
        BY <1>1, <1>2, <2>1 DEF Echoed, Abreast, Left, Gone
      <3> QED  BY <3>1, <3>2
    <2> QED  BY <2>2, <2>3, <2>4, <2>5 DEF Own
  <1> QED  BY <1>4, <1>5, <1>6, <1>7 DEF IInv

\* Every step keeps it.
LEMMA StepHolds ==
  ASSUME IInv, [Next]_vars
  PROVE  IInv'
  <1>1. CASE Next
    <2>1. Types /\ Places /\ Death /\ (\A c \in Clients : Own(c)) /\ \A c \in Clients : Course(c)
      BY DEF IInv, Own
    <2>2. Types'
      BY <1>1, <2>1, StepTyped
    <2>3. Places' /\ Death'
      BY <1>1, <2>1, <2>2, PlacesKept, DeathKept
    <2>4. \A c \in Clients : Own(c)'
      BY <1>1, <2>1, <2>2, OwnKept
    <2> QED  BY <2>2, <2>3, <2>4 DEF IInv
  <1>2. CASE UNCHANGED vars
    <2>1. /\ pair' = pair /\ pc' = pc /\ stat' = stat /\ rem' = rem /\ turn' = turn /\ cur' = cur
          /\ listening' = listening /\ conn' = conn /\ flow' = flow /\ shut' = shut
          /\ told' = told /\ wr' = wr /\ rd' = rd
      BY <1>2 DEF vars, procs, tcp, count
    <2>2. Types' /\ Places' /\ Death'
      BY <2>1 DEF IInv, Types, ControlTypes, DataTypes, Places, Place, Program, Death, Gone
    <2>3. \A c \in Clients : Own(c)'
      <3>1. ASSUME NEW c \in Clients
            PROVE  Untouched(c) /\ SameServer
        BY <2>1 DEF Untouched, SameServer, Keeps, SameData
      <3> QED  BY <3>1, FrameSame DEF IInv
    <2> QED  BY <2>2, <2>3 DEF IInv
  <1> QED  BY <1>1, <1>2

\* It holds always.
LEMMA Invariance == Spec => []IInv
  BY InitHolds, StepHolds, PTL DEF Spec

-----------------------------------------------------------------------------
(* What follows. *)

\* The types and ranges follow,
LEMMA TypesFollow == IInv => TypeOK
  <1> SUFFICES ASSUME IInv
               PROVE  TypeOK
    OBVIOUS
  <1>1. Types /\ Places /\ Ends = {"server", "client"}
    BY TwoEnds DEF IInv
  <1>2. ASSUME NEW p \in Procs
        PROVE  /\ pc[p] \in 1..Len(Program(p)) + 1
               /\ stat[p] \in {"run", "ended", "killed"}
               /\ rem[p] \in 0..Request
               /\ rem[p] > 0 => At(p, "readAll") \/ At(p, "echo") \/ stat[p] = "killed"
    <2>1. Place(p) /\ rem[p] \in Nat /\ stat[p] \in {"run", "ended", "killed"}
      BY <1>1 DEF Places, Types, ControlTypes
    <2>2. rem[p] \in 0..Request
      BY <2>1, RequestIsSix DEF Place
    <2> QED  BY <2>1, <2>2 DEF Place, At, Running
  <1>3. turn \in 0..Turns
    BY <1>1, TwoEnds DEF Types, ControlTypes, Places
  <1>4. ASSUME NEW e \in Ends, NEW c \in Clients
        PROVE  /\ flow[e][c] \in 0..wr[e][c]
               /\ shut[e][c] \in {"open", "half", "closed"}
               /\ told[e][c] \in {"ok", "reset", "dead"}
    <2>1. PICK o \in Ends : e # o
      BY <1>1
    <2>2. flow[e][c] + rd[o][c] <= wr[e][c]
      BY <2>1 DEF IInv, Own, Stream, Net
    <2>3. flow[e][c] \in Nat /\ wr[e][c] \in Nat /\ rd[o][c] \in Nat
      BY <1>1, Numbers DEF Types
    <2> QED  BY <1>1, <2>2, <2>3, Numbers DEF Types
  <1>5. ASSUME NEW c \in Clients
        PROVE  rd["server"][c] <= wr["client"][c] /\ rd["client"][c] <= wr["server"][c]
    <2>1. /\ \A e \in Ends : flow[e][c] \in Nat /\ wr[e][c] \in Nat /\ rd[e][c] \in Nat
          /\ flow["server"][c] + rd["client"][c] <= wr["server"][c]
          /\ flow["client"][c] + rd["server"][c] <= wr["client"][c]
      BY <1>1, Account DEF IInv, Own
    <2> QED  BY <1>1, <2>1
  <1> QED  BY <1>1, <1>2, <1>3, <1>4, <1>5 DEF TypeOK, Types, ControlTypes, DataTypes

\* Where a running client is whose call is this one; it has not closed.
LEMMA ClientAt ==
  ASSUME IInv, NEW c \in Clients, NEW name, At(c, name)
  PROVE  /\ Types /\ Own(c) /\ ClientShape(pair.client) /\ pair \in Pairs
         /\ stat[c] = "run" /\ pc[c] \in 1..Len(pair.client)
         /\ pair.client[pc[c]].call = name /\ ~Gone("client", c)
  <1>1. ClientShape(pair.client) /\ pair \in Pairs /\ Types /\ Own(c)
    BY Shapes DEF IInv, Types, DataTypes
  <1>2. stat[c] = "run" /\ pc[c] \in 1..Len(pair.client) /\ pair.client[pc[c]].call = name
    BY TwoEnds DEF IInv, Places, Place, At, Running
  <1>3. ~(pc[c] > Len(pair.client))
    BY <1>1, <1>2 DEF ClientShape
  <1> QED  BY <1>1, <1>2, <1>3 DEF Own, Course

\* that clients that count are in step,
LEMMA InStepFollows == IInv => InStep
  <1> SUFFICES ASSUME IInv, pair.name \in InStepPairs, NEW c \in Clients,
                      NEW name \in {"prompt", "close"}, At(c, name)
               PROVE  \/ rd["client"][c] = wr["client"][c] /\ flow["server"][c] = 0
                      \/ Forsaken(c) /\ pair.name # "echo2"
    BY DEF InStep
  <1>1. /\ Types /\ Own(c) /\ ClientShape(pair.client) /\ pair \in Pairs
        /\ stat[c] = "run" /\ pc[c] \in 1..Len(pair.client)
        /\ pair.client[pc[c]].call = name /\ ~Gone("client", c)
    BY ClientAt
  <1>2. CountingShape(pair.client)
    BY <1>1, CountingClients
  <1>3. pc[c] \in {2, 5, 8}
    BY <1>1, <1>2 DEF CountingShape, ClientShape
  <1>4. /\ \A e \in Ends : flow[e][c] \in Nat /\ wr[e][c] \in Nat /\ rd[e][c] \in Nat
        /\ flow["server"][c] + rd["client"][c] <= wr["server"][c]
        /\ flow["client"][c] + rd["server"][c] <= wr["client"][c]
    BY <1>1, Account DEF Own
  <1>5. CASE Left(c)
    BY <1>1, <1>5 DEF Left, Forsaken, Own, Course, Gone
  <1>6. CASE ~Left(c)
    <2>1. wr["client"][c] <= rd["client"][c] /\ wr["server"][c] <= rd["server"][c]
      BY <1>1, <1>3, <1>6 DEF Own, Abreast
    <2> QED  BY <1>4, <2>1, TwoEnds
  <1> QED  BY <1>5, <1>6

\* The call the server is at, and whom it serves there.
LEMMA ServerAt ==
  ASSUME IInv, NEW name, name \notin {"listen", "accept"}, At(Server, name)
  PROVE  /\ cur \in Clients /\ Own(cur) /\ Serves(cur) /\ ServerShape(pair.server)
         /\ pair \in Pairs /\ pc[Server] \in 3..Len(pair.server)
         /\ pair.server[pc[Server]].call = name
  <1>1. cur \in Clients /\ ServerIn(cur, name)
    BY ServerCalls DEF IInv
  <1> QED  BY <1>1, Shapes DEF IInv, ServerIn, Types, DataTypes

\* that transfers are whole,
LEMMA TransfersFollow == IInv => WholeTransfer
  <1> SUFFICES ASSUME IInv
               PROVE  WholeTransfer
    OBVIOUS
  <1>1. ASSUME pair.name \in TransferPairs, NEW c \in Clients, At(c, "close")
        PROVE  rd["client"][c] = wr["server"][c]
    <2>1. /\ Own(c) /\ ClientShape(pair.client) /\ pair \in Pairs
          /\ pc[c] \in 1..Len(pair.client) /\ pair.client[pc[c]].call = "close"
          /\ ~Gone("client", c)
      BY <1>1, ClientAt
    <2>2. TransferShape(pair)
      BY <1>1, <2>1, Transfers
    <2>3. pc[c] > 2
      BY <2>1, <2>2 DEF TransferShape, ClientShape
    <2> QED  BY <1>1, <2>1, <2>3 DEF Own, Transfer
  <1>2. ASSUME pair.name \in {"file", "sep"}, At(Server, "close")
        PROVE  rd["server"][cur] > 0
    <2>1. /\ cur \in Clients /\ Own(cur) /\ Serves(cur) /\ ServerShape(pair.server)
          /\ pair \in Pairs /\ pc[Server] \in 3..Len(pair.server)
          /\ pair.server[pc[Server]].call = "close"
      BY <1>2, ServerAt
    <2>2. TransferShape(pair)
      BY <1>2, <2>1, Transfers DEF TransferPairs
    <2>3. pc[Server] = Len(pair.server)
      BY <1>2, <2>1, <2>2 DEF TransferShape, ServerShape
    <2> QED  BY <1>2, <2>1, <2>3 DEF Own, Transfer
  <1> QED  BY <1>1, <1>2 DEF WholeTransfer

\* and that requests are complete.
LEMMA RequestsFollow == IInv => RequestComplete
  <1> SUFFICES ASSUME IInv, pair.name = "op", At(Server, "write")
               PROVE  rd["server"][cur] = Request
    BY DEF RequestComplete
  <1>1. /\ cur \in Clients /\ Own(cur) /\ Serves(cur) /\ ServerShape(pair.server)
        /\ pair \in Pairs /\ pc[Server] \in 3..Len(pair.server)
        /\ pair.server[pc[Server]].call = "write"
    BY ServerAt
  <1>2. pc[Server] = 5
    <2>1. /\ Len(pair.server) = 7 /\ CloseAt(pair.server) = 6
          /\ pair.server[3].call = "read" /\ pair.server[4].call = "readAll"
      BY <1>1, Operations
    <2>2. pair.server[6].call = "close" /\ pair.server[7].call = "again"
      BY <1>1, <2>1 DEF ServerShape
    <2>3. pc[Server] \in {3, 4, 5, 6, 7}
      BY <1>1, <2>1
    <2> QED  BY <1>1, <2>1, <2>2, <2>3
  <1> QED  BY <1>1, <1>2 DEF Own, Asked

\* Types and ranges, for any number of clients served up to five in turn: what is on its
\* way never exceeds what was written, no end has read more than was sent to it, and a
\* count is open only in a loop of reads (echo_client2.c:61, op_server.c:74).
THEOREM TypeCorrect == Spec => []TypeOK
  BY Invariance, TypesFollow, PTL

\* A client that reads until it has as much as it wrote (echo_client2.c:61-69,
\* StableEchoClnt_win.c:60, echo_stdclnt.c:56) turns to its user with everything back and
\* nothing on its way, however TCP has cut the answers up and whoever else is served.
\* Those that the ended server left in its backlog are exempt, except echo_client2's: the
\* fgets of echo_stdclnt.c:56 and the sum of StableEchoClnt_win.c:62 do not see the reset.
THEOREM StaysInStep == Spec => []InStep
  BY Invariance, InStepFollows, PTL

\* A receiver that reads until the end of file (file_client.c:41, sep_clnt.c:31,
\* tcp_client.c:38) goes on only with everything its server wrote; after the half-close
\* (file_server.c:68) the server still gets the client's message before it closes.
THEOREM TransfersWhole == Spec => []WholeTransfer
  BY Invariance, TransfersFollow, PTL

\* op_server (op_server.c:68-85) answers when it has read all of the request.
THEOREM RequestsComplete == Spec => []RequestComplete
  BY Invariance, RequestsFollow, PTL

\* A write kills a server (SIGPIPE, which none of them catches) only in an echo loop,
\* after its client has closed with some of its answer unread; a client that counts
\* what it reads never does that.
THEOREM OnlyUnreadAnswersKill == Spec => []DiesOfUnreadAnswer
  <1>1. IInv => DiesOfUnreadAnswer
    BY DEF IInv, Death, DiesOfUnreadAnswer, Gone, InStepPairs
  <1> QED  BY <1>1, Invariance, PTL
=============================================================================
