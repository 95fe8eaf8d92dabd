----------------------------- MODULE MpEchoProofs -----------------------------
(***************************************************************************)
(* What holds of the multi-process echo server and its clients for as many *)
(* connections as the backlog of 5 takes and any number of messages and    *)
(* size of buffers: no process keeps a socket it should have closed, what  *)
(* comes back is what was sent, and the handler of SIGCHLD always finds a  *)
(* child to wait for.                                                      *)
(***************************************************************************)
EXTENDS MpEcho, TLAPS

\* The connection in main's clnt_sock is main's alone until fork, and a child
\* has its own connection from fork until it closes it.
Descriptors ==
  /\ pcS \in {"accept", "interrupted"} <=> clnt_sock = NoConn
  /\ pcS = "fork" => pcC[clnt_sock] = "none"
  /\ pcS = "close" => pcC[clnt_sock] # "none"
  /\ pcS \in {"fork", "close"} => Parent \in holders[clnt_sock]
  /\ \A c \in Conns : pcC[c] \in {"start", "read", "write", "close"} => c \in holders[c]

\* No unit is lost on a connection until its client is killed.
Conserved ==
  \A c \in Conns :
    /\ pcC[c] = "write" <=> str_len[c] # 0
    /\ got[c] + down[c] + str_len[c] + up[c] <= sent[c]
    /\ conn[c] \in {"none", "open", "half"} =>
         got[c] + down[c] + str_len[c] + up[c] = sent[c]

\* A child ends after everything it was sent, or with its client; and a client's
\* reading process ends after that child, or by a signal.
Ending ==
  \A c \in Conns :
    /\ writer[c] = "writing" => conn[c] = "open"
    /\ pcC[c] \in {"close", "exit", "zombie", "reaped"} =>
         \/ conn[c] \in {"fin", "reset", "dead"}
         \/ conn[c] = "half" /\ up[c] = 0
    /\ reader[c] = "done" => ServerClosed(c) \/ conn[c] \in {"fin", "reset", "dead"}

\* The bit of SIGCHLD and a handler that is running stand for a zombie each.
Signals ==
  /\ sigchld \/ handling => Zombies # {}
  /\ sigchld /\ handling => \E c, d \in Zombies : c # d

IInv ==
  /\ TypeOK /\ OnlyOwnSockets /\ Descriptors
  /\ Conserved /\ Ending /\ EchoComplete /\ Signals

-----------------------------------------------------------------------------

\* What the proofs use of the constants.
LEMMA Constants ==
  /\ Buf \in Nat \ {0} /\ MaxSends \in [Conns -> Nat]
  /\ \A c \in Conns : c # Parent /\ c # Serv /\ c # NoConn
  BY MpEchoAssumption DEF Conns, Parent, Serv, NoConn

\* The amounts of data of a connection.
LEMMA Amounts ==
  ASSUME TypeOK, NEW c \in Conns
  PROVE  /\ up[c] \in 0..Buf /\ down[c] \in 0..Buf /\ str_len[c] \in 0..Buf
         /\ sent[c] \in Nat /\ got[c] \in Nat /\ sent[c] <= MaxSends[c]
  BY DEF TypeOK, TypeServer, TypeClient

LEMMA InitInv == Init => IInv
<1> SUFFICES ASSUME Init PROVE IInv
  OBVIOUS
<1> USE Constants DEF Init, Parent, Serv, NoConn, Procs
<1>1. TypeOK
  <2>1. TypeServer
    <3>1. str_len \in [Conns -> 0..Buf]
      OBVIOUS
    <3>2. holders \in [{Serv} \cup Conns -> SUBSET Procs]
      OBVIOUS
    <3>3. QED
      BY <3>1, <3>2 DEF TypeServer
  <2>2. \A c \in Conns : MaxSends[c] \in Nat
    OBVIOUS
  <2>3. TypeClient
    BY <2>2 DEF TypeClient
  <2>4. QED
    BY <2>1, <2>3 DEF TypeOK
<1>2. OnlyOwnSockets
  BY DEF OnlyOwnSockets
<1>3. Descriptors
  BY DEF Descriptors
<1>4. Conserved
  BY DEF Conserved
<1>5. Ending /\ EchoComplete
  BY DEF Ending, EchoComplete
<1>6. Signals
  BY DEF Signals
<1>7. QED
  BY <1>1, <1>2, <1>3, <1>4, <1>5, <1>6 DEF IInv

-----------------------------------------------------------------------------
(* Types. *)

LEMMA TypeServerStep ==
  ASSUME IInv, [Next]_vars
  PROVE  TypeServer'
<1> USE Constants DEF IInv, TypeOK, TypeServer, Procs, Parent, NoConn, Serv
<1>1. CASE AcceptOne \/ AcceptFails
  BY <1>1 DEF AcceptOne, AcceptFails, CallsAgain, Backlog, child
<1>2. CASE Fork
  <2> DEFINE c == clnt_sock
  <2>0. pcS = "fork" /\ c \in Conns
    BY <1>2 DEF Fork, Descriptors
  <2>1. CASE ForkOk
    BY <2>0, <2>1, <1>2 DEF Fork, ForkOk
  <2>2. CASE ForkFails
    BY <2>0, <2>2, <1>2 DEF Fork, ForkFails
  <2>3. QED
    BY <2>1, <2>2, <1>2 DEF Fork
<1>3. CASE ParentClose
  BY <1>3 DEF ParentClose, DescriptorClosed, child, Descriptors
<1>4. CASE Deliver
  BY <1>4 DEF Deliver, child
<1>5. CASE Reap
  BY <1>5 DEF Reap, ReapOne, Zombies
<1>6. ASSUME NEW c \in Conns, ChildStep(c)
      PROVE  TypeServer'
  <2>1. CASE ChildStart(c)
    BY <2>1 DEF ChildStart
  <2>2. CASE ChildRead(c)
    <3>1. CASE pcC[c] = "read" /\ up[c] > 0
      <4>1. PICK n \in 1..up[c] : str_len' = [str_len EXCEPT ![c] = n]
        BY <2>2, <3>1 DEF ChildRead
      <4>2. n \in 0..Buf
        BY Amounts
      <4>3. QED
        BY <2>2, <3>1, <4>1, <4>2 DEF ChildRead, server
    <3>2. CASE up[c] = 0
      BY <2>2, <3>2 DEF ChildRead, server
    <3>3. QED
      BY <2>2, <3>1, <3>2 DEF ChildRead
  <2>3. CASE pcC[c] = "write" /\ ChildWriteSome(c)
    <3>1. str_len[c] # 0
      BY <2>3 DEF Conserved
    <3>2. RestOfWrite(c) \in 0..Buf
      BY <3>1 DEF RestOfWrite
    <3>3. QED
      BY <2>3, <3>2 DEF ChildWriteSome, server
  <2>4. CASE pcC[c] = "write" /\ ChildWriteFails(c)
    <3>1. str_len' \in [Conns -> 0..Buf]
      BY <2>4 DEF ChildWriteFails
    <3>2. CASE Ends(c)
      BY <2>4, <3>1, <3>2 DEF ChildWriteFails, Ends
    <3>3. CASE UNCHANGED server /\ pcC' = [pcC EXCEPT ![c] = "read"]
      BY <2>4, <3>1, <3>3 DEF server
    <3>4. QED
      BY <2>4, <3>2, <3>3 DEF ChildWriteFails
  <2>5. CASE ChildClose(c)
    BY <2>5 DEF ChildClose
  <2>6. CASE ChildExit(c)
    BY <2>6 DEF ChildExit, Ends
  <2>7. QED
    BY <1>6, <2>1, <2>2, <2>3, <2>4, <2>5, <2>6 DEF ChildStep, ChildWrite
<1>7. ASSUME NEW c \in Conns, ClientStep(c)
      PROVE  TypeServer'
  BY <1>7 DEF ClientStep, Connect, ClientWrite, Quit, WriterClose, ClientRead, Kill,
     server, child
<1>8. CASE UNCHANGED vars
  BY <1>8 DEF vars, server, child
<1>9. QED
  BY <1>1, <1>2, <1>3, <1>4, <1>5, <1>6, <1>7, <1>8
     DEF Next, MainStep, Handler, Resting

\* The steps of the server's parent leave clients and connections alone.
LEMMA ParentSteps ==
  ASSUME MainStep \/ Handler
  PROVE  UNCHANGED <<client, tcp, str_len>>
  BY DEF MainStep, AcceptOne, AcceptFails, CallsAgain, Fork, ParentClose, Handler, Deliver,
     Reap, child

LEMMA TypeClientStep ==
  ASSUME IInv, [Next]_vars
  PROVE  TypeClient'
<1> USE Constants DEF IInv, TypeOK, TypeClient
<1>1. CASE MainStep \/ Handler
  BY <1>1, ParentSteps DEF client, tcp
<1>2. ASSUME NEW c \in Conns, ChildStep(c)
      PROVE  TypeClient'
  <2>1. CASE ChildStart(c) \/ ChildClose(c) \/ ChildExit(c)
    BY <2>1 DEF ChildStart, ChildClose, ChildExit, client, tcp
  <2>2. CASE ChildRead(c)
    <3>1. CASE pcC[c] = "read" /\ up[c] > 0
      <4>1. PICK n \in 1..up[c] : up' = [up EXCEPT ![c] = @ - n]
        BY <2>2, <3>1 DEF ChildRead
      <4>2. up[c] - n \in 0..Buf
        BY Amounts
      <4>3. QED
        BY <2>2, <3>1, <4>1, <4>2 DEF ChildRead, client
    <3>2. CASE up[c] = 0
      BY <2>2, <3>2 DEF ChildRead, client
    <3>3. QED
      BY <2>2, <3>1, <3>2 DEF ChildRead
  <2>3. CASE ChildWriteSome(c)
    BY <2>3 DEF ChildWriteSome, client
  <2>4. CASE ChildWriteFails(c)
    BY <2>4 DEF ChildWriteFails, client
  <2>5. QED
    BY <1>2, <2>1, <2>2, <2>3, <2>4 DEF ChildStep, ChildWrite
<1>3. ASSUME NEW c \in Conns, ClientStep(c)
      PROVE  TypeClient'
  <2>1. CASE Connect(c)
    BY <2>1 DEF Connect
  <2>2. CASE ClientWrite(c)
    BY <2>2 DEF ClientWrite
  <2>3. CASE Quit(c)
    BY <2>3 DEF Quit, Shutdown
  <2>4. CASE WriterClose(c)
    BY <2>4 DEF WriterClose, tcp
  <2>5. CASE ClientRead(c)
    <3>1. CASE down[c] > 0
      <4>1. PICK n \in 1..down[c] : /\ down' = [down EXCEPT ![c] = @ - n]
                                    /\ got' = [got EXCEPT ![c] = @ + n]
        BY <2>5, <3>1 DEF ClientRead
      <4>2. down[c] - n \in 0..Buf
        BY Amounts
      <4>3. got[c] + n <= sent[c]
        BY Amounts DEF Conserved
      <4>4. QED
        BY <2>5, <3>1, <4>1, <4>2, <4>3 DEF ClientRead
    <3>2. CASE down[c] = 0
      BY <2>5, <3>2 DEF ClientRead
    <3>3. QED
      BY <3>1, <3>2
  <2>6. CASE Kill(c)
    BY <2>6 DEF Kill
  <2>7. QED
    BY <1>3, <2>1, <2>2, <2>3, <2>4, <2>5, <2>6 DEF ClientStep
<1>4. CASE UNCHANGED vars
  BY <1>4 DEF vars, client, tcp
<1>5. QED
  BY <1>1, <1>2, <1>3, <1>4 DEF Next, Resting

-----------------------------------------------------------------------------
(* Descriptors. *)

\* The steps of a client leave the server's processes alone.
LEMMA ClientSteps ==
  ASSUME NEW c \in Conns, ClientStep(c)
  PROVE  UNCHANGED <<server, child>>
  BY DEF ClientStep, Connect, ClientWrite, Quit, WriterClose, ClientRead, Kill, server, child

LEMMA SocketStep ==
  ASSUME IInv, [Next]_vars
  PROVE  OnlyOwnSockets' /\ Descriptors'
<1> USE Constants DEF IInv, TypeOK, TypeServer, OnlyOwnSockets, Descriptors, Procs
<1>0. ASSUME UNCHANGED <<server, child>>
      PROVE  OnlyOwnSockets' /\ Descriptors'
  BY <1>0 DEF server, child
<1>1. CASE AcceptOne \/ AcceptFails
  BY <1>1 DEF AcceptOne, AcceptFails, CallsAgain, Backlog, child
<1>2. CASE Fork
  <2>0. pcS = "fork" /\ clnt_sock \in Conns /\ pcC[clnt_sock] = "none"
    BY <1>2 DEF Fork
  <2>1. CASE ForkOk
    <3>1. \A s \in {Serv} \cup Conns : holders'[s] =
            IF Parent \in holders[s] THEN holders[s] \cup {clnt_sock} ELSE holders[s]
      BY <2>1 DEF ForkOk
    <3>2. OnlyOwnSockets'
      BY <2>0, <2>1, <3>1 DEF ForkOk
    <3>3. Descriptors'
      BY <2>0, <2>1, <3>1 DEF ForkOk
    <3>4. QED
      BY <3>2, <3>3
  <2>2. CASE ForkFails
    <3>1. OnlyOwnSockets'
      BY <2>0, <2>2 DEF ForkFails
    <3>2. Descriptors'
      BY <2>0, <2>2 DEF ForkFails
    <3>3. QED
      BY <3>1, <3>2
  <2>3. QED
    BY <2>1, <2>2, <1>2 DEF Fork
<1>3. CASE ParentClose
  BY <1>3 DEF ParentClose, DescriptorClosed, child
<1>4. CASE Deliver
  BY <1>4 DEF Deliver, child
<1>5. CASE Reap
  BY <1>5 DEF Reap, ReapOne, Zombies
<1>6. ASSUME NEW c \in Conns, ChildStep(c)
      PROVE  OnlyOwnSockets' /\ Descriptors'
  <2>1. CASE ChildStart(c)
    BY <2>1 DEF ChildStart
  <2>2. CASE ChildRead(c)
    BY <2>2 DEF ChildRead, server
  <2>3. CASE pcC[c] = "write" /\ ChildWriteSome(c)
    BY <2>3 DEF ChildWriteSome, server
  <2>4. CASE Ends(c) /\ pcC[c] \in {"write", "exit"}
    <3>1. \A s \in {Serv} \cup Conns : holders'[s] = holders[s] \ {c}
      BY <2>4 DEF Ends
    <3>2. OnlyOwnSockets'
      BY <2>4, <3>1 DEF Ends
    <3>3. Descriptors'
      BY <2>4, <3>1 DEF Ends
    <3>4. QED
      BY <3>2, <3>3
  <2>5. CASE pcC[c] = "write" /\ ChildWriteFails(c) /\ ~Ends(c)
    BY <2>5 DEF ChildWriteFails, server
  <2>6. CASE ChildClose(c)
    BY <2>6 DEF ChildClose
  <2>7. QED
    BY <1>6, <2>1, <2>2, <2>3, <2>4, <2>5, <2>6 DEF ChildStep, ChildWrite, ChildExit
<1>7. QED
  BY <1>0, <1>1, <1>2, <1>3, <1>4, <1>5, <1>6, ClientSteps
     DEF Next, MainStep, Handler, Resting, vars

-----------------------------------------------------------------------------
(* SIGCHLD. *)

LEMMA SignalStep ==
  ASSUME IInv, [Next]_vars
  PROVE  Signals'
<1> USE DEF IInv, TypeOK, TypeServer, Signals
<1>0. ASSUME UNCHANGED <<sigchld, handling>>, Zombies \subseteq Zombies'
      PROVE  Signals'
  BY <1>0
<1>1. CASE AcceptOne \/ AcceptFails \/ ParentClose
  BY <1>1, <1>0 DEF AcceptOne, AcceptFails, ParentClose, child, Zombies
<1>2. CASE Fork
  BY <1>2, <1>0 DEF Fork, ForkOk, ForkFails, Zombies, Descriptors
<1>3. CASE Deliver
  BY <1>3 DEF Deliver, child, Zombies
<1>4. CASE Reap
  <2>1. CASE Zombies = {}
    BY <2>1, <1>4 DEF Reap
  <2>2. PICK z \in Zombies : pcC' = [pcC EXCEPT ![z] = "reaped"]
    BY <1>4 DEF Reap, ReapOne
  <2>3. Zombies' = Zombies \ {z}
    BY <2>2 DEF Zombies
  <2>4. QED
    BY <1>4, <2>3 DEF Reap
<1>5. ASSUME NEW c \in Conns, ChildStep(c)
      PROVE  Signals'
  <2>1. CASE ~Ends(c)
    BY <1>5, <2>1, <1>0 DEF ChildStep, ChildStart, ChildRead, ChildWrite, ChildWriteSome,
       ChildWriteFails, ChildClose, ChildExit, Zombies, server
  <2>2. CASE Ends(c) /\ pcC[c] \in {"write", "exit"}
    <3>1. c \in Zombies' /\ c \notin Zombies /\ Zombies \subseteq Zombies'
      BY <2>2 DEF Ends, Zombies
    <3>2. QED
      BY <2>2, <3>1 DEF Ends
  <2>3. Ends(c) => pcC[c] \in {"write", "exit"}
    BY <1>5 DEF ChildStep, ChildStart, ChildRead, ChildWrite, ChildWriteSome, ChildClose,
       ChildExit, Ends
  <2>4. QED
    BY <2>1, <2>2, <2>3
<1>6. ASSUME UNCHANGED <<server, child>>
      PROVE  Signals'
  BY <1>6, <1>0 DEF server, child, Zombies
<1>7. QED
  BY <1>1, <1>2, <1>3, <1>4, <1>5, <1>6, ClientSteps
     DEF Next, MainStep, Handler, Resting, vars

-----------------------------------------------------------------------------
(* What is sent comes back. *)

LEMMA ConservedStep ==
  ASSUME IInv, [Next]_vars
  PROVE  Conserved'
<1> SUFFICES ASSUME NEW d \in Conns
             PROVE  /\ pcC'[d] = "write" <=> str_len'[d] # 0
                    /\ got'[d] + down'[d] + str_len'[d] + up'[d] <= sent'[d]
                    /\ conn'[d] \in {"none", "open", "half"} =>
                         got'[d] + down'[d] + str_len'[d] + up'[d] = sent'[d]
  BY DEF Conserved
<1>a. /\ up[d] \in Nat /\ down[d] \in Nat /\ str_len[d] \in Nat
      /\ sent[d] \in Nat /\ got[d] \in Nat
  BY Amounts, Constants DEF IInv
<1>b. /\ pcC[d] = "write" <=> str_len[d] # 0
      /\ got[d] + down[d] + str_len[d] + up[d] <= sent[d]
      /\ conn[d] \in {"none", "open", "half"} =>
           got[d] + down[d] + str_len[d] + up[d] = sent[d]
  BY DEF IInv, Conserved
<1> USE <1>a, <1>b DEF IInv, TypeOK, TypeServer, TypeClient
<1>1. CASE MainStep \/ Handler
  <2>1. pcC'[d] = "write" <=> pcC[d] = "write"
    BY <1>1 DEF MainStep, AcceptOne, AcceptFails, CallsAgain, Fork, ForkOk, ForkFails,
       ParentClose, Handler, Deliver, Reap, ReapOne, Zombies, child, Descriptors
  <2>2. QED
    BY <1>1, <2>1, ParentSteps DEF client, tcp
<1>2. ASSUME NEW c \in Conns, ChildStep(c), c # d
      PROVE  /\ UNCHANGED <<client, conn[d], down[d], str_len[d], up[d]>>
             /\ UNCHANGED pcC[d]
  BY <1>2 DEF ChildStep, ChildStart, ChildRead, ChildWrite, ChildWriteSome, ChildWriteFails,
     ChildClose, ChildExit, Ends, client, tcp, server, child
<1>3. CASE ChildStep(d)
  <2>1. CASE ChildStart(d) \/ ChildClose(d) \/ ChildExit(d)
    BY <2>1 DEF ChildStart, ChildClose, ChildExit, Ends, client, tcp
  <2>2. CASE ChildRead(d)
    <3>1. CASE up[d] = 0
      BY <2>2, <3>1 DEF ChildRead, client
    <3>2. CASE up[d] > 0
      <4>1. PICK n \in 1..up[d] : /\ up' = [up EXCEPT ![d] = @ - n]
                                  /\ str_len' = [str_len EXCEPT ![d] = n]
        BY <2>2, <3>2 DEF ChildRead
      <4>2. /\ up'[d] = up[d] - n /\ str_len'[d] = n /\ str_len[d] = 0
            /\ pcC'[d] = "write" /\ UNCHANGED <<client, conn, down>>
        BY <2>2, <3>2, <4>1 DEF ChildRead
      <4>3. QED
        BY <4>2 DEF client
    <3>3. QED
      BY <3>1, <3>2
  <2>3. CASE pcC[d] = "write" /\ ChildWriteSome(d)
    <3>1. /\ down'[d] = down[d] + 1 /\ str_len'[d] = str_len[d] - 1
          /\ pcC'[d] = "write" <=> str_len'[d] # 0
          /\ UNCHANGED <<client, conn, up>>
      BY <2>3 DEF ChildWriteSome, RestOfWrite
    <3>2. got'[d] = got[d] /\ sent'[d] = sent[d] /\ up'[d] = up[d] /\ conn'[d] = conn[d]
      BY <3>1 DEF client
    <3>3. QED
      BY <3>1, <3>2, <1>a, <1>b
  <2>4. CASE pcC[d] = "write" /\ ChildWriteFails(d)
    <3>1. /\ str_len'[d] = 0 /\ pcC'[d] # "write" /\ UNCHANGED <<client, up, down>>
          /\ conn'[d] \in {"fin", "dead"}
      BY <2>4 DEF ChildWriteFails, Ends
    <3>2. QED
      BY <3>1 DEF client
  <2>5. QED
    BY <1>3, <2>1, <2>2, <2>3, <2>4 DEF ChildStep, ChildWrite
<1>4. ASSUME NEW c \in Conns, ClientStep(c), c # d
      PROVE  UNCHANGED <<sent[d], got[d], conn[d], up[d], down[d]>>
  BY <1>4 DEF ClientStep, Connect, ClientWrite, Quit, Shutdown, WriterClose, ClientRead,
     Kill, tcp
<1>5. CASE ClientStep(d)
  <2>0. UNCHANGED <<pcC, str_len>>
    BY <1>5, ClientSteps DEF child
  <2>1. CASE Connect(d) \/ WriterClose(d)
    BY <2>0, <2>1 DEF Connect, WriterClose, tcp
  <2>2. CASE ClientWrite(d)
    BY <2>0, <2>2 DEF ClientWrite
  <2>3. CASE Quit(d)
    <3>1. conn[d] = "open"
      BY <2>3 DEF Quit, Ending
    <3>2. QED
      BY <2>0, <2>3, <3>1 DEF Quit, Shutdown
  <2>4. CASE ClientRead(d)
    <3>1. CASE down[d] > 0
      <4>1. PICK n \in 1..down[d] : /\ down' = [down EXCEPT ![d] = @ - n]
                                    /\ got' = [got EXCEPT ![d] = @ + n]
        BY <2>4, <3>1 DEF ClientRead
      <4>2. /\ down'[d] = down[d] - n /\ got'[d] = got[d] + n
            /\ UNCHANGED <<sent, conn, up>>
        BY <2>4, <4>1 DEF ClientRead
      <4>3. QED
        BY <2>0, <4>2
    <3>2. CASE down[d] = 0
      BY <2>0, <2>4, <3>2 DEF ClientRead
    <3>3. QED
      BY <3>1, <3>2
  <2>5. CASE Kill(d)
    <3>1. /\ conn'[d] \in {"fin", "reset"} /\ down'[d] = 0
          /\ UNCHANGED <<sent, got, up>>
      BY <2>5 DEF Kill
    <3>2. QED
      BY <2>0, <3>1
  <2>6. QED
    BY <1>5, <2>1, <2>2, <2>3, <2>4, <2>5 DEF ClientStep
<1>6. CASE UNCHANGED vars
  BY <1>6 DEF vars, client, tcp, child
<1>7. QED
  BY <1>1, <1>2, <1>3, <1>4, <1>5, <1>6, ClientSteps DEF Next, Resting, client, child

\* Once the server has let go of a connection it never takes it up again.
LEMMA ClosedForGood ==
  ASSUME IInv, [Next]_vars, NEW d \in Conns, ServerClosed(d)
  PROVE  ServerClosed(d)'
<1> USE Constants DEF IInv, TypeOK, TypeServer, ServerClosed
<1>1. CASE AcceptOne \/ AcceptFails
  BY <1>1 DEF AcceptOne, AcceptFails, CallsAgain, Backlog, child
<1>2. CASE Fork
  BY <1>2 DEF Fork, ForkOk, ForkFails, Descriptors
<1>3. CASE ParentClose \/ Handler
  BY <1>3 DEF ParentClose, DescriptorClosed, Handler, Deliver, Reap, ReapOne, Zombies, child
<1>4. ASSUME NEW c \in Conns, ChildStep(c)
      PROVE  ServerClosed(d)'
  BY <1>4 DEF ChildStep, ChildStart, ChildRead, ChildWrite, ChildWriteSome, ChildWriteFails,
     ChildClose, ChildExit, Ends, server, child
<1>5. ASSUME UNCHANGED <<server, child>>
      PROVE  ServerClosed(d)'
  BY <1>5 DEF server, child
<1>6. QED
  BY <1>1, <1>2, <1>3, <1>4, <1>5, ClientSteps DEF Next, MainStep, Resting, vars

LEMMA EndingStep ==
  ASSUME IInv, [Next]_vars
  PROVE  Ending'
<1> SUFFICES ASSUME NEW d \in Conns
             PROVE  /\ writer'[d] = "writing" => conn'[d] = "open"
                    /\ pcC'[d] \in {"close", "exit", "zombie", "reaped"} =>
                         \/ conn'[d] \in {"fin", "reset", "dead"}
                         \/ conn'[d] = "half" /\ up'[d] = 0
                    /\ reader'[d] = "done" =>
                         ServerClosed(d)' \/ conn'[d] \in {"fin", "reset", "dead"}
  BY DEF Ending
<1>a. /\ writer[d] = "writing" => conn[d] = "open"
      /\ pcC[d] \in {"close", "exit", "zombie", "reaped"} =>
           \/ conn[d] \in {"fin", "reset", "dead"}
           \/ conn[d] = "half" /\ up[d] = 0
      /\ reader[d] = "done" => ServerClosed(d) \/ conn[d] \in {"fin", "reset", "dead"}
  BY DEF IInv, Ending
<1>b. ServerClosed(d) => ServerClosed(d)'
  BY ClosedForGood
<1> USE <1>a, <1>b DEF IInv, TypeOK, TypeServer, TypeClient
<1>1. CASE MainStep \/ Handler
  <2>1. pcC'[d] = pcC[d] \/ pcC'[d] \in {"start", "refused"}
                         \/ (pcC[d] = "zombie" /\ pcC'[d] = "reaped")
    BY <1>1 DEF MainStep, AcceptOne, AcceptFails, CallsAgain, Fork, ForkOk, ForkFails,
       ParentClose, Handler, Deliver, Reap, ReapOne, Zombies, child, Descriptors
  <2>2. QED
    BY <1>1, <2>1, ParentSteps DEF client, tcp
<1>2. ASSUME NEW c \in Conns, ChildStep(c), c # d
      PROVE  UNCHANGED <<client, conn[d], up[d], pcC[d]>>
  BY <1>2 DEF ChildStep, ChildStart, ChildRead, ChildWrite, ChildWriteSome, ChildWriteFails,
     ChildClose, ChildExit, Ends, client, tcp, server, child
<1>3. CASE ChildStep(d)
  <2>1. CASE ChildStart(d) \/ ChildClose(d) \/ ChildExit(d)
    BY <2>1 DEF ChildStart, ChildClose, ChildExit, Ends, client, tcp
  <2>2. CASE ChildRead(d)
    BY <2>2 DEF ChildRead, client
  <2>3. CASE pcC[d] = "write" /\ ChildWriteSome(d)
    BY <2>3 DEF ChildWriteSome, client
  <2>4. CASE pcC[d] = "write" /\ ChildWriteFails(d)
    BY <2>4 DEF ChildWriteFails, Ends, client
  <2>5. QED
    BY <1>3, <2>1, <2>2, <2>3, <2>4 DEF ChildStep, ChildWrite
<1>4. ASSUME NEW c \in Conns, ClientStep(c), c # d
      PROVE  UNCHANGED <<writer[d], reader[d], conn[d], up[d]>>
  BY <1>4 DEF ClientStep, Connect, ClientWrite, Quit, Shutdown, WriterClose, ClientRead,
     Kill, tcp
<1>5. CASE ClientStep(d)
  <2>0. pcC' = pcC
    BY <1>5, ClientSteps DEF child
  <2>1. CASE Connect(d) \/ WriterClose(d)
    BY <2>0, <2>1 DEF Connect, WriterClose, tcp
  <2>2. CASE ClientWrite(d)
    BY <2>0, <2>2 DEF ClientWrite
  <2>3. CASE Quit(d)
    BY <2>0, <2>3 DEF Quit, Shutdown
  <2>4. CASE ClientRead(d)
    BY <2>0, <2>4 DEF ClientRead
  <2>5. CASE Kill(d)
    BY <2>0, <2>5 DEF Kill
  <2>6. QED
    BY <1>5, <2>1, <2>2, <2>3, <2>4, <2>5 DEF ClientStep
<1>6. CASE UNCHANGED vars
  BY <1>6 DEF vars, client, tcp, child
<1>7. QED
  BY <1>1, <1>2, <1>3, <1>4, <1>5, <1>6, ClientSteps DEF Next, Resting, client, child

\* When the reading process sees the end of file, nothing is left on its way.
LEMMA EchoStep ==
  ASSUME IInv, [Next]_vars
  PROVE  EchoComplete'
<1> SUFFICES ASSUME NEW d \in Conns, conn'[d] = "half", reader'[d] = "done",
                    pcC'[d] # "refused"
             PROVE  got'[d] = sent'[d]
  BY DEF EchoComplete
<1>a. /\ conn[d] = "half" /\ reader[d] = "done" /\ pcC[d] # "refused" => got[d] = sent[d]
      /\ up[d] \in Nat /\ down[d] \in Nat /\ str_len[d] \in Nat
      /\ sent[d] \in Nat /\ got[d] \in Nat
  BY Amounts, Constants DEF IInv, EchoComplete
<1>b. /\ pcC[d] = "write" <=> str_len[d] # 0
      /\ conn[d] = "half" => got[d] + down[d] + str_len[d] + up[d] = sent[d]
  BY DEF IInv, Conserved
<1>c. /\ writer[d] = "writing" => conn[d] = "open"
      /\ pcC[d] \in {"close", "exit", "zombie", "reaped"} /\ conn[d] = "half" => up[d] = 0
      /\ reader[d] = "done" => ServerClosed(d) \/ conn[d] \in {"fin", "reset", "dead"}
  BY DEF IInv, Ending
<1> USE DEF IInv, TypeOK, TypeServer, TypeClient
<1>1. CASE MainStep \/ Handler
  <2>1. pcC[d] # "refused"
    BY <1>1 DEF MainStep, AcceptOne, AcceptFails, CallsAgain, Fork, ForkOk, ForkFails,
       ParentClose, Handler, Deliver, Reap, ReapOne, Zombies, child, Descriptors
  <2>2. QED
    BY <1>1, <1>a, <2>1, ParentSteps DEF client, tcp
<1>2. ASSUME NEW c \in Conns, ChildStep(c)
      PROVE  got'[d] = sent'[d]
  <2>1. UNCHANGED client /\ conn[d] = "half" /\ pcC[d] # "refused"
    BY <1>2 DEF ChildStep, ChildStart, ChildRead, ChildWrite, ChildWriteSome,
       ChildWriteFails, ChildClose, ChildExit, Ends, client, tcp, server, child
  <2>2. QED
    BY <1>a, <2>1 DEF client
<1>3. ASSUME NEW c \in Conns, ClientStep(c), c # d
      PROVE  UNCHANGED <<reader[d], conn[d], sent[d], got[d]>>
  BY <1>3 DEF ClientStep, Connect, ClientWrite, Quit, Shutdown, WriterClose, ClientRead,
     Kill, tcp
<1>4. CASE ClientStep(d)
  <2>0. pcC' = pcC
    BY <1>4, ClientSteps DEF child
  <2>1. CASE Connect(d) \/ Kill(d)
    BY <2>1 DEF Connect, Kill
  <2>2. CASE ClientWrite(d)
    BY <2>0, <2>2, <1>a, <1>c DEF ClientWrite
  <2>3. CASE Quit(d)
    BY <2>0, <2>3, <1>c DEF Quit, Shutdown
  <2>4. CASE WriterClose(d)
    BY <2>0, <2>4, <1>a DEF WriterClose, tcp
  <2>5. CASE ClientRead(d)
    <3>1. down[d] = 0 /\ ServerClosed(d) /\ UNCHANGED <<conn, sent, got>>
      BY <2>5 DEF ClientRead
    <3>2. pcC[d] \in {"exit", "zombie", "reaped"}
      BY <2>0, <3>1 DEF ServerClosed, Descriptors
    <3>3. up[d] = 0 /\ str_len[d] = 0
      BY <3>1, <3>2, <1>b, <1>c
    <3>4. QED
      BY <3>1, <3>3, <1>a, <1>b
  <2>6. QED
    BY <1>4, <2>1, <2>2, <2>3, <2>4, <2>5 DEF ClientStep
<1>5. CASE UNCHANGED vars
  BY <1>5, <1>a DEF vars, client, tcp, child
<1>6. QED
  BY <1>1, <1>2, <1>3, <1>4, <1>5, <1>a, ClientSteps DEF Next, Resting, child

-----------------------------------------------------------------------------

LEMMA Invariance == Spec => []IInv
<1>1. IInv /\ [Next]_vars => IInv'
  BY TypeServerStep, TypeClientStep, SocketStep, ConservedStep, EndingStep, EchoStep,
     SignalStep DEF IInv, TypeOK
<1>2. QED
  BY InitInv, <1>1, PTL DEF Spec

\* Every variable keeps its type, every buffer its size, and no client prints
\* more than it sent.
THEOREM TypeCorrect == Spec => []TypeOK
<1>1. IInv => TypeOK
  BY DEF IInv
<1>2. QED
  BY Invariance, <1>1, PTL

\* No process of the server keeps a connection that is not its own
\* (echo_mpserv.c:79-82 and 92-94).
THEOREM SocketsApart == Spec => []OnlyOwnSockets
<1>1. IInv => OnlyOwnSockets
  BY DEF IInv
<1>2. QED
  BY Invariance, <1>1, PTL

\* Whoever typed q has got everything back when the end of file is seen
\* (echo_mpclient.c:66-70 and 83-88 against echo_mpserv.c:84-88).
THEOREM NothingMissing == Spec => []EchoComplete
<1>1. IInv => EchoComplete
  BY DEF IInv
<1>2. QED
  BY Invariance, <1>1, PTL

\* read_childproc never calls waitpid without a child that has ended, although
\* SIGCHLD is one bit and children end while the handler runs.
THEOREM HandlerHasWork == Spec => []ReaperFindsChild
<1>1. IInv => ReaperFindsChild
  BY DEF IInv, Signals, ReaperFindsChild
<1>2. QED
  BY Invariance, <1>1, PTL
=============================================================================
