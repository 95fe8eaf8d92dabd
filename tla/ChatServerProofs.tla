--------------------------- MODULE ChatServerProofs ---------------------------
(***************************************************************************)
(* What holds of the chat server for any number of clients, messages and   *)
(* send-buffer sizes: the mutex protects what it should, clnt_cnt counts   *)
(* what it should, all clients see the broadcasts in one order, and nobody *)
(* who is registered and connected misses one.                             *)
(***************************************************************************)
EXTENDS ChatServer, FiniteSetTheorems, TLAPS

\* The thread of an accept exists from Create on, and a thread waiting in read
\* waits on a connection.
ControlInv ==
  /\ pcM # "accept" => accepts # 0
  /\ \A t \in Threads :
       /\ pc[t] = "none" <=> t > accepts \/ (t = accepts /\ pcM # "accept")
       /\ pc[t] = "reading" => file[t] # NoConn

\* A broadcast under way is the latest one, and every inbox is in the order in
\* which the broadcasts were begun.
OrderInv ==
  /\ \A t \in Threads : pc[t] = "send" => bid[t] = bcasts
  /\ \A c \in Conns : \A j \in DOMAIN inbox[c] :
       /\ inbox[c][j] <= bcasts
       /\ \A k \in DOMAIN inbox[c] : j < k => inbox[c][j] <= inbox[c][k]

IInv == TypeOK /\ LockInv /\ CountInv /\ ControlInv /\ OrderInv

-----------------------------------------------------------------------------

LEMMA InitInv == Init => IInv
<1> SUFFICES ASSUME Init PROVE IInv
  OBVIOUS
<1> USE ChatAssumption DEF Init
<1>1. TypeOK
  BY DEF TypeOK, TypeProcess, TypeThreads, TypeNet, TypeHist, Threads, Conns, Fds,
         Slots, Main, Free, NoConn, BadFd
<1>2. LockInv
  BY DEF LockInv, Threads, Main, Free
<1>3. Serving = {}
  BY DEF Serving, Threads
<1>4. CountInv
  BY <1>3, FS_EmptySet DEF CountInv
<1>5. ControlInv
  BY DEF ControlInv, Threads
<1>6. OrderInv
  BY DEF OrderInv, Threads, Conns
<1>7. QED
  BY <1>1, <1>2, <1>4, <1>5, <1>6 DEF IInv

-----------------------------------------------------------------------------
(* clnt_cnt. *)

\* The clients being served are among the accepted ones.
LEMMA ServingBound ==
  ASSUME TypeOK
  PROVE  IsFiniteSet(Serving) /\ Cardinality(Serving) \in 0..accepts
<1>1. accepts \in Nat
  BY ChatAssumption DEF TypeOK, TypeProcess
<1>2. IsFiniteSet(1..accepts) /\ Cardinality(1..accepts) = accepts
  BY <1>1, FS_Interval
<1>3. Serving \in SUBSET (1..accepts)
  BY <1>1, ChatAssumption DEF Serving, Threads
<1>4. IsFiniteSet(Serving) /\ Cardinality(Serving) <= accepts
  BY <1>2, <1>3, FS_Subset
<1>5. Cardinality(Serving) \in Nat
  BY <1>4, FS_CardinalityType
<1>6. QED
  BY <1>1, <1>4, <1>5

\* Every step keeps clnt_cnt equal to the number of clients being served.
LEMMA CountStep ==
  ASSUME IInv, [Next]_vars
  PROVE  CountInv'
<1> USE ChatAssumption DEF IInv, TypeOK, TypeProcess, TypeThreads, Threads
<1>0. IsFiniteSet(Serving) /\ Cardinality(Serving) = clnt_cnt
  BY ServingBound DEF CountInv
<1>s. ASSUME Serving' = Serving, clnt_cnt' = clnt_cnt
      PROVE  CountInv'
  BY <1>s, <1>0 DEF CountInv
<1>1. CASE Accept
  <2>1. Serving' = Serving
    BY <1>1 DEF Accept, AcceptOk, AcceptFails, Serving, threads
  <2>2. QED
    BY <2>1, <1>1, <1>s DEF Accept, shared
<1>2. CASE MainLock
  BY <1>2, <1>s DEF MainLock, Serving, threads, shared
<1>3. CASE Register
  <2>1. accepts \in Threads /\ pc[accepts] = "none"
    BY <1>3 DEF Register, ControlInv
  <2>2. Serving' = Serving \cup {accepts} /\ accepts \notin Serving
    BY <1>3, <2>1 DEF Register, Serving, threads
  <2>3. Cardinality(Serving') = Cardinality(Serving) + 1
    BY <2>2, <1>0, FS_AddElement
  <2>4. QED
    BY <2>3, <1>0, <1>3 DEF CountInv, Register, CountAfterAdding
<1>4. CASE Create
  BY <1>4, <1>s DEF Create, Transition, Serving, shared
<1>5. ASSUME NEW t \in Threads, ThreadStep(t)
      PROVE  CountInv'
  <2>1. CASE Start(t)
    BY <2>1, <1>s DEF Start, Transition, Serving, shared
  <2>2. CASE ReadCall(t)
    BY <2>2, <1>s DEF ReadCall, Transition, Serving, shared
  <2>3. CASE ReadReturn(t)
    BY <2>3, <1>s DEF ReadReturn, Transition, Serving, shared
  <2>4. CASE SendLock(t)
    BY <2>4, <1>s DEF SendLock, Transition, Serving, shared
  <2>5. CASE SendOne(t)
    BY <2>5, <1>s DEF SendOne, Serving, shared
  <2>6. CASE SendUnlock(t)
    BY <2>6, <1>s DEF SendUnlock, Transition, Serving, shared
  <2>7. CASE RemoveLock(t)
    BY <2>7, <1>s DEF RemoveLock, Transition, Serving, shared
  <2>8. CASE Remove(t)
    <3>1. t \in Serving
      BY <2>8 DEF Remove, Transition, ControlInv, Serving
    <3>2. Serving' = Serving \ {t}
      BY <2>8 DEF Remove, Transition, Serving
    <3>3. Cardinality(Serving') = Cardinality(Serving) - 1
      BY <3>1, <3>2, <1>0, FS_RemoveElement
    <3>4. QED
      BY <3>3, <1>0, <2>8 DEF CountInv, Remove, CountAfterRemoval
  <2>9. CASE Close(t)
    BY <2>9, <1>s DEF Close, Transition, Serving, shared
  <2>10. QED
    BY <1>5, <2>1, <2>2, <2>3, <2>4, <2>5, <2>6, <2>7, <2>8, <2>9 DEF ThreadStep
<1>6. ASSUME NEW c \in Conns, ClientSend(c) \/ ClientRecv(c) \/ ClientLeave(c)
      PROVE  CountInv'
  <2>1. UNCHANGED <<accepts, pcM, threads, shared>>
    BY <1>6 DEF ClientSend, ClientRecv, ClientLeave
  <2>2. QED
    BY <2>1, <1>s DEF Serving, threads, shared
<1>7. CASE UNCHANGED vars
  BY <1>7, <1>s DEF vars, Serving, threads, shared
<1>8. QED
  BY <1>1, <1>2, <1>3, <1>4, <1>5, <1>6, <1>7 DEF Next, MainStep, Resting

-----------------------------------------------------------------------------
(* Types, the mutex and the control of main and the handlers. *)

\* Every step keeps mutx with exactly the thread in its critical section.
LEMMA LockStep ==
  ASSUME IInv, [Next]_vars
  PROVE  LockInv'
<1> USE ChatAssumption DEF IInv, TypeOK, TypeThreads, LockInv, Threads, Main, Free
<1>1. CASE Accept
  BY <1>1 DEF Accept, threads
<1>2. CASE MainLock
  BY <1>2 DEF MainLock, Acquire, threads
<1>3. CASE Register
  BY <1>3 DEF Register, Release, threads
<1>4. CASE Create
  BY <1>4 DEF Create, Transition
<1>5. ASSUME NEW t \in Threads, ThreadStep(t)
      PROVE  LockInv'
  <2>1. CASE Start(t)
    BY <2>1 DEF Start, Transition
  <2>2. CASE ReadCall(t)
    BY <2>2 DEF ReadCall, Transition
  <2>3. CASE ReadReturn(t)
    BY <2>3 DEF ReadReturn, Transition
  <2>4. CASE SendLock(t)
    BY <2>4 DEF SendLock, Acquire, Transition
  <2>5. CASE SendOne(t)
    BY <2>5 DEF SendOne
  <2>6. CASE SendUnlock(t)
    BY <2>6 DEF SendUnlock, Release, Transition
  <2>7. CASE RemoveLock(t)
    BY <2>7 DEF RemoveLock, Acquire, Transition
  <2>8. CASE Remove(t)
    BY <2>8 DEF Remove, Release, Transition
  <2>9. CASE Close(t)
    BY <2>9 DEF Close, Transition
  <2>10. QED
    BY <1>5, <2>1, <2>2, <2>3, <2>4, <2>5, <2>6, <2>7, <2>8, <2>9 DEF ThreadStep
<1>6. ASSUME NEW c \in Conns, ClientSend(c) \/ ClientRecv(c) \/ ClientLeave(c)
      PROVE  LockInv'
  BY <1>6 DEF ClientSend, ClientRecv, ClientLeave, threads
<1>7. CASE UNCHANGED vars
  BY <1>7 DEF vars, threads
<1>8. QED
  BY <1>1, <1>2, <1>3, <1>4, <1>5, <1>6, <1>7 DEF Next, MainStep, Resting

\* Every step keeps threads and accepts in step.
LEMMA ControlStep ==
  ASSUME IInv, [Next]_vars
  PROVE  ControlInv'
<1> USE ChatAssumption DEF IInv, TypeOK, TypeProcess, TypeThreads, ControlInv, Threads
<1>1. CASE Accept
  BY <1>1 DEF Accept, threads
<1>2. CASE MainLock
  BY <1>2 DEF MainLock, threads
<1>3. CASE Register
  BY <1>3 DEF Register, threads
<1>4. CASE Create
  BY <1>4 DEF Create, Transition
<1>5. ASSUME NEW t \in Threads, ThreadStep(t)
      PROVE  ControlInv'
  <2>1. CASE Start(t)
    BY <2>1 DEF Start, Transition
  <2>2. CASE ReadCall(t)
    BY <2>2 DEF ReadCall, Transition
  <2>3. CASE ReadReturn(t)
    <3>1. /\ pc[t] = "reading"
          /\ \E to \in {"send_lock", "remove_lock"} : pc' = [pc EXCEPT ![t] = to]
          /\ file' = [file EXCEPT ![t] = NoConn]
          /\ UNCHANGED <<accepts, pcM>>
      BY <2>3 DEF ReadReturn, Transition
    <3>2. QED
      BY <3>1
  <2>4. CASE SendLock(t)
    BY <2>4 DEF SendLock, Transition
  <2>5. CASE SendOne(t)
    BY <2>5 DEF SendOne
  <2>6. CASE SendUnlock(t)
    BY <2>6 DEF SendUnlock, Transition
  <2>7. CASE RemoveLock(t)
    BY <2>7 DEF RemoveLock, Transition
  <2>8. CASE Remove(t)
    BY <2>8 DEF Remove, Transition
  <2>9. CASE Close(t)
    BY <2>9 DEF Close, Transition
  <2>10. QED
    BY <1>5, <2>1, <2>2, <2>3, <2>4, <2>5, <2>6, <2>7, <2>8, <2>9 DEF ThreadStep
<1>6. ASSUME NEW c \in Conns, ClientSend(c) \/ ClientRecv(c) \/ ClientLeave(c)
      PROVE  ControlInv'
  BY <1>6 DEF ClientSend, ClientRecv, ClientLeave, threads
<1>7. CASE UNCHANGED vars
  BY <1>7 DEF vars, threads
<1>8. QED
  BY <1>1, <1>2, <1>3, <1>4, <1>5, <1>6, <1>7 DEF Next, MainStep, Resting

\* Every step keeps the types; clnt_cnt stays in range because it counts the
\* clients being served.
LEMMA TypeStep ==
  ASSUME IInv, [Next]_vars
  PROVE  TypeOK'
<1> USE ChatAssumption DEF IInv, TypeOK, Threads, Conns, Fds, Slots, Main, Free,
        NoConn, BadFd
<1>1. CASE Accept
  <2>1. TypeProcess'
    BY <1>1 DEF Accept, AcceptOk, AcceptFails, TypeProcess, shared
  <2>2. TypeThreads'
    <3>1. UNCHANGED threads
      BY <1>1 DEF Accept
    <3>2. QED
      BY <3>1 DEF TypeThreads, threads
  <2>3. TypeNet'
    <3>1. accepts + 1 \in Conns
      BY <1>1 DEF Accept, TypeProcess
    <3>2. fdtab' \in [Fds -> Conns \cup {NoConn}]
      BY <1>1, <3>1, SMTT(30) DEF Accept, AcceptOk, AcceptFails, TypeNet
    <3>3. conn' \in [Conns -> {"none", "open", "fin", "reset", "dead"}]
      BY <1>1, <3>1 DEF Accept, AcceptOk, AcceptFails, TypeNet
    <3>4. QED
      BY <1>1, <3>2, <3>3 DEF Accept, TypeNet
  <2>4. TypeHist'
    BY <1>1 DEF Accept, TypeHist, hist
  <2>5. QED
    BY <2>1, <2>2, <2>3, <2>4
<1>2. CASE MainLock
  <2>1. TypeProcess'
    BY <1>2 DEF MainLock, Acquire, TypeProcess, shared
  <2>2. TypeThreads'
    BY <1>2 DEF MainLock, Acquire, TypeThreads, threads
  <2>3. TypeNet'
    BY <1>2 DEF MainLock, Acquire, TypeNet, net
  <2>4. TypeHist'
    BY <1>2 DEF MainLock, Acquire, TypeHist, hist
  <2>5. QED
    BY <2>1, <2>2, <2>3, <2>4
<1>3. CASE Register
  <2>0. clnt_cnt <= accepts - 1
    <3>1. accepts \in 1..MaxAccepts /\ accepts \notin Serving
      BY <1>3 DEF Register, ControlInv, Serving, TypeProcess
    <3>2. Serving \in SUBSET (1..(accepts - 1))
      BY <3>1 DEF Serving
    <3>3. IsFiniteSet(1..(accepts - 1)) /\ Cardinality(1..(accepts - 1)) = accepts - 1
      BY <3>1, FS_Interval
    <3>4. Cardinality(Serving) <= accepts - 1
      BY <3>2, <3>3, FS_Subset
    <3>5. QED
      BY <3>4 DEF CountInv
  <2>1. TypeProcess'
    BY <1>3, <2>0 DEF Register, Release, CountAfterAdding, TypeProcess, shared
  <2>2. TypeThreads'
    BY <1>3 DEF Register, Release, CountAfterAdding, TypeThreads, threads
  <2>3. TypeNet'
    BY <1>3 DEF Register, Release, CountAfterAdding, TypeNet, net
  <2>4. TypeHist'
    BY <1>3 DEF Register, Release, CountAfterAdding, TypeHist, hist
  <2>5. QED
    BY <2>1, <2>2, <2>3, <2>4
<1>4. CASE Create
  <2>1. TypeProcess'
    BY <1>4 DEF Create, Transition, TypeProcess, shared
  <2>2. TypeThreads'
    BY <1>4 DEF Create, Transition, TypeThreads, threads
  <2>3. TypeNet'
    BY <1>4 DEF Create, Transition, TypeNet, net
  <2>4. TypeHist'
    BY <1>4 DEF Create, Transition, TypeHist, hist
  <2>5. QED
    BY <2>1, <2>2, <2>3, <2>4
<1>5. ASSUME NEW t \in Threads, ThreadStep(t)
      PROVE  TypeOK'
  <2>1. CASE Start(t)
    <3>1. TypeProcess'
      BY <2>1 DEF Start, Transition, TypeProcess, shared
    <3>2. TypeThreads'
      BY <2>1 DEF Start, Transition, TypeProcess, TypeThreads
    <3>3. TypeNet'
      BY <2>1 DEF Start, Transition, TypeNet, net
    <3>4. TypeHist'
      BY <2>1 DEF Start, Transition, TypeHist, hist
    <3>5. QED
      BY <3>1, <3>2, <3>3, <3>4
  <2>2. CASE ReadCall(t)
    <3>1. TypeProcess'
      BY <2>2 DEF ReadCall, Transition, ConnOf, TypeProcess, shared
    <3>2. TypeThreads'
      <4>1. \E p \in {"reading", "send_lock"} : pc' = [pc EXCEPT ![t] = p]
        BY <2>2 DEF ReadCall, Transition
      <4>2. ConnOf(sock[t]) \in Conns \cup {NoConn}
        BY DEF ConnOf, TypeNet
      <4>3. \E c \in Conns \cup {NoConn} : file' = [file EXCEPT ![t] = c] \/ file' = file
        BY <2>2, <4>2 DEF ReadCall
      <4>4. str_len' = [str_len EXCEPT ![t] = -1] \/ str_len' = str_len
        BY <2>2 DEF ReadCall
      <4>5. UNCHANGED <<sock, i>>
        BY <2>2 DEF ReadCall
      <4>6. QED
        BY <4>1, <4>3, <4>4, <4>5, SMTT(30) DEF TypeThreads
    <3>3. TypeNet'
      BY <2>2 DEF ReadCall, Transition, ConnOf, TypeNet, net
    <3>4. TypeHist'
      BY <2>2 DEF ReadCall, Transition, ConnOf, TypeHist, hist
    <3>5. QED
      BY <3>1, <3>2, <3>3, <3>4
  <2>3. CASE ReadReturn(t)
    <3>0. file[t] \in Conns
      BY <2>3 DEF ReadReturn, ControlInv, TypeThreads
    <3>1. TypeProcess'
      BY <2>3 DEF ReadReturn, Transition, TypeProcess, shared
    <3>2. TypeThreads'
      <4>1. \E p \in {"send_lock", "remove_lock"} : pc' = [pc EXCEPT ![t] = p]
        BY <2>3 DEF ReadReturn, Transition
      <4>2. \E n \in {-1, 0, 1} : str_len' = [str_len EXCEPT ![t] = n]
        BY <2>3 DEF ReadReturn
      <4>3. file' = [file EXCEPT ![t] = NoConn] /\ UNCHANGED <<sock, i>>
        BY <2>3 DEF ReadReturn
      <4>4. QED
        BY <4>1, <4>2, <4>3 DEF TypeThreads
    <3>3. TypeNet'
      <4>0. pending \in [Conns -> Nat]
        BY DEF TypeNet
      <4>1. pending' \in [Conns -> Nat]
        <5>1. \/ UNCHANGED pending
              \/ \E n \in 1..pending[file[t]] :
                   pending' = [pending EXCEPT ![file[t]] = @ - n]
          BY <2>3 DEF ReadReturn
        <5>2. ASSUME NEW n \in 1..pending[file[t]],
                     pending' = [pending EXCEPT ![file[t]] = @ - n]
              PROVE  pending' \in [Conns -> Nat]
          <6>1. pending[file[t]] - n \in Nat
            BY <3>0, <4>0
          <6>2. QED
            BY <3>0, <4>0, <5>2, <6>1
        <5>3. QED
          BY <4>0, <5>1, <5>2
      <4>2. conn' \in [Conns -> {"none", "open", "fin", "reset", "dead"}]
        <5>1. conn' = conn \/ conn' = [conn EXCEPT ![file[t]] = AfterReset]
          BY <2>3 DEF ReadReturn
        <5>2. AfterReset \in {"reset", "dead"}
          BY DEF AfterReset
        <5>3. QED
          BY <3>0, <5>1, <5>2 DEF TypeNet
      <4>3. QED
        BY <2>3, <4>1, <4>2 DEF ReadReturn, TypeNet
    <3>4. TypeHist'
      BY <2>3 DEF ReadReturn, Transition, TypeHist, hist
    <3>5. QED
      BY <3>1, <3>2, <3>3, <3>4
  <2>4. CASE SendLock(t)
    <3>0. \A k \in 0..clnt_cnt - 1 : ConnOf(clnt_socks[k]) \in Conns \cup {NoConn}
      BY DEF ConnOf, TypeProcess, TypeNet
    <3>1. TypeProcess'
      BY <2>4 DEF SendLock, Acquire, Transition, TypeProcess, shared
    <3>2. TypeThreads'
      BY <2>4 DEF SendLock, Acquire, Transition, TypeThreads, threads
    <3>3. TypeNet'
      BY <2>4 DEF SendLock, Acquire, Transition, TypeNet, net
    <3>4. TypeHist'
      <4>0. bcasts' \in Nat
        <5>1. bcasts' = bcasts \/ bcasts' = bcasts + 1
          BY <2>4 DEF SendLock, TypeHist
        <5>2. QED
          BY <5>1 DEF TypeHist
      <4>1. bid' \in [Threads -> Nat] /\ UNCHANGED inbox
        BY <2>4, <4>0 DEF SendLock, TypeHist
      <4>2. audience' \subseteq Conns
        BY <2>4, <3>0 DEF SendLock, Registered
      <4>3. QED
        BY <4>0, <4>1, <4>2 DEF TypeHist
    <3>5. QED
      BY <3>1, <3>2, <3>3, <3>4
  <2>5. CASE SendOne(t)
    <3> DEFINE c == ConnOf(clnt_socks[i[t]])
    <3>a. i[t] \in 0..clnt_cnt - 1 /\ Write(c, bid[t])
      BY <2>5 DEF SendOne, SendEnd, TypeProcess, TypeThreads
    <3>b. c \in Conns \cup {NoConn}
      BY <3>a DEF ConnOf, TypeProcess, TypeNet
    <3> HIDE DEF c
    <3>1. TypeProcess'
      BY <2>5, <3>a DEF SendOne, Write, TypeProcess, shared
    <3>2. TypeThreads'
      BY <2>5, <3>a DEF SendOne, TypeProcess, TypeThreads, threads
    <3>3. TypeNet'
      <4>1. unread' \in [Conns -> Nat]
        <5>1. CASE UNCHANGED unread
          BY <5>1 DEF TypeNet
        <5>2. CASE c \in Conns /\ unread' = [unread EXCEPT ![c] = @ + 1]
          <6>1. unread[c] + 1 \in Nat
            BY <5>2 DEF TypeNet
          <6>2. QED
            BY <5>2, <6>1 DEF TypeNet
        <5>3. QED
          BY <3>a, <3>b, <5>1, <5>2 DEF Write
      <4>2. conn' \in [Conns -> {"none", "open", "fin", "reset", "dead"}]
        <5>1. \/ UNCHANGED conn
              \/ \E s \in {"fin", "reset", "dead"} : conn' = [conn EXCEPT ![c] = s]
          BY <3>a DEF Write, AfterReset
        <5>2. ASSUME NEW s \in {"fin", "reset", "dead"}, conn' = [conn EXCEPT ![c] = s]
              PROVE  conn' \in [Conns -> {"none", "open", "fin", "reset", "dead"}]
          BY <5>2 DEF TypeNet
        <5>3. QED
          BY <5>1, <5>2 DEF TypeNet
      <4>3. QED
        BY <2>5, <4>1, <4>2 DEF SendOne, TypeNet
    <3>4. TypeHist'
      <4>1. inbox' \in [Conns -> Seq(Nat)]
        <5>1. CASE UNCHANGED inbox
          BY <5>1 DEF TypeHist
        <5>2. CASE c \in Conns /\ inbox' = [inbox EXCEPT ![c] = Append(@, bid[t])]
          <6>1. Append(inbox[c], bid[t]) \in Seq(Nat)
            BY <5>2 DEF TypeHist
          <6>2. QED
            BY <5>2, <6>1 DEF TypeHist
        <5>3. QED
          BY <3>a, <3>b, <5>1, <5>2 DEF Write
      <4>2. QED
        BY <2>5, <4>1 DEF SendOne, TypeHist
    <3>5. QED
      BY <3>1, <3>2, <3>3, <3>4
  <2>6. CASE SendUnlock(t)
    <3>1. TypeProcess'
      BY <2>6 DEF SendUnlock, Release, Transition, TypeProcess, shared
    <3>2. TypeThreads'
      BY <2>6 DEF SendUnlock, Release, Transition, TypeThreads, threads
    <3>3. TypeNet'
      BY <2>6 DEF SendUnlock, Release, Transition, TypeNet, net
    <3>4. TypeHist'
      BY <2>6 DEF SendUnlock, Release, Transition, TypeHist, hist
    <3>5. QED
      BY <3>1, <3>2, <3>3, <3>4
  <2>7. CASE RemoveLock(t)
    <3>1. TypeProcess'
      BY <2>7 DEF RemoveLock, Acquire, Transition, TypeProcess, shared
    <3>2. TypeThreads'
      BY <2>7 DEF RemoveLock, Acquire, Transition, TypeThreads, threads
    <3>3. TypeNet'
      BY <2>7 DEF RemoveLock, Acquire, Transition, TypeNet, net
    <3>4. TypeHist'
      BY <2>7 DEF RemoveLock, Acquire, Transition, TypeHist, hist
    <3>5. QED
      BY <3>1, <3>2, <3>3, <3>4
  <2>8. CASE Remove(t)
    <3>a. t \in Serving
      BY <2>8 DEF Remove, Transition, ControlInv, Serving, TypeThreads, TypeProcess
    <3>b. clnt_cnt # 0
      BY <3>a, ServingBound, FS_EmptySet DEF CountInv
    <3>c. AfterRemoval(sock[t]) \in [Slots -> Fds \cup {0, BadFd}]
      BY DEF AfterRemoval, TypeProcess
    <3>1. TypeProcess'
      BY <2>8, <3>b, <3>c DEF Remove, Release, Transition, CountAfterRemoval, TypeProcess, shared
    <3>2. TypeThreads'
      BY <2>8 DEF Remove, Release, Transition, CountAfterRemoval, TypeThreads, threads
    <3>3. TypeNet'
      BY <2>8 DEF Remove, Release, Transition, CountAfterRemoval, TypeNet, net
    <3>4. TypeHist'
      BY <2>8 DEF Remove, Release, Transition, CountAfterRemoval, TypeHist, hist
    <3>5. QED
      BY <3>1, <3>2, <3>3, <3>4
  <2>9. CASE Close(t)
    <3>1. TypeProcess'
      BY <2>9 DEF Close, Transition, TypeProcess, shared
    <3>2. TypeThreads'
      BY <2>9 DEF Close, Transition, TypeThreads, threads
    <3>3. TypeNet'
      BY <2>9 DEF Close, Freed, NothingFreed, Transition, TypeNet, net
    <3>4. TypeHist'
      BY <2>9 DEF Close, Transition, TypeHist, hist
    <3>5. QED
      BY <3>1, <3>2, <3>3, <3>4
  <2>10. QED
    BY <1>5, <2>1, <2>2, <2>3, <2>4, <2>5, <2>6, <2>7, <2>8, <2>9 DEF ThreadStep
<1>6. ASSUME NEW c \in Conns, ClientSend(c) \/ ClientRecv(c) \/ ClientLeave(c)
      PROVE  TypeOK'
  <2>1. TypeProcess'
    BY <1>6 DEF ClientSend, ClientRecv, ClientLeave, TypeProcess, shared
  <2>2. TypeThreads'
    <3>1. UNCHANGED threads
      BY <1>6 DEF ClientSend, ClientRecv, ClientLeave
    <3>2. QED
      BY <3>1 DEF TypeThreads, threads
  <2>3. TypeNet'
    <3>1. CASE ClientSend(c)
      <4>1. /\ sends' = sends + 1 /\ sends < MaxSends
            /\ pending' = [pending EXCEPT ![c] = pending[c] + 1]
            /\ UNCHANGED <<fdtab, conn, unread>>
        BY <3>1 DEF ClientSend
      <4>2. QED
        BY <4>1 DEF TypeNet
    <3>2. CASE ClientRecv(c)
      <4>1. /\ unread' = [unread EXCEPT ![c] = unread[c] - 1] /\ unread[c] > 0
            /\ UNCHANGED <<fdtab, conn, pending, sends>>
        BY <3>2 DEF ClientRecv
      <4>2. QED
        BY <4>1 DEF TypeNet
    <3>3. CASE ClientLeave(c)
      <4>1. \E x \in {"fin", "reset"} : conn' = [conn EXCEPT ![c] = x]
        BY <3>3 DEF ClientLeave
      <4>2. unread' = [unread EXCEPT ![c] = 0] /\ UNCHANGED <<fdtab, pending, sends>>
        BY <3>3 DEF ClientLeave
      <4>3. QED
        BY <4>1, <4>2 DEF TypeNet
    <3>4. QED
      BY <1>6, <3>1, <3>2, <3>3
  <2>4. TypeHist'
    <3>1. UNCHANGED hist
      BY <1>6 DEF ClientSend, ClientRecv, ClientLeave
    <3>2. QED
      BY <3>1 DEF TypeHist, hist
  <2>5. QED
    BY <2>1, <2>2, <2>3, <2>4
<1>7. CASE UNCHANGED vars
  BY <1>7 DEF vars, shared, threads, net, hist, TypeProcess, TypeThreads, TypeNet, TypeHist
<1>8. QED
  BY <1>1, <1>2, <1>3, <1>4, <1>5, <1>6, <1>7 DEF Next, MainStep, Resting

-----------------------------------------------------------------------------
(* The order of the broadcasts. *)

\* A step that begins no broadcast and writes to no inbox keeps the order.
LEMMA OrderFrame ==
  ASSUME OrderInv, UNCHANGED <<bcasts, bid, inbox>>,
         \A t \in Threads : pc'[t] = "send" => pc[t] = "send"
  PROVE  OrderInv'
BY DEF OrderInv

\* Every step keeps the inboxes in the order in which the broadcasts were begun:
\* only the holder of mutx writes, and what it writes is the latest broadcast.
LEMMA OrderStep ==
  ASSUME IInv, [Next]_vars
  PROVE  OrderInv'
<1> USE ChatAssumption DEF IInv, TypeOK, Threads
<1>1. CASE Accept
  BY <1>1, OrderFrame DEF Accept, threads, hist
<1>2. CASE MainStep
  BY <1>2, OrderFrame DEF MainStep, MainLock, Register, Create, Transition, threads,
     hist, TypeThreads
<1>3. ASSUME NEW t \in Threads, ThreadStep(t)
      PROVE  OrderInv'
  <2>1. CASE Start(t) \/ ReadCall(t)
    BY <2>1, OrderFrame DEF Start, ReadCall, Transition, hist, TypeThreads
  <2>2. CASE ReadReturn(t)
    <3>1. UNCHANGED <<bcasts, bid, inbox>>
      BY <2>2 DEF ReadReturn, hist
    <3>2. pc' = [pc EXCEPT ![t] = "send_lock"] \/ pc' = [pc EXCEPT ![t] = "remove_lock"]
      BY <2>2 DEF ReadReturn, Transition
    <3>3. QED
      BY <3>1, <3>2, OrderFrame DEF TypeThreads
  <2>3. CASE RemoveLock(t) \/ Remove(t)
    BY <2>3, OrderFrame DEF RemoveLock, Remove, Transition, hist, TypeThreads
  <2>4. CASE Close(t)
    BY <2>4, OrderFrame DEF Close, Transition, hist, TypeThreads
  <2>5. CASE SendLock(t)
    <3>1. \A u \in Threads : pc[u] # "send"
      BY <2>5 DEF SendLock, Acquire, LockInv, Free
    <3>2. bcasts' \in Nat /\ bcasts' >= bcasts /\ UNCHANGED inbox
      <4>1. bcasts' = bcasts \/ bcasts' = bcasts + 1
        BY <2>5 DEF SendLock, TypeHist
      <4>2. QED
        BY <2>5, <4>1 DEF SendLock, TypeHist
    <3>3. \A u \in Threads : pc'[u] = "send" => bid'[u] = bcasts'
      BY <2>5, <3>1 DEF SendLock, Transition, TypeThreads, TypeHist
    <3>4. ASSUME NEW c \in Conns, NEW j \in DOMAIN inbox[c]
          PROVE  inbox[c][j] <= bcasts'
      <4>1. inbox[c][j] \in Nat
        BY DEF TypeHist
      <4>2. QED
        BY <4>1, <3>2 DEF OrderInv, TypeHist
    <3>5. QED
      BY <3>2, <3>3, <3>4 DEF OrderInv
  <2>6. CASE SendOne(t)
    <3> DEFINE c == ConnOf(clnt_socks[i[t]])
    <3>1. UNCHANGED <<pc, bid, bcasts>> /\ bid[t] = bcasts /\ bcasts \in Nat
      BY <2>6 DEF SendOne, OrderInv, TypeHist
    <3>2. \/ UNCHANGED inbox
          \/ c \in Conns /\ inbox' = [inbox EXCEPT ![c] = Append(@, bcasts)]
      <4>1. Write(c, bcasts)
        BY <2>6, <3>1 DEF SendOne
      <4>2. c \in Conns \cup {NoConn}
        BY <2>6 DEF SendOne, SendEnd, ConnOf, TypeProcess, TypeThreads, TypeNet
      <4> HIDE DEF c
      <4>3. QED
        BY <4>1, <4>2 DEF Write
    <3>3. CASE UNCHANGED inbox
      BY <3>1, <3>3 DEF OrderInv
    <3>4. CASE c \in Conns /\ inbox' = [inbox EXCEPT ![c] = Append(@, bcasts)]
      <4> HIDE DEF c
      <4>1. inbox[c] \in Seq(Nat) /\ inbox'[c] = Append(inbox[c], bcasts)
        BY <3>4 DEF TypeHist
      <4>2. \A d \in Conns : d # c => inbox'[d] = inbox[d]
        BY <3>4 DEF TypeHist
      <4>3. /\ DOMAIN inbox'[c] = 1..(Len(inbox[c]) + 1)
            /\ DOMAIN inbox[c] = 1..Len(inbox[c])
            /\ Len(inbox[c]) \in Nat
            /\ \A j \in 1..Len(inbox[c]) : inbox'[c][j] = inbox[c][j]
            /\ inbox'[c][Len(inbox[c]) + 1] = bcasts
        BY <4>1
      <4>4. ASSUME NEW d \in Conns, NEW j \in DOMAIN inbox'[d]
            PROVE  /\ inbox'[d][j] <= bcasts
                   /\ \A k \in DOMAIN inbox'[d] : j < k => inbox'[d][j] <= inbox'[d][k]
        <5>1. CASE d # c
          BY <4>2, <5>1 DEF OrderInv
        <5>2. CASE d = c
          BY <3>1, <3>4, <4>3, <5>2 DEF OrderInv
        <5>3. QED
          BY <5>1, <5>2
      <4>5. QED
        BY <3>1, <4>4 DEF OrderInv
    <3>5. QED
      BY <3>2, <3>3, <3>4
  <2>7. CASE SendUnlock(t)
    <3>1. \A u \in Threads : pc[u] = "send" => u = t
      BY <2>7 DEF SendUnlock, Transition, LockInv
    <3>2. QED
      BY <2>7, <3>1 DEF SendUnlock, Transition, OrderInv, TypeThreads
  <2>8. QED
    BY <1>3, <2>1, <2>2, <2>3, <2>4, <2>5, <2>6, <2>7 DEF ThreadStep
<1>4. ASSUME NEW c \in Conns, ClientSend(c) \/ ClientRecv(c) \/ ClientLeave(c)
      PROVE  OrderInv'
  <2>1. UNCHANGED <<threads, hist>>
    BY <1>4 DEF ClientSend, ClientRecv, ClientLeave
  <2>2. QED
    BY <2>1, OrderFrame DEF threads, hist
<1>5. CASE UNCHANGED vars
  BY <1>5, OrderFrame DEF vars, threads, hist
<1>6. QED
  BY <1>1, <1>2, <1>3, <1>4, <1>5 DEF Next, Resting

-----------------------------------------------------------------------------
(* Whom a broadcast reaches. *)

\* An open descriptor names an accepted connection, which no other names.
NamesInv ==
  /\ \A f \in Fds : fdtab[f] \in 0..accepts
  /\ \A f, g \in Fds : f # g /\ fdtab[f] = fdtab[g] => fdtab[f] = NoConn
  /\ audience \subseteq 1..accepts

Connected(c)  == conn[c] = "open" /\ \E f \in Fds : fdtab[f] = c
Written(t, c) == \E k \in DOMAIN inbox[c] : inbox[c][k] = bid[t]
Ahead(t, c)   == \E k \in Slots : i[t] <= k /\ k < clnt_cnt /\ ConnOf(clnt_socks[k]) = c

\* In the middle of a broadcast, a client of the audience that is still connected
\* has been written to, or the loop still has an entry that names it ahead.
AudienceInv ==
  \A t \in Threads : pc[t] = "send" /\ str_len[t] = 1 =>
    \A c \in audience : Connected(c) => Written(t, c) \/ Ahead(t, c)

ReachInv == NamesInv /\ AudienceInv

LEMMA ReachInit == Init => ReachInv
BY ChatAssumption DEF Init, ReachInv, NamesInv, AudienceInv, NoConn, Threads

\* Every step keeps the descriptors apart: accept takes a free number for a new
\* connection, close gives one up.
LEMMA NamesStep ==
  ASSUME IInv, NamesInv, [Next]_vars
  PROVE  NamesInv'
<1> USE ChatAssumption DEF NamesInv, NoConn
<1>1. accepts \in 0..MaxAccepts /\ fdtab \in [Fds -> Conns \cup {NoConn}]
  BY DEF IInv, TypeOK, TypeProcess, TypeNet
<1>2. CASE Accept
  <2>1. accepts' = accepts + 1 /\ audience' = audience
    BY <1>2 DEF Accept, hist
  <2>2. CASE UNCHANGED fdtab
    BY <1>1, <2>1, <2>2
  <2>3. ASSUME NEW f \in Fds, fdtab[f] = NoConn, fdtab' = [fdtab EXCEPT ![f] = accepts + 1]
        PROVE  NamesInv'
    <3>1. \A g \in Fds : fdtab'[g] = IF g = f THEN accepts + 1 ELSE fdtab[g]
      BY <1>1, <2>3
    <3>2. QED
      BY <1>1, <2>1, <3>1
  <2>4. QED
    BY <1>2, <2>2, <2>3 DEF Accept, AcceptOk, AcceptFails
<1>3. CASE MainStep
  BY <1>3 DEF MainStep, MainLock, Register, Create, net, hist
<1>4. ASSUME NEW t \in Threads, ThreadStep(t)
      PROVE  NamesInv'
  <2>1. CASE SendLock(t)
    <3>1. audience' = {ConnOf(f) : f \in Registered} \ {NoConn}
      BY <2>1 DEF SendLock
    <3>2. \A f : ConnOf(f) \in 0..accepts
      BY <1>1 DEF ConnOf
    <3>3. audience' \subseteq 1..accepts
      BY <1>1, <3>1, <3>2
    <3>4. QED
      BY <2>1, <3>3 DEF SendLock, net
  <2>2. CASE SendUnlock(t)
    BY <2>2 DEF SendUnlock, net
  <2>3. CASE Close(t)
    <3>1. \A f \in Fds : fdtab'[f] \in {fdtab[f], NoConn}
      BY <2>3 DEF Close, NothingFreed, Freed
    <3>2. UNCHANGED <<accepts, audience>>
      BY <2>3 DEF Close, hist
    <3>3. QED
      BY <1>1, <3>1, <3>2
  <2>4. CASE ~SendLock(t) /\ ~SendUnlock(t) /\ ~Close(t)
    <3>1. UNCHANGED <<accepts, audience, fdtab>>
      BY <1>4, <2>4 DEF ThreadStep, Start, ReadCall, ReadReturn, SendOne, RemoveLock,
         Remove, net, hist
    <3>2. QED
      BY <3>1
  <2>5. QED
    BY <2>1, <2>2, <2>3, <2>4
<1>5. ASSUME NEW c \in Conns, ClientSend(c) \/ ClientRecv(c) \/ ClientLeave(c)
      PROVE  NamesInv'
  BY <1>5 DEF ClientSend, ClientRecv, ClientLeave, hist
<1>6. CASE UNCHANGED vars
  BY <1>6 DEF vars, net, hist
<1>7. QED
  BY <1>2, <1>3, <1>4, <1>5, <1>6 DEF Next, Resting

\* A step outside send_msg, that connects nobody and leaves the array alone, owes
\* nobody a message more.
LEMMA AudienceFrame ==
  ASSUME TypeOK, AudienceInv,
         UNCHANGED <<clnt_cnt, clnt_socks, bid, audience, inbox, fdtab>>,
         \A t \in Threads : pc'[t] = "send" =>
           pc[t] = "send" /\ str_len'[t] = str_len[t] /\ i'[t] = i[t],
         \A c \in Conns : conn'[c] = "open" => conn[c] = "open"
  PROVE  AudienceInv'
<1> SUFFICES ASSUME NEW t \in Threads, pc'[t] = "send", str_len'[t] = 1,
                    NEW c \in audience', Connected(c)'
             PROVE  Written(t, c)' \/ Ahead(t, c)'
  BY DEF AudienceInv
<1>1. pc[t] = "send" /\ str_len[t] = 1 /\ c \in audience
  OBVIOUS
<1>2. c \in Conns
  BY <1>1 DEF TypeOK, TypeHist
<1>3. Connected(c)
  BY <1>2 DEF Connected
<1>4. Written(t, c) \/ Ahead(t, c)
  BY <1>1, <1>3 DEF AudienceInv
<1>5. Written(t, c) => Written(t, c)'
  BY DEF Written
<1>6. Ahead(t, c) => Ahead(t, c)'
  BY DEF Ahead, ConnOf
<1>7. QED
  BY <1>4, <1>5, <1>6

\* When no thread is inside send_msg, nobody is owed a message.
LEMMA NobodySends ==
  ASSUME \A t \in Threads : pc'[t] # "send"
  PROVE  AudienceInv'
BY DEF AudienceInv

\* A descriptor of a connection that stays the same: an entry that names it still
\* does after a step that opens or closes other descriptors.
LEMMA StillAhead ==
  ASSUME TypeOK, NEW t \in Threads, NEW c, c # NoConn, Ahead(t, c),
         UNCHANGED <<clnt_cnt, clnt_socks>>, i'[t] = i[t],
         \A f \in Fds : fdtab[f] = c => fdtab'[f] = c
  PROVE  Ahead(t, c)'
BY DEF Ahead, ConnOf

\* Every step keeps the promise to the audience of the broadcast under way.
LEMMA AudienceStep ==
  ASSUME IInv, ReachInv, [Next]_vars
  PROVE  AudienceInv'
<1>0. TypeOK /\ NamesInv /\ AudienceInv /\ LockInv
  BY DEF IInv, ReachInv
<1> USE ChatAssumption DEF Threads, Main, Free
<1>1. CASE Accept
  <2>1. UNCHANGED <<clnt_cnt, clnt_socks, bid, audience, inbox, pc, str_len, i>>
    BY <1>1 DEF Accept, shared, threads, hist
  <2>2. SUFFICES ASSUME NEW t \in Threads, pc[t] = "send", str_len[t] = 1,
                        NEW c \in audience, Connected(c)'
                 PROVE  Written(t, c)' \/ Ahead(t, c)'
    BY <2>1 DEF AudienceInv
  <2>3. c \in 1..accepts /\ accepts \in 0..MaxAccepts /\ c # NoConn /\ c \in Conns
    BY <1>0 DEF NamesInv, TypeOK, TypeProcess, NoConn, Conns
  <2>4. /\ conn'[c] = conn[c]
        /\ \A f \in Fds : fdtab[f] = c <=> fdtab'[f] = c
    <3>1. conn' = conn \/ conn' = [conn EXCEPT ![accepts + 1] = "open"]
      BY <1>1 DEF Accept, AcceptOk, AcceptFails
    <3>2. \/ fdtab' = fdtab
          \/ \E f \in Fds : fdtab[f] = NoConn /\ fdtab' = [fdtab EXCEPT ![f] = accepts + 1]
      BY <1>1 DEF Accept, AcceptOk, AcceptFails
    <3>3. conn'[c] = conn[c]
      BY <1>0, <2>3, <3>1 DEF TypeOK, TypeNet
    <3>4. \A f \in Fds : fdtab[f] = c <=> fdtab'[f] = c
      BY <1>0, <2>3, <3>2 DEF TypeOK, TypeNet
    <3>5. QED
      BY <3>3, <3>4
  <2>5. Written(t, c) \/ Ahead(t, c)
    BY <1>0, <2>2, <2>4 DEF AudienceInv, Connected
  <2>6. Written(t, c) => Written(t, c)'
    BY <2>1 DEF Written
  <2>7. Ahead(t, c) => Ahead(t, c)'
    BY <1>0, <2>1, <2>3, <2>4, StillAhead
  <2>8. QED
    BY <2>5, <2>6, <2>7
<1>2. CASE MainLock
  BY <1>0, <1>2, AudienceFrame DEF MainLock, shared, threads, net, hist
<1>3. CASE Register
  <2>1. \A t \in Threads : pc'[t] # "send"
    BY <1>0, <1>3 DEF Register, LockInv, threads
  <2>2. QED
    BY <2>1, NobodySends
<1>4. CASE Create
  <2>1. UNCHANGED <<clnt_cnt, clnt_socks, bid, audience, inbox, fdtab, conn, str_len, i>>
    BY <1>4 DEF Create, shared, net, hist
  <2>2. \A t \in Threads : pc'[t] = "send" => pc[t] = "send"
    BY <1>0, <1>4 DEF Create, Transition, TypeOK, TypeThreads
  <2>3. QED
    BY <1>0, <2>1, <2>2, AudienceFrame
<1>5. ASSUME NEW t \in Threads, ThreadStep(t)
      PROVE  AudienceInv'
  <2>1. CASE Start(t) \/ RemoveLock(t)
    <3>1. UNCHANGED <<clnt_cnt, clnt_socks, bid, audience, inbox, fdtab, conn, str_len, i>>
      BY <2>1 DEF Start, RemoveLock, shared, net, hist
    <3>2. \A u \in Threads : pc'[u] = "send" => pc[u] = "send"
      BY <1>0, <2>1 DEF Start, RemoveLock, Transition, TypeOK, TypeThreads
    <3>3. QED
      BY <1>0, <3>1, <3>2, AudienceFrame
  <2>2. CASE ReadCall(t) \/ ReadReturn(t)
    <3>1. UNCHANGED <<clnt_cnt, clnt_socks, bid, audience, inbox, fdtab, i>>
      BY <2>2 DEF ReadCall, ReadReturn, shared, net, hist
    <3>2. /\ \E to \in {"reading", "send_lock", "remove_lock"} : pc' = [pc EXCEPT ![t] = to]
          /\ \E n \in {str_len[t], -1, 0, 1} : str_len' = [str_len EXCEPT ![t] = n]
      <4>1. CASE ReadCall(t)
        BY <1>0, <4>1 DEF ReadCall, Transition, TypeOK, TypeThreads
      <4>2. CASE ReadReturn(t)
        BY <1>0, <4>2 DEF ReadReturn, Transition
      <4>3. QED
        BY <2>2, <4>1, <4>2
    <3>3. \A u \in Threads : pc'[u] = "send" => pc[u] = "send" /\ str_len'[u] = str_len[u]
      BY <1>0, <3>2 DEF TypeOK, TypeThreads
    <3>4. \A c \in Conns : conn'[c] = "open" => conn[c] = "open"
      BY <1>0, <2>2 DEF ReadCall, ReadReturn, AfterReset, net, TypeOK, TypeNet
    <3>5. QED
      BY <1>0, <3>1, <3>3, <3>4, AudienceFrame
  <2>3. CASE SendLock(t)
    <3>1. \A u \in Threads : pc[u] # "send"
      BY <1>0, <2>3 DEF SendLock, Acquire, LockInv
    <3>2. \A u \in Threads : pc'[u] = "send" => u = t
      BY <1>0, <2>3, <3>1 DEF SendLock, Transition, TypeOK, TypeThreads
    <3>3. SUFFICES ASSUME NEW c \in audience' PROVE Ahead(t, c)'
      BY <3>2 DEF AudienceInv
    <3>4. \E k \in 0..clnt_cnt - 1 : ConnOf(clnt_socks[k]) = c
      BY <2>3 DEF SendLock, Registered
    <3>5. i'[t] = 0 /\ UNCHANGED <<clnt_cnt, clnt_socks, fdtab>>
      BY <1>0, <2>3 DEF SendLock, shared, net, TypeOK, TypeThreads
    <3>6. clnt_cnt \in 0..MaxAccepts
      BY <1>0 DEF TypeOK, TypeProcess
    <3>7. QED
      BY <3>4, <3>5, <3>6 DEF Ahead, ConnOf, Slots
  <2>4. CASE SendOne(t)
    <3> DEFINE d == ConnOf(clnt_socks[i[t]])
    <3>1. /\ UNCHANGED <<clnt_cnt, clnt_socks, bid, audience, fdtab, pc, str_len>>
          /\ i' = [i EXCEPT ![t] = i[t] + 1]
          /\ pc[t] = "send" /\ i[t] < clnt_cnt /\ Write(d, bid[t])
      BY <2>4 DEF SendOne, SendEnd, shared
    <3>2. \A u \in Threads : pc[u] = "send" => u = t
      BY <1>0, <3>1 DEF LockInv
    <3>3. SUFFICES ASSUME str_len[t] = 1, NEW c \in audience, Connected(c)'
                   PROVE  Written(t, c)' \/ Ahead(t, c)'
      BY <3>1, <3>2 DEF AudienceInv
    <3>4. c \in Conns /\ c # NoConn
      BY <1>0 DEF TypeOK, TypeHist, Conns, NoConn
    <3>5. d \in Conns \cup {NoConn}
      BY <1>0 DEF TypeOK, TypeNet, ConnOf
    <3> HIDE DEF d
    <3>6. /\ inbox' = inbox \/ (d \in Conns /\ inbox' = [inbox EXCEPT ![d] = Append(@, bid[t])])
          /\ conn'[c] = "open" => conn[c] = "open"
          /\ d = c /\ conn'[c] = "open" => inbox' = [inbox EXCEPT ![d] = Append(@, bid[t])]
      <4>1. conn \in [Conns -> {"none", "open", "fin", "reset", "dead"}]
        BY <1>0 DEF TypeOK, TypeNet
      <4>2. AfterReset # "open"
        BY DEF AfterReset
      <4>3. QED
        BY <3>1, <3>4, <3>5, <4>1, <4>2 DEF Write
    <3>7. conn'[c] = "open" /\ Connected(c)
      BY <3>1, <3>3, <3>6 DEF Connected
    <3>8. inbox[c] \in Seq(Nat) /\ bid[t] \in Nat /\ inbox \in [Conns -> Seq(Nat)]
      BY <1>0, <3>4 DEF TypeOK, TypeHist
    <3>9. Written(t, c) => Written(t, c)'
      <4>1. inbox'[c] = inbox[c] \/ inbox'[c] = Append(inbox[c], bid[t])
        BY <3>4, <3>6, <3>8
      <4>2. \A k \in DOMAIN inbox[c] : k \in DOMAIN inbox'[c] /\ inbox'[c][k] = inbox[c][k]
        BY <3>8, <4>1
      <4>3. QED
        BY <3>1, <4>2 DEF Written
    <3>10. CASE d = c
      <4>1. inbox'[c] = Append(inbox[c], bid[t])
        BY <3>4, <3>6, <3>7, <3>8, <3>10
      <4>2. Len(inbox[c]) + 1 \in DOMAIN inbox'[c] /\ inbox'[c][Len(inbox[c]) + 1] = bid[t]
        BY <3>8, <4>1
      <4>3. QED
        BY <3>1, <4>2 DEF Written
    <3>11. CASE d # c
      <4>1. Written(t, c) \/ Ahead(t, c)
        BY <1>0, <3>1, <3>3, <3>7 DEF AudienceInv
      <4>2. ASSUME Ahead(t, c) PROVE Ahead(t, c)'
        <5>1. PICK k \in Slots : i[t] <= k /\ k < clnt_cnt /\ ConnOf(clnt_socks[k]) = c
          BY <4>2 DEF Ahead
        <5>2. k # i[t]
          BY <3>11, <5>1 DEF d
        <5>3. i[t] \in Nat /\ i'[t] = i[t] + 1
          BY <1>0, <3>1 DEF TypeOK, TypeThreads
        <5>4. i'[t] <= k
          BY <5>1, <5>2, <5>3 DEF Slots
        <5>5. QED
          BY <3>1, <5>1, <5>4 DEF Ahead, ConnOf
      <4>3. QED
        BY <3>9, <4>1, <4>2
    <3>12. QED
      BY <3>10, <3>11
  <2>5. CASE SendUnlock(t)
    <3>1. \A u \in Threads : pc'[u] # "send"
      BY <1>0, <2>5 DEF SendUnlock, Transition, LockInv, TypeOK, TypeThreads
    <3>2. QED
      BY <3>1, NobodySends
  <2>6. CASE Remove(t)
    <3>1. \A u \in Threads : pc'[u] # "send"
      BY <1>0, <2>6 DEF Remove, Transition, LockInv, TypeOK, TypeThreads
    <3>2. QED
      BY <3>1, NobodySends
  <2>7. CASE Close(t)
    <3>1. UNCHANGED <<clnt_cnt, clnt_socks, bid, audience, inbox, conn, str_len, i>>
      BY <2>7 DEF Close, shared, hist
    <3>2. \A u \in Threads : pc'[u] = "send" => pc[u] = "send"
      BY <1>0, <2>7 DEF Close, Transition, TypeOK, TypeThreads
    <3>3. SUFFICES ASSUME NEW u \in Threads, pc[u] = "send", str_len[u] = 1,
                          NEW c \in audience, Connected(c)'
                   PROVE  Written(u, c)' \/ Ahead(u, c)'
      BY <3>1, <3>2 DEF AudienceInv
    <3>4. c # NoConn
      BY <1>0 DEF TypeOK, TypeHist, Conns, NoConn
    <3>5. \A f \in Fds : fdtab'[f] \in {fdtab[f], NoConn}
      BY <2>7 DEF Close, NothingFreed, Freed
    <3>6. PICK g \in Fds : fdtab'[g] = c
      BY <3>3 DEF Connected
    <3>7. fdtab[g] = c
      BY <3>4, <3>5, <3>6
    <3>8. \A f \in Fds : fdtab[f] = c => fdtab'[f] = c
      BY <1>0, <3>4, <3>6, <3>7 DEF NamesInv
    <3>9. Connected(c)
      BY <3>1, <3>3, <3>7 DEF Connected
    <3>10. Written(u, c) \/ Ahead(u, c)
      BY <1>0, <3>3, <3>9 DEF AudienceInv
    <3>11. Ahead(u, c) => Ahead(u, c)'
      BY <1>0, <3>1, <3>4, <3>8, StillAhead
    <3>12. Written(u, c) => Written(u, c)'
      BY <3>1 DEF Written
    <3>13. QED
      BY <3>10, <3>11, <3>12
  <2>8. QED
    BY <1>5, <2>1, <2>2, <2>3, <2>4, <2>5, <2>6, <2>7 DEF ThreadStep
<1>6. ASSUME NEW c \in Conns, ClientSend(c) \/ ClientRecv(c) \/ ClientLeave(c)
      PROVE  AudienceInv'
  <2>1. UNCHANGED <<clnt_cnt, clnt_socks, bid, audience, inbox, fdtab, pc, str_len, i>>
    BY <1>6 DEF ClientSend, ClientRecv, ClientLeave, shared, threads, hist
  <2>2. \A d \in Conns : conn'[d] = "open" => conn[d] = "open"
    BY <1>0, <1>6 DEF ClientSend, ClientRecv, ClientLeave, TypeOK, TypeNet
  <2>3. QED
    BY <1>0, <2>1, <2>2, AudienceFrame
<1>7. CASE UNCHANGED vars
  BY <1>0, <1>7, AudienceFrame DEF vars, shared, threads, net, hist
<1>8. QED
  BY <1>1, <1>2, <1>3, <1>4, <1>5, <1>6, <1>7 DEF Next, MainStep, Resting

\* Only the unlock at the end of send_msg's loop takes a handler back to read.
LEMMA OnlyUnlockEnds ==
  ASSUME TypeOK, [Next]_vars, NEW t \in Threads,
         pc[t] = "send", pc'[t] = "read", str_len[t] = 1
  PROVE  i[t] >= clnt_cnt
<1> USE ChatAssumption DEF TypeOK, TypeThreads, Threads
<1>1. CASE Accept \/ MainStep
  BY <1>1 DEF Accept, MainStep, MainLock, Register, Create, Transition, threads
<1>2. ASSUME NEW u \in Threads, ThreadStep(u)
      PROVE  i[t] >= clnt_cnt
  <2>1. CASE SendUnlock(u)
    BY <2>1 DEF SendUnlock, Transition, SendEnd
  <2>2. CASE ReadReturn(u)
    <3>1. \E to \in {"send_lock", "remove_lock"} : pc' = [pc EXCEPT ![u] = to]
      BY <2>2 DEF ReadReturn, Transition
    <3>2. QED
      BY <3>1
  <2>3. CASE Start(u) \/ ReadCall(u)
    BY <2>3 DEF Start, ReadCall, Transition
  <2>4. CASE SendLock(u) \/ SendOne(u)
    BY <2>4 DEF SendLock, SendOne, Transition
  <2>5. CASE RemoveLock(u) \/ Remove(u) \/ Close(u)
    BY <2>5 DEF RemoveLock, Remove, Close, Transition
  <2>6. QED
    BY <1>2, <2>1, <2>2, <2>3, <2>4, <2>5 DEF ThreadStep
<1>3. ASSUME NEW c \in Conns, ClientSend(c) \/ ClientRecv(c) \/ ClientLeave(c)
      PROVE  i[t] >= clnt_cnt
  BY <1>3 DEF ClientSend, ClientRecv, ClientLeave, threads
<1>4. CASE UNCHANGED vars
  BY <1>4 DEF vars, threads
<1>5. QED
  BY <1>1, <1>2, <1>3, <1>4 DEF Next, Resting

-----------------------------------------------------------------------------
(* The theorems. *)

\* The inductive invariant holds in every reachable state.
THEOREM Invariance == Spec => []IInv
<1>1. IInv /\ [Next]_vars => IInv'
  <2> SUFFICES ASSUME IInv, [Next]_vars PROVE IInv'
    OBVIOUS
  <2>1. QED
    BY TypeStep, LockStep, CountStep, ControlStep, OrderStep DEF IInv
<1>2. QED
  BY InitInv, <1>1, PTL DEF Spec

\* Types and ranges for every number of clients: clnt_cnt stays within the
\* clients accepted, so below MAX_CLNT accepts the array is never overrun.
THEOREM TypeCorrect == Spec => []TypeOK
<1>1. IInv => TypeOK
  BY DEF IInv
<1>2. QED
  BY <1>1, Invariance, PTL

\* Mutual exclusion: mutx is held by exactly the thread that is between a lock
\* and an unlock call, so two threads are never in a critical section together.
THEOREM MutualExclusion == Spec => []LockInv
<1>1. IInv => LockInv
  BY DEF IInv
<1>2. QED
  BY <1>1, Invariance, PTL

\* clnt_cnt is the number of accepted clients whose handler has not finished,
\* although the removal loop may find nothing or remove the wrong entry.
THEOREM CountCorrect == Spec => []CountInv
<1>1. IInv => CountInv
  BY DEF IInv
<1>2. QED
  BY <1>1, Invariance, PTL

\* All clients receive the broadcasts in one order.
THEOREM BroadcastOrder == Spec => []SameOrder
<1>1. IInv => SameOrder
  <2> SUFFICES ASSUME IInv,
                      NEW c \in Conns, NEW d \in Conns,
                      NEW j \in DOMAIN inbox[c], NEW k \in DOMAIN inbox[c],
                      NEW m \in DOMAIN inbox[d], NEW n \in DOMAIN inbox[d],
                      j < k, m < n,
                      inbox[c][j] = inbox[d][n], inbox[c][k] = inbox[d][m]
               PROVE  inbox[c][j] = inbox[c][k]
    BY DEF SameOrder
  <2>1. inbox[c][j] \in Nat /\ inbox[c][k] \in Nat
    BY DEF IInv, TypeOK, TypeHist
  <2>2. inbox[c][j] <= inbox[c][k] /\ inbox[d][m] <= inbox[d][n]
    BY DEF IInv, OrderInv
  <2>3. QED
    BY <2>1, <2>2
<1>2. QED
  BY <1>1, Invariance, PTL

\* The shared array and its length change only by a step of the thread that holds mutx,
\* and never while a broadcast walks over them.
THEOREM CriticalSection == Spec => ArrayOnlyByHolder
<1> DEFINE Guarded ==
             /\ \/ lock = Main /\ pcM' # pcM
                \/ \E t \in Threads : lock = t /\ pc'[t] # pc[t]
             /\ \A t \in Threads : pc[t] # "send"
<1>1. ASSUME IInv, [Next]_vars
      PROVE  [Guarded]_shared
  <2> USE <1>1, ChatAssumption DEF IInv, TypeOK, TypeProcess, LockInv, Threads, Main, Free
  <2>1. CASE Accept \/ MainLock \/ Create
    BY <2>1 DEF Accept, MainLock, Create
  <2>2. CASE Register
    <3>1. lock = Main /\ pcM' # pcM
      BY <2>2 DEF Register
    <3>2. QED
      BY <3>1
  <2>3. ASSUME NEW t \in Threads, ThreadStep(t)
        PROVE  [Guarded]_shared
    <3>1. CASE Remove(t)
      <4>1. lock = t /\ pc[t] = "remove"
        BY <3>1 DEF Remove, Transition
      <4>2. pc'[t] # pc[t]
        BY <3>1, <4>1 DEF Remove, Transition, TypeThreads
      <4>3. QED
        BY <4>1, <4>2
    <3>2. CASE ~Remove(t)
      BY <2>3, <3>2 DEF ThreadStep, Start, ReadCall, ReadReturn, SendLock, SendOne,
         SendUnlock, RemoveLock, Close
    <3>3. QED
      BY <3>1, <3>2
  <2>4. ASSUME NEW c \in Conns, ClientSend(c) \/ ClientRecv(c) \/ ClientLeave(c)
        PROVE  [Guarded]_shared
    BY <2>4 DEF ClientSend, ClientRecv, ClientLeave
  <2>5. CASE UNCHANGED vars
    BY <2>5 DEF vars
  <2>6. QED
    BY <1>1, <2>1, <2>2, <2>3, <2>4, <2>5 DEF Next, MainStep, Resting
<1>2. QED
  BY <1>1, Invariance, PTL DEF Spec, ArrayOnlyByHolder

\* When send_msg returns from a broadcast, every client that was registered when it
\* began and is still connected has been sent the message, whoever joined, left or
\* was closed meanwhile, and whatever the removal loop has left in the array.
THEOREM EveryoneServed == Spec => AudienceServed
<1>1. Init => IInv /\ ReachInv
  BY InitInv, ReachInit
<1>2. (IInv /\ ReachInv) /\ [Next]_vars => (IInv /\ ReachInv)'
  BY TypeStep, LockStep, CountStep, ControlStep, OrderStep, NamesStep, AudienceStep
     DEF IInv, ReachInv
<1> DEFINE Served ==
      \A t \in Threads : pc[t] = "send" /\ pc'[t] = "read" /\ str_len[t] = 1 =>
        \A c \in audience : conn[c] = "open" /\ (\E f \in Fds : fdtab[f] = c) =>
          \E k \in DOMAIN inbox[c] : inbox[c][k] = bid[t]
<1>3. ASSUME IInv, ReachInv, [Next]_vars
      PROVE  [Served]_vars
  <2> SUFFICES ASSUME NEW t \in Threads, pc[t] = "send", pc'[t] = "read", str_len[t] = 1,
                      NEW c \in audience, Connected(c)
               PROVE  Written(t, c)
    BY DEF Connected, Written
  <2>1. i[t] >= clnt_cnt
    BY <1>3, OnlyUnlockEnds DEF IInv
  <2>2. i[t] \in Nat /\ clnt_cnt \in Nat
    BY <1>3, ChatAssumption DEF IInv, TypeOK, TypeProcess, TypeThreads
  <2>3. ~Ahead(t, c)
    BY <2>1, <2>2, ChatAssumption DEF Ahead, Slots
  <2>4. QED
    BY <1>3, <2>3 DEF ReachInv, AudienceInv
<1>4. QED
  BY <1>1, <1>2, <1>3, PTL DEF Spec, AudienceServed
=============================================================================
