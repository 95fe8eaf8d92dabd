--------------------------- MODULE StoreServerProofs ---------------------------
(***************************************************************************)
(* What holds of the storing echo server for any number of clients and     *)
(* messages, any sizes of buffers and pipe, and Ctrl-C at any time: what   *)
(* the children have written to the pipe is stored or on its way, in order *)
(* and without a gap.                                                      *)
(***************************************************************************)
EXTENDS StoreServer, SequenceTheorems, TLAPS

\* A child that reads has passed on all it read before; the storage process reads
\* into an empty buffer; and the client main has accepted has no child yet.
Control ==
  /\ \A c \in Clients : pcC[c] \in {"none", "read"} => held[c] = 0
  /\ pcS \in {"read", "never"} => fileBuf = << >>
  /\ pcM = "fork" => clnt_sock \in Clients /\ pcC[clnt_sock] = "none"

IInv == TypeOK /\ Control /\ InLine

Unit == Clients \X Nat

-----------------------------------------------------------------------------
(* Sequences of units. *)

LEMMA Constants ==
  /\ Buf \in Nat \ {0} /\ PipeSize \in Nat /\ StdioSize \in Nat \ {0}
  /\ Clients \subseteq Nat \ {0} /\ Main \notin Clients /\ Storage \notin Clients
  /\ MaxUnits \in [Clients -> Nat]
  BY StoreServerAssumption DEF Clients, Main, Storage

\* Cutting a sequence in two loses nothing.
LEMMA CutProperties ==
  ASSUME NEW S, NEW s \in Seq(S), NEW n \in 0..Len(s)
  PROVE  /\ SubSeq(s, 1, n) \in Seq(S) /\ SubSeq(s, n + 1, Len(s)) \in Seq(S)
         /\ Len(SubSeq(s, 1, n)) = n /\ Len(SubSeq(s, n + 1, Len(s))) = Len(s) - n
         /\ SubSeq(s, 1, n) \o SubSeq(s, n + 1, Len(s)) = s
<1>0. Len(s) \in Nat /\ \A j \in 1..Len(s) : s[j] \in S
  BY LenProperties, ElementOfSeq
<1>1. SubSeq(s, 1, n) \in Seq(S) /\ Len(SubSeq(s, 1, n)) = n
  <2>1. \A j \in 1..n : s[j] \in S
    BY <1>0
  <2>2. QED
    BY <1>0, <2>1, SubSeqProperties
<1>2. SubSeq(s, n + 1, Len(s)) \in Seq(S) /\ Len(SubSeq(s, n + 1, Len(s))) = Len(s) - n
  <2>1. \A j \in n + 1..Len(s) : s[j] \in S
    BY <1>0
  <2>2. QED
    BY <1>0, <2>1, SubSeqProperties
<1>3. SubSeq(s, 1, n) \o SubSeq(s, n + 1, Len(s)) = SubSeq(s, 1, Len(s))
  <2>1. 1 \in 1..Len(s) + 1 /\ n \in 1 - 1..Len(s) /\ Len(s) \in n..Len(s)
    BY <1>0
  <2>2. QED
    BY <2>1, ConcatAdjacentSubSeq
<1>4. QED
  BY <1>1, <1>2, <1>3, SubSeqFull

\* A child's write to the pipe: the next units of its client, at the end.
LEMMA AppendUnits ==
  ASSUME NEW s \in Seq(Unit), NEW n \in [Clients -> Nat],
         NEW c \in Clients, NEW h \in Nat,
         InOrder(s), Gapless(s, n)
  PROVE  LET t == s \o [k \in 1..h |-> <<c, n[c] + k>>] IN
           t \in Seq(Unit) /\ InOrder(t) /\ Gapless(t, [n EXCEPT ![c] = @ + h])
<1> DEFINE new == [k \in 1..h |-> <<c, n[c] + k>>]
           t == s \o new
<1>1. new \in Seq(Unit) /\ Len(new) = h
  BY DEF Unit
<1>2. /\ t \in Seq(Unit) /\ Len(t) = Len(s) + h /\ Len(s) \in Nat
      /\ \A p \in 1..Len(s) + h : t[p] = IF p <= Len(s) THEN s[p] ELSE new[p - Len(s)]
  BY <1>1, ConcatProperties, LenProperties
<1>3. /\ DOMAIN s = 1..Len(s) /\ DOMAIN t = 1..Len(s) + h
      /\ \A p \in DOMAIN s : p \in DOMAIN t /\ t[p] = s[p] /\ s[p] \in Unit
      /\ \A p \in DOMAIN t \ DOMAIN s :
           p - Len(s) \in 1..h /\ t[p][1] = c /\ t[p][2] = n[c] + p - Len(s)
  <2>1. DOMAIN s = 1..Len(s) /\ DOMAIN t = 1..Len(s) + h
    BY <1>2, LenProperties
  <2>2. \A p \in DOMAIN s : p \in DOMAIN t /\ t[p] = s[p] /\ s[p] \in Unit
    BY <1>2, <2>1, ElementOfSeq
  <2>3. \A p \in DOMAIN t \ DOMAIN s : p - Len(s) \in 1..h /\ t[p] = new[p - Len(s)]
    BY <1>2, <2>1
  <2>4. \A k \in 1..h : new[k][1] = c /\ new[k][2] = n[c] + k
    OBVIOUS
  <2>5. QED
    BY <1>2, <2>1, <2>2, <2>3, <2>4
<1> HIDE DEF new, t
<1>4. InOrder(t)
  <2> SUFFICES ASSUME NEW p \in DOMAIN t, NEW q \in DOMAIN t, p < q, t[p][1] = t[q][1]
               PROVE  t[p][2] < t[q][2]
    BY DEF InOrder
  <2>1. CASE q \in DOMAIN s
    <3>1. p \in DOMAIN s
      BY <1>2, <1>3, <2>1
    <3>2. QED
      BY <1>3, <2>1, <3>1 DEF InOrder
  <2>2. CASE q \notin DOMAIN s /\ p \in DOMAIN s
    <3>1. s[p][1] = c
      BY <1>3, <2>2
    <3>2. s[p][2] \in 1..n[c]
      BY <2>2, <3>1 DEF Gapless
    <3>3. QED
      BY <1>2, <1>3, <2>2, <3>2
  <2>3. CASE q \notin DOMAIN s /\ p \notin DOMAIN s
    BY <1>2, <1>3, <2>3
  <2>4. QED
    BY <2>1, <2>2, <2>3
<1>5. Gapless(t, [n EXCEPT ![c] = @ + h])
  <2> DEFINE Of1(u, d) == {u[p][2] : p \in {q \in DOMAIN u : u[q][1] = d}}
  <2> SUFFICES ASSUME NEW d \in Clients
               PROVE  Of1(t, d) = 1..[n EXCEPT ![c] = @ + h][d]
    BY DEF Gapless
  <2>0. Of1(s, d) = 1..n[d]
    BY DEF Gapless
  <2>1. CASE d # c
    <3>1. \A p \in DOMAIN t : t[p][1] = d => p \in DOMAIN s
      BY <1>3, <2>1
    <3>2. Of1(t, d) = Of1(s, d)
      <4>1. \A p : p \in DOMAIN t /\ t[p][1] = d <=> p \in DOMAIN s /\ s[p][1] = d
        BY <1>3, <3>1
      <4>2. \A p \in DOMAIN s : t[p] = s[p]
        BY <1>3
      <4>3. QED
        BY <4>1, <4>2
    <3>3. QED
      BY <2>0, <2>1, <3>2
  <2>2. CASE d = c
    <3>1. Of1(t, c) = Of1(s, c) \cup (n[c] + 1..n[c] + h)
      <4>1. ASSUME NEW v \in Of1(t, c)
            PROVE  v \in Of1(s, c) \cup (n[c] + 1..n[c] + h)
        <5>1. PICK p \in DOMAIN t : t[p][1] = c /\ v = t[p][2]
          OBVIOUS
        <5>2. CASE p \in DOMAIN s
          BY <1>3, <5>1, <5>2
        <5>3. CASE p \notin DOMAIN s
          BY <1>2, <1>3, <5>1, <5>3
        <5>4. QED
          BY <5>2, <5>3
      <4>2. ASSUME NEW v \in Of1(s, c)
            PROVE  v \in Of1(t, c)
        BY <1>3
      <4>3. ASSUME NEW v \in n[c] + 1..n[c] + h
            PROVE  v \in Of1(t, c)
        <5> DEFINE p == v - n[c] + Len(s)
        <5>1. p \in DOMAIN t \ DOMAIN s /\ n[c] + p - Len(s) = v
          BY <1>2, <1>3
        <5>2. t[p][1] = c /\ t[p][2] = v
          BY <1>3, <5>1
        <5>3. QED
          BY <5>1, <5>2
      <4>4. QED
        BY <4>1, <4>2, <4>3
    <3>2. 1..n[c] \cup (n[c] + 1..n[c] + h) = 1..n[c] + h
      OBVIOUS
    <3>3. [n EXCEPT ![c] = @ + h][d] = n[c] + h
      BY <2>2
    <3>4. QED
      BY <2>0, <2>2, <3>1, <3>2, <3>3
  <2>3. QED
    BY <2>1, <2>2
<1>6. QED
  BY <1>2, <1>4, <1>5 DEF t, new

-----------------------------------------------------------------------------

LEMMA InitInv == Init => IInv
<1> SUFFICES ASSUME Init PROVE IInv
  OBVIOUS
<1> USE Constants DEF Init
<1>1. TypeProcs
  BY DEF TypeProcs, Procs
<1>2. TypeAmounts
  <2>1. \A c \in Clients : MaxUnits[c] \in Nat
    OBVIOUS
  <2>2. QED
    BY <2>1 DEF TypeAmounts, Least
<1>3. << >> \in Seq(Unit) /\ Len(<< >>) = 0
  BY EmptySeq
<1>4. TypeStore
  BY <1>3 DEF TypeStore, Unit
<1>5. Stream = << >>
  BY <1>3, ConcatEmptySeq DEF Stream
<1>6. InLine
  <2>1. DOMAIN Stream = {}
    BY <1>5
  <2>2. \A c \in Clients : Piped[c] = 0
    BY DEF Piped
  <2>3. QED
    BY <2>1, <2>2 DEF InLine, InOrder, Gapless
<1>7. Control
  BY DEF Control
<1>8. QED
  BY <1>1, <1>2, <1>4, <1>6, <1>7 DEF IInv, TypeOK

-----------------------------------------------------------------------------
(* Types and control. *)

LEMMA ProcsStep ==
  ASSUME TypeProcs, [Next]_vars
  PROVE  TypeProcs'
<1> USE Constants DEF TypeProcs, Procs
<1>1. CASE MainStep
  BY <1>1 DEF MainStep, AcceptOne, Fork, Reap, Backlog, Zombies, store, clnts
<1>2. CASE StorageStep
  BY <1>2 DEF StorageStep, StorageRead, StorageWrite, mains, clnts
<1>3. CASE Interrupt
  BY <1>3 DEF Interrupt, Serving, mains, store, clnts
<1>4. CASE Handler
  <2>1. CASE MainInterrupted \/ StorageInterrupted
    BY <2>1 DEF MainInterrupted, StorageInterrupted, store, mains, clnts
  <2>2. ASSUME NEW c \in Clients, ChildInterrupted(c)
        PROVE  TypeProcs'
    BY <2>2 DEF ChildInterrupted, ChildEnds, store, clnts
  <2>3. QED
    BY <1>4, <2>1, <2>2 DEF Handler
<1>5. ASSUME NEW c \in Clients, Child(c)
      PROVE  TypeProcs'
  <2>1. CASE ChildRead(c) \/ ChildReadFails(c) \/ ChildReadsEnd(c) \/ ChildPipes(c)
    BY <2>1 DEF ChildRead, ChildReadFails, ChildReadsEnd, ChildPipes, ChildEnds, Goes,
       mains, store, clnts
  <2>2. CASE ChildEchoes(c)
    BY <2>2 DEF ChildEchoes, ChildEnds, Goes, mains, store
  <2>3. QED
    BY <1>5, <2>1, <2>2 DEF Child
<1>6. ASSUME NEW c \in Clients, Client(c)
      PROVE  TypeProcs'
  BY <1>6 DEF Client, Connect, Send, Leave, mains, store
<1>7. CASE UNCHANGED vars
  BY <1>7 DEF vars, mains, store, clnts
<1>8. QED
  BY <1>1, <1>2, <1>3, <1>4, <1>5, <1>6, <1>7 DEF Next

LEMMA AmountsStep ==
  ASSUME TypeProcs, TypeAmounts, Control, [Next]_vars
  PROVE  TypeAmounts'
<1> USE Constants DEF TypeProcs, TypeAmounts, Least
<1>0. ASSUME UNCHANGED <<sent, taken, held>>
      PROVE  TypeAmounts'
  BY <1>0
<1>1. CASE MainStep \/ StorageStep \/ Interrupt \/ Handler
  BY <1>0, <1>1 DEF MainStep, AcceptOne, Fork, Reap, StorageStep, StorageRead, StorageWrite,
     Interrupt, Handler, MainInterrupted, StorageInterrupted, ChildInterrupted, clnts, data
<1>2. ASSUME NEW c \in Clients, Child(c)
      PROVE  TypeAmounts'
  <2>1. CASE ChildReadFails(c) \/ ChildReadsEnd(c) \/ ChildEchoes(c)
    BY <1>0, <2>1 DEF ChildReadFails, ChildReadsEnd, ChildEchoes, data, clnts
  <2>2. CASE ChildRead(c)
    <3> DEFINE n == Least(Buf, sent[c] - taken[c])
    <3>1. n \in 1..Buf /\ taken[c] + n <= sent[c] /\ sent[c] \in Nat /\ taken[c] \in Nat
      BY <2>2 DEF ChildRead
    <3>2. taken' = [taken EXCEPT ![c] = taken[c] + n] /\ sent' = sent
      BY <2>2 DEF ChildRead, clnts
    <3>3. taken'[c] - taken[c] = n
      BY <3>1, <3>2
    <3>4. held' = [held EXCEPT ![c] = n]
      BY <2>2, <3>3 DEF ChildRead
    <3> HIDE DEF n
    <3>5. QED
      BY <3>1, <3>2, <3>4
  <2>3. CASE ChildPipes(c)
    BY <2>3 DEF ChildPipes, clnts
  <2>4. QED
    BY <1>2, <2>1, <2>2, <2>3 DEF Child
<1>3. ASSUME NEW c \in Clients, Client(c)
      PROVE  TypeAmounts'
  <2>1. CASE Send(c)
    BY <1>3, <2>1 DEF Client, Send, data
  <2>2. CASE Connect(c) \/ Leave(c)
    BY <1>0, <1>3, <2>2 DEF Client, Connect, Leave, data
  <2>3. QED
    BY <1>3, <2>1, <2>2 DEF Client
<1>4. CASE UNCHANGED vars
  BY <1>0, <1>4 DEF vars, clnts, data
<1>5. QED
  BY <1>1, <1>2, <1>3, <1>4 DEF Next

LEMMA ControlStep ==
  ASSUME TypeProcs, TypeAmounts, Control, [Next]_vars
  PROVE  Control'
<1> USE Constants DEF TypeProcs, TypeAmounts, Control
<1>1. CASE MainStep
  BY <1>1 DEF MainStep, AcceptOne, Fork, Reap, Backlog, Zombies, store, data
<1>2. CASE StorageStep \/ Interrupt
  BY <1>2 DEF StorageStep, StorageRead, StorageWrite, Interrupt, mains, data, store
<1>3. CASE Handler
  <2>1. CASE MainInterrupted \/ StorageInterrupted
    BY <2>1 DEF MainInterrupted, StorageInterrupted, store, mains, data
  <2>2. ASSUME NEW c \in Clients, ChildInterrupted(c)
        PROVE  Control'
    BY <2>2 DEF ChildInterrupted, ChildEnds, Serving, store, data
  <2>3. QED
    BY <1>3, <2>1, <2>2 DEF Handler
<1>4. ASSUME NEW c \in Clients, Child(c)
      PROVE  Control'
  <2>1. CASE ChildRead(c) \/ ChildPipes(c)
    <3>1. /\ pcC[c] \in {"read", "pipe"} /\ UNCHANGED <<pcM, clnt_sock, pcS, fileBuf>>
          /\ \/ pcC' = [pcC EXCEPT ![c] = "echo"]
             \/ pcC' = [pcC EXCEPT ![c] = "read"] /\ held'[c] = 0
          /\ \A d \in Clients \ {c} : held'[d] = held[d]
      BY <2>1 DEF ChildRead, ChildPipes, Goes, store
    <3>2. QED
      BY <3>1
  <2>2. CASE ChildReadFails(c) \/ ChildReadsEnd(c)
    BY <2>2 DEF ChildReadFails, ChildReadsEnd, ChildEnds, mains, store, data
  <2>3. CASE ChildEchoes(c)
    BY <2>3 DEF ChildEchoes, ChildEnds, Goes, store, data
  <2>4. QED
    BY <1>4, <2>1, <2>2, <2>3 DEF Child
<1>5. ASSUME NEW c \in Clients, Client(c)
      PROVE  Control'
  BY <1>5 DEF Client, mains, store, data
<1>6. CASE UNCHANGED vars
  BY <1>6 DEF vars, mains, store, data
<1>7. QED
  BY <1>1, <1>2, <1>3, <1>4, <1>5, <1>6 DEF Next

-----------------------------------------------------------------------------
(* The way of a unit from the pipe to the file. *)

\* Concatenation of units, with the set of units fixed.
LEMMA Concat ==
  ASSUME NEW s \in Seq(Unit), NEW t \in Seq(Unit)
  PROVE  s \o t \in Seq(Unit) /\ Len(s \o t) = Len(s) + Len(t)
  BY ConcatProperties

LEMMA Associative ==
  \A s, t, u \in Seq(Unit) : (s \o t) \o u = s \o (t \o u)
  BY ConcatAssociative

\* Whole buffers of b units out of a: at most a, and less than a buffer is left.
LEMMA WholeBuffers ==
  ASSUME NEW a \in Nat, NEW b \in Nat \ {0}
  PROVE  (a \div b) * b \in 0..a /\ a - (a \div b) * b <= b
  OBVIOUS

\* fwrite moves all of fileBuf on, and fp never holds more than its buffer.
LEMMA FwriteKeeps ==
  ASSUME TypeStore, Fwrite
  PROVE  /\ file' \in Seq(Unit) /\ stdio' \in Seq(Unit) /\ Len(stdio') <= StdioSize
         /\ file' \o stdio' = file \o (stdio \o fileBuf)
<1> DEFINE all == stdio \o fileBuf
           k == IF Len(all) <= StdioSize THEN 0 ELSE (Len(all) \div StdioSize) * StdioSize
<1>1. file \in Seq(Unit) /\ stdio \in Seq(Unit) /\ fileBuf \in Seq(Unit)
  BY DEF TypeStore, Unit
<1>2. all \in Seq(Unit) /\ Len(all) \in Nat
  BY <1>1, Concat, LenProperties
<1>3. k \in 0..Len(all) /\ Len(all) - k <= StdioSize
  <2>1. CASE Len(all) <= StdioSize
    BY <1>2, <2>1, Constants
  <2>2. CASE ~(Len(all) <= StdioSize)
    <3>1. (Len(all) \div StdioSize) * StdioSize \in 0..Len(all)
      BY <1>2, WholeBuffers, Constants
    <3>2. Len(all) - (Len(all) \div StdioSize) * StdioSize <= StdioSize
      BY <1>2, WholeBuffers, Constants
    <3>3. QED
      BY <2>2, <3>1, <3>2, Constants
  <2>3. QED
    BY <2>1, <2>2
<1>4. file' = file \o SubSeq(all, 1, k) /\ stdio' = SubSeq(all, k + 1, Len(all))
  BY DEF Fwrite, AllOfIt
<1> HIDE DEF all, k
<1>5. /\ SubSeq(all, 1, k) \in Seq(Unit)
      /\ SubSeq(all, k + 1, Len(all)) \in Seq(Unit)
      /\ Len(SubSeq(all, k + 1, Len(all))) = Len(all) - k
      /\ SubSeq(all, 1, k) \o SubSeq(all, k + 1, Len(all)) = all
  BY <1>2, <1>3, CutProperties
<1>6. file' \o stdio' = file \o all
  <2> DEFINE front == SubSeq(all, 1, k)
             back  == SubSeq(all, k + 1, Len(all))
  <2>1. front \in Seq(Unit) /\ back \in Seq(Unit) /\ front \o back = all
    BY <1>5
  <2>2. file' = file \o front /\ stdio' = back
    BY <1>4
  <2> HIDE DEF front, back
  <2>3. (file \o front) \o back = file \o (front \o back)
    BY <1>1, <2>1, Associative, Zenon
  <2>4. QED
    BY <2>1, <2>2, <2>3
<1>7. file' \in Seq(Unit)
  BY <1>1, <1>4, <1>5, Concat
<1>8. QED
  BY <1>3, <1>4, <1>5, <1>6, <1>7 DEF all

\* The storage process and its handler move units on; none is lost or reordered.
LEMMA StorageKeeps ==
  ASSUME TypeStore, Control, StorageStep \/ StorageInterrupted
  PROVE  Stream' = Stream /\ TypeStore'
<1>1. /\ pipe \in Seq(Unit) /\ fileBuf \in Seq(Unit) /\ stdio \in Seq(Unit)
      /\ file \in Seq(Unit) /\ Len(pipe) \in Nat /\ Len(fileBuf) \in Nat
      /\ Len(pipe) <= PipeSize /\ Len(fileBuf) <= Buf /\ Len(stdio) <= StdioSize
  BY LenProperties DEF TypeStore, Unit
<1>2. << >> \in Seq(Unit) /\ Len(<< >>) = 0
  BY EmptySeq
<1>3. file \o stdio \in Seq(Unit) /\ stdio \o fileBuf \in Seq(Unit)
  BY <1>1, Concat
<1>4. CASE StorageRead
  <2> DEFINE n == Least(Buf, Len(pipe))
  <2>1. n \in 0..Len(pipe) /\ n <= Buf
    BY <1>1, Constants DEF Least
  <2>2. /\ fileBuf' = SubSeq(pipe, 1, n) /\ pipe' = SubSeq(pipe, n + 1, Len(pipe))
        /\ file' = file /\ stdio' = stdio /\ fileBuf = << >>
    BY <1>4 DEF StorageRead, Control
  <2> HIDE DEF n
  <2>3. /\ fileBuf' \in Seq(Unit) /\ pipe' \in Seq(Unit)
        /\ Len(fileBuf') = n /\ Len(pipe') = Len(pipe) - n
        /\ fileBuf' \o pipe' = pipe
    BY <1>1, <2>1, <2>2, CutProperties
  <2>4. TypeStore'
    <3>1. Len(pipe') <= PipeSize /\ Len(fileBuf') <= Buf
      BY <1>1, <2>1, <2>3, Constants
    <3>2. QED
      BY <1>1, <2>2, <2>3, <3>1 DEF TypeStore, Unit
  <2>5. Stream' = (file \o stdio) \o (fileBuf' \o pipe')
    <3>1. ((file \o stdio) \o fileBuf') \o pipe' = (file \o stdio) \o (fileBuf' \o pipe')
      BY <1>3, <2>3, Associative, Zenon
    <3>2. QED
      BY <2>2, <3>1 DEF Stream
  <2>6. Stream = (file \o stdio) \o pipe
    BY <1>3, <2>2, ConcatEmptySeq DEF Stream
  <2>7. QED
    BY <2>3, <2>4, <2>5, <2>6
<1>5. CASE StorageWrite
  <2>1. Fwrite /\ fileBuf' = << >> /\ pipe' = pipe
    BY <1>5 DEF StorageWrite
  <2>2. /\ file' \in Seq(Unit) /\ stdio' \in Seq(Unit) /\ Len(stdio') <= StdioSize
        /\ file' \o stdio' = file \o (stdio \o fileBuf)
    BY <2>1, FwriteKeeps
  <2>3. TypeStore'
    BY <1>1, <1>2, <2>1, <2>2, Constants DEF TypeStore, Unit
  <2>4. (file' \o stdio') \o fileBuf' = file' \o stdio'
    <3>1. file' \o stdio' \in Seq(Unit)
      BY <2>2, Concat
    <3>2. QED
      BY <2>1, <3>1, ConcatEmptySeq
  <2>5. file \o (stdio \o fileBuf) = (file \o stdio) \o fileBuf
    BY <1>1, Associative
  <2>6. QED
    BY <2>1, <2>2, <2>3, <2>4, <2>5 DEF Stream
<1>6. CASE StorageInterrupted
  <2>1. PICK k \in 0..Len(fileBuf) : /\ file' = file \o stdio \o SubSeq(fileBuf, 1, k)
                                     /\ fileBuf' = SubSeq(fileBuf, k + 1, Len(fileBuf))
    BY <1>6 DEF StorageInterrupted
  <2>2. stdio' = << >> /\ pipe' = pipe
    BY <1>6 DEF StorageInterrupted
  <2>3. /\ SubSeq(fileBuf, 1, k) \in Seq(Unit) /\ fileBuf' \in Seq(Unit)
        /\ Len(fileBuf') = Len(fileBuf) - k
        /\ SubSeq(fileBuf, 1, k) \o fileBuf' = fileBuf
    BY <1>1, <2>1, CutProperties
  <2>4. file' \in Seq(Unit)
    BY <1>3, <2>1, <2>3, Concat
  <2>5. TypeStore'
    BY <1>1, <1>2, <2>2, <2>3, <2>4, Constants DEF TypeStore, Unit
  <2>6. (file' \o stdio') \o fileBuf' = (file \o stdio) \o fileBuf
    <3>1. file' \o stdio' = file'
      BY <2>2, <2>4, ConcatEmptySeq
    <3>2. file' \o fileBuf' = (file \o stdio) \o (SubSeq(fileBuf, 1, k) \o fileBuf')
      <4> DEFINE front == SubSeq(fileBuf, 1, k)
      <4>1. front \in Seq(Unit) /\ file' = (file \o stdio) \o front
        BY <2>1, <2>3
      <4> HIDE DEF front
      <4>2. ((file \o stdio) \o front) \o fileBuf' = (file \o stdio) \o (front \o fileBuf')
        BY <1>3, <2>3, <4>1, Associative, Zenon
      <4>3. QED
        BY <4>1, <4>2 DEF front
    <3>3. QED
      BY <2>3, <3>1, <3>2
  <2>7. QED
    BY <2>2, <2>5, <2>6 DEF Stream
<1>7. QED
  BY <1>4, <1>5, <1>6 DEF StorageStep

\* A child's write adds the next units of its client at the end.
LEMMA PipeStep ==
  ASSUME TypeOK, Control, InLine, NEW c \in Clients, ChildPipes(c)
  PROVE  TypeStore' /\ InLine'
<1> USE Constants
<1> DEFINE new == [k \in 1..held[c] |-> <<c, Piped[c] + k>>]
<1>1. /\ pipe \in Seq(Unit) /\ fileBuf \in Seq(Unit) /\ stdio \in Seq(Unit)
      /\ file \in Seq(Unit)
  BY DEF TypeOK, TypeStore, Unit
<1>2. held[c] \in Nat /\ taken[c] - held[c] \in Nat /\ Piped \in [Clients -> Nat]
  BY DEF TypeOK, TypeAmounts, Least, Piped
<1>3. pipe' = pipe \o new /\ Len(pipe) + held[c] <= PipeSize
      /\ UNCHANGED <<fileBuf, stdio, file>>
  BY DEF ChildPipes, Piped, store
<1>4. new \in Seq(Unit) /\ Len(new) = held[c]
  BY <1>2 DEF Unit
<1>5. pipe \o new \in Seq(Unit) /\ Len(pipe \o new) = Len(pipe) + held[c]
  BY <1>1, <1>4, Concat
<1>6. TypeStore'
  BY <1>3, <1>5 DEF TypeOK, TypeStore, Unit
<1>7. Stream' = Stream \o new
  <2> HIDE DEF new
  <2>1. file \o stdio \o fileBuf \in Seq(Unit)
    BY <1>1, Concat
  <2>2. QED
    BY <1>1, <1>3, <1>4, <2>1, Associative DEF Stream
<1>8. Stream \in Seq(Unit)
  <2>1. file \o stdio \o fileBuf \in Seq(Unit)
    BY <1>1, Concat
  <2>2. QED
    BY <1>1, <2>1, Concat DEF Stream
<1>9. Piped' = [Piped EXCEPT ![c] = @ + held[c]]
  <2>1. held' = [held EXCEPT ![c] = 0] /\ taken' = taken /\ held \in [Clients -> Nat]
    BY DEF ChildPipes, TypeOK, TypeAmounts
  <2>2. Piped'[c] = Piped[c] + held[c]
    BY <1>2, <2>1 DEF Piped, TypeOK, TypeAmounts
  <2>3. \A d \in Clients \ {c} : Piped'[d] = Piped[d]
    BY <2>1 DEF Piped
  <2>4. QED
    BY <2>2, <2>3 DEF Piped
<1>10. InOrder(Stream \o new) /\ Gapless(Stream \o new, [Piped EXCEPT ![c] = @ + held[c]])
  BY <1>2, <1>8, AppendUnits DEF InLine
<1>11. InLine'
  BY <1>7, <1>9, <1>10 DEF InLine, InOrder, Gapless
<1>12. QED
  BY <1>6, <1>11

LEMMA StoreStep ==
  ASSUME IInv, [Next]_vars
  PROVE  TypeStore' /\ InLine'
<1> USE DEF IInv, TypeOK
<1>0. ASSUME Stream' = Stream, Piped' = Piped
      PROVE  InLine'
  BY <1>0 DEF InLine, InOrder, Gapless
<1>1. ASSUME UNCHANGED <<pipe, fileBuf, stdio, file>>
      PROVE  TypeStore' /\ Stream' = Stream
  BY <1>1 DEF TypeStore, Stream
<1>2. CASE StorageStep \/ StorageInterrupted
  <2>1. Piped' = Piped
    BY <1>2 DEF StorageStep, StorageRead, StorageWrite, StorageInterrupted, data, Piped
  <2>2. QED
    BY <1>0, <1>2, <2>1, StorageKeeps
<1>3. CASE MainStep \/ Interrupt \/ MainInterrupted \/ UNCHANGED vars
  <2>1. UNCHANGED <<pipe, store, data>>
    BY <1>3 DEF MainStep, AcceptOne, Fork, Reap, Interrupt, MainInterrupted, vars
  <2>2. QED
    BY <1>0, <1>1, <2>1 DEF store, data, Piped
<1>4. ASSUME NEW c \in Clients, Client(c) \/ ChildInterrupted(c)
      PROVE  TypeStore' /\ InLine'
  BY <1>0, <1>1, <1>4 DEF Client, ChildInterrupted, store, data, Piped
<1>5. ASSUME NEW c \in Clients, Child(c)
      PROVE  TypeStore' /\ InLine'
  <2>1. CASE ChildRead(c)
    <3>1. UNCHANGED <<pipe, store>>
      BY <2>1 DEF ChildRead
    <3>2. Piped' = Piped
      <4>1. held[c] = 0
        BY <2>1 DEF ChildRead, Control
      <4>2. taken'[c] - held'[c] = taken[c] - held[c]
        BY <2>1, <4>1, Constants DEF ChildRead, TypeAmounts, Least
      <4>3. \A d \in Clients \ {c} : taken'[d] = taken[d] /\ held'[d] = held[d]
        BY <2>1 DEF ChildRead, TypeAmounts
      <4>4. QED
        BY <4>2, <4>3 DEF Piped
    <3>3. QED
      BY <1>0, <1>1, <3>1, <3>2 DEF store
  <2>2. CASE ChildReadFails(c) \/ ChildReadsEnd(c) \/ ChildEchoes(c)
    BY <1>0, <1>1, <2>2 DEF ChildReadFails, ChildReadsEnd, ChildEchoes, store, data, Piped
  <2>3. CASE ChildPipes(c)
    BY <2>3, PipeStep
  <2>4. QED
    BY <1>5, <2>1, <2>2, <2>3 DEF Child
<1>6. QED
  BY <1>2, <1>3, <1>4, <1>5 DEF Next, Handler

-----------------------------------------------------------------------------

LEMMA Invariance == Spec => []IInv
<1>1. IInv /\ [Next]_vars => IInv'
  BY ProcsStep, AmountsStep, ControlStep, StoreStep DEF IInv, TypeOK
<1>2. QED
  BY InitInv, <1>1, PTL DEF Spec

\* Every variable keeps its type; neither the pipe nor a buffer is overrun.
THEOREM TypeCorrect == Spec => []TypeOK
<1>1. IInv => TypeOK
  BY DEF IInv
<1>2. QED
  BY Invariance, <1>1, PTL

\* Whatever the children have written to the pipe (echo_storeserv.c:103) is in
\* the file or on its way there, in order and without a gap, also after Ctrl-C.
THEOREM NothingLostOnTheWay == Spec => []InLine
<1>1. IInv => InLine
  BY DEF IInv
<1>2. QED
  BY Invariance, <1>1, PTL
=============================================================================
