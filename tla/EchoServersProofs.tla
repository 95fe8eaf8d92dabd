-------------------------- MODULE EchoServersProofs --------------------------
(***************************************************************************)
(* What holds of the seven echo servers for any number of clients and      *)
(* messages, any size of buffers and any number of workers: the safety     *)
(* properties of EchoServers, and that every step of a server is a step of *)
(* EchoService.                                                            *)
(***************************************************************************)
EXTENDS EchoServers, EchoNetProofs, FiniteSetTheorems

EchoNext == [Promise!Next]_<<sent, out, NonBlocking>>

\* A server that waits for room has written back all it read and let go of.
Straight ==
  kind \notin {"edge", "async", "iocp"} =>
    \A c \in Clients : conn[c] = "open" => Last(c) = taken[c] - held[c]

Common == Straight /\ ClosesOnlyTheGone /\ PoliteClientsAreSafe

-----------------------------------------------------------------------------
(* What the calls of the servers have in common. *)

\* What a server may do to the connection of c, and when it does it.
Calls(c) ==
  \/ Accept(c)
  \/ held[c] = 0 /\ \E size \in Nat : 0 < size /\ size <= Buf /\ ReadUpTo(c, size)
  \/ ReadReset(c)
  \/ sst[c] # "none" /\ (kind = "select_win" \/ Gone(c)) /\ Close(c)
  \/ held[c] > 0 /\ (WriteOne(c) \/ WriteLost(c) \/ WriteKills(c))
  \/ held[c] > 0 /\ NonBlocking /\ WriteWhatFits(c)
  \/ /\ kind = "select_win" \/ conn[c] \in {"reset", "dead"}
     /\ alive' = FALSE /\ UNCHANGED <<sst, tcp>>

Kept == NetInv' /\ Common' /\ EchoNext

LEMMA SameUpdate ==
  ASSUME NEW S, NEW T, NEW f \in [S -> T], NEW x \in S
  PROVE  [f EXCEPT ![x] = f[x]] = f
  OBVIOUS

LEMMA EchoStep ==
  ASSUME NetInv, NEW c \in Clients, NEW k \in Nat, NEW n \in Nat,
         out' = [out EXCEPT ![c] = @ \o Units(k, n)], UNCHANGED <<sent, kind>>,
         k = Last(c) \/ (NonBlocking /\ Last(c) <= k), k + n <= sent[c]
  PROVE  EchoNext
<1>1. sent[c] \in Nat /\ Last(c) \in Nat /\ out[c] \in Seq(Nat)
  BY Numbers
<1>2. NonBlocking' = NonBlocking
  BY DEF NonBlocking
<1>3. CASE n = 0
  <2>1. out[c] \o Units(k, n) = out[c]
    BY <1>1, <1>3, AppendUnits DEF Extended
  <2>2. out' = [out EXCEPT ![c] = out[c]]
    BY <2>1
  <2>a. out' = out
    <3>1. out \in [Clients -> Seq(Nat)]
      BY Typed
    <3>2. QED
      BY <2>2, <3>1, SameUpdate
  <2>3. QED
    BY <1>2, <2>a DEF EchoNext
<1>4. CASE n > 0
  <2>1. k + 1 \in Last(c) + 1..sent[c] /\ (k + 1 = Last(c) + 1 \/ NonBlocking)
        /\ n \in 1..sent[c] + 1 - (k + 1)
    BY <1>1, <1>4
  <2>2. Units(k, n) = [j \in 1..n |-> (k + 1) + j - 1]
    BY DEF Units
  <2>3. Promise!LastOf(out[c]) = Last(c)
    BY DEF Promise!LastOf, Last
  <2>4. out' = [out EXCEPT ![c] = @ \o [j \in 1..n |-> (k + 1) + j - 1]]
    BY <2>2
  <2>5. Promise!Echo(c)
    BY <1>2, <2>1, <2>3, <2>4 DEF Promise!Echo
  <2>6. QED
    BY <2>5 DEF EchoNext, Promise!Next
<1>5. QED
  BY <1>3, <1>4

\* Only c has to be looked at.
LEMMA CommonKept ==
  ASSUME Common, alive, kind' = kind, NEW c \in Clients, SameBut(c),
         kind \notin {"edge", "async", "iocp"} /\ conn'[c] = "open"
           => Last(c)' = taken'[c] - held'[c],
         kind # "select_win" /\ sst'[c] = "closed" => Gone(c)',
         ~alive' /\ kind # "select_win" => Gone(c)' /\ got'[c] < sent'[c]
  PROVE  Common'
<1>1. Straight'
  <2>1. ASSUME NEW d \in Clients \ {c}
        PROVE  Last(d)' = Last(d) /\ conn'[d] = conn[d] /\ taken'[d] = taken[d] /\ held'[d] = held[d]
    BY DEF SameBut, Same, Last
  <2>2. QED
    BY <2>1 DEF Common, Straight
<1>2. ClosesOnlyTheGone'
  BY DEF Common, ClosesOnlyTheGone, Gone, SameBut, Same
<1>3. PoliteClientsAreSafe'
  BY DEF PoliteClientsAreSafe
<1>4. QED
  BY <1>1, <1>2, <1>3 DEF Common

LEMMA CallKept ==
  ASSUME NetInv, Common, alive, UNCHANGED kind, kind # "iocp", NEW c \in Clients, Calls(c)
  PROVE  Kept /\ SameBut(c)
<1> USE DEF Kept
<1>0. /\ kind \notin {"edge", "async", "iocp"} /\ conn[c] = "open"
           => Last(c) = taken[c] - held[c]
      /\ kind # "select_win" /\ sst[c] = "closed" => Gone(c)
      /\ taken[c] \in Nat /\ held[c] \in Nat /\ sent[c] \in Nat /\ taken[c] <= sent[c]
      /\ Last(c) \in Nat /\ Last(c) <= taken[c] - held[c] /\ Good(c)
  BY Numbers DEF Common, Straight, ClosesOnlyTheGone
<1>a. ASSUME UNCHANGED <<sent, out>>
      PROVE  EchoNext
  BY <1>a DEF EchoNext, NonBlocking
<1>1. CASE Accept(c) \/ (sst[c] # "none" /\ (kind = "select_win" \/ Gone(c)) /\ Close(c))
  <2>1. PICK to \in {"open", "closed"} : /\ sst[c] # "none" /\ sst' = [sst EXCEPT ![c] = to]
                                         /\ kind = "select_win" \/ Gone(c) \/ to = "open"
    BY <1>1 DEF Accept, Close, Backlog
  <2>2. UNCHANGED <<alive, tcp>>
    BY <1>1 DEF Accept, Close
  <2>3. NetInv' /\ SameBut(c)
    BY <2>1, <2>2, SocketKeeps
  <2>4. sst'[c] = to
    BY <2>1, Typed
  <2>5. /\ Last(c)' = Last(c) /\ (Gone(c)' <=> Gone(c)) /\ UNCHANGED <<sent, out>>
        /\ taken'[c] - held'[c] = taken[c] - held[c] /\ conn'[c] = conn[c]
    BY <2>2 DEF tcp, Last, Gone
  <2>6. Common'
    BY <1>0, <2>1, <2>2, <2>3, <2>4, <2>5, CommonKept
  <2>7. QED
    BY <1>a, <2>3, <2>5, <2>6
<1>2. CASE held[c] = 0 /\ \E size \in Nat : 0 < size /\ size <= Buf /\ ReadUpTo(c, size)
  <2>1. /\ NetInv' /\ SameBut(c) /\ taken'[c] - held'[c] = taken[c] /\ Last(c)' = Last(c)
        /\ UNCHANGED <<alive, sst, conn, sent, out, got, cut>>
    BY <1>2, ReadKeeps
  <2>2. taken[c] - held[c] = taken[c]
    BY <1>0, <1>2
  <2>3. Gone(c)' <=> Gone(c)
    BY <2>1 DEF Gone
  <2>4. Common'
    BY <1>0, <2>1, <2>2, <2>3, CommonKept
  <2>5. QED
    BY <1>a, <2>1, <2>4
<1>3. CASE ReadReset(c)
  <2>1. /\ NetInv' /\ SameBut(c) /\ conn'[c] \in {"reset", "dead"}
        /\ UNCHANGED <<alive, sst, sent, taken, held, out, got, cut>>
    BY <1>3, ResetKeeps
  <2>2. Gone(c)' /\ conn'[c] # "open"
    BY <2>1 DEF Gone
  <2>3. Common'
    BY <2>1, <2>2, CommonKept
  <2>4. QED
    BY <1>a, <2>1, <2>3
<1>4. CASE held[c] > 0 /\ WriteOne(c)
  <2>1. /\ NetInv' /\ SameBut(c) /\ held'[c] = held[c] - 1
        /\ Last(c)' = taken[c] - held[c] + 1 /\ taken'[c] = taken[c] /\ conn'[c] = conn[c]
        /\ out' = [out EXCEPT ![c] = @ \o Units(taken[c] - held[c], 1)]
        /\ UNCHANGED <<alive, sst, conn, sent, taken, got, cut>>
    BY <1>4, WriteOneKeeps
  <2>2. /\ taken'[c] - held'[c] = taken[c] - held[c] + 1
        /\ taken[c] - held[c] \in Nat /\ taken[c] - held[c] + 1 <= sent[c]
    <3> DEFINE t == taken[c]
               h == held[c]
    <3>1. t \in Nat /\ h \in Nat /\ h > 0 /\ t <= sent[c] /\ sent[c] \in Nat /\ t - h \in Nat
      BY <1>0, <1>4, Numbers
    <3>2. taken'[c] = t /\ held'[c] = h - 1
      BY <2>1
    <3> HIDE DEF t, h
    <3>3. t - (h - 1) = t - h + 1 /\ t - h + 1 <= sent[c]
      BY <3>1
    <3>4. QED
      BY <3>1, <3>2, <3>3 DEF t, h
  <2>3. Gone(c)' <=> Gone(c)
    BY <2>1 DEF Gone
  <2>4. Common'
    BY <1>0, <2>1, <2>2, <2>3, CommonKept
  <2>5. EchoNext
    <3>1. conn[c] = "open"
      BY <1>4 DEF WriteOne
    <3>2. taken[c] - held[c] = Last(c) \/ (NonBlocking /\ Last(c) <= taken[c] - held[c])
      BY <1>0, <3>1 DEF NonBlocking
    <3>3. QED
      BY <2>1, <2>2, <3>2, EchoStep
  <2>6. QED
    BY <2>1, <2>4, <2>5
<1>5. CASE held[c] > 0 /\ WriteLost(c)
  <2>1. /\ NetInv' /\ SameBut(c) /\ Gone(c)'
        /\ UNCHANGED <<alive, sst, sent, taken, out, got, cut>>
    BY <1>5, WriteLostKeeps
  <2>2. conn'[c] # "open"
    BY <2>1 DEF Gone
  <2>3. Common'
    BY <2>1, <2>2, CommonKept
  <2>4. QED
    BY <1>a, <2>1, <2>3
<1>6. CASE WriteKills(c)
  <2>1. /\ NetInv' /\ SameBut(c) /\ conn[c] = "dead" /\ got[c] < sent[c]
        /\ UNCHANGED <<conn, sst, sent, taken, out, got, cut>>
    BY <1>6, WriteKillsKeeps
  <2>2. conn'[c] # "open" /\ Gone(c)' /\ got'[c] < sent'[c]
    BY <2>1 DEF Gone
  <2>3. Common'
    BY <2>1, <2>2, CommonKept
  <2>4. QED
    BY <1>a, <2>1, <2>3
<1>7. CASE held[c] > 0 /\ NonBlocking /\ WriteWhatFits(c)
  <2>1. /\ NetInv' /\ SameBut(c) /\ conn'[c] = conn[c]
        /\ UNCHANGED <<alive, sst, conn, sent, taken, got>>
    BY <1>7, WriteWhatFitsKeeps
  <2>2. PICK n \in Nat : out' = [out EXCEPT ![c] = @ \o Units(taken[c] - held[c], n)] /\ n <= held[c]
    BY <1>7, WriteWhatFitsKeeps
  <2>3. Gone(c)' <=> Gone(c)
    BY <2>1 DEF Gone
  <2>4. Common'
    BY <1>0, <1>7, <2>1, <2>3, CommonKept DEF NonBlocking
  <2>5. taken[c] - held[c] \in Nat /\ taken[c] - held[c] + n <= sent[c]
    <3> DEFINE t == taken[c]
               h == held[c]
    <3>1. t \in Nat /\ h \in Nat /\ n <= h /\ t <= sent[c] /\ sent[c] \in Nat /\ t - h \in Nat
      BY <1>0, <2>2, Numbers
    <3> HIDE DEF t, h
    <3>2. t - h + n <= sent[c]
      BY <3>1
    <3>3. QED
      BY <3>1, <3>2 DEF t, h
  <2>6. EchoNext
    BY <1>0, <1>7, <2>1, <2>2, <2>5, EchoStep
  <2>7. QED
    BY <2>1, <2>4, <2>6
<1>8. CASE /\ kind = "select_win" \/ conn[c] \in {"reset", "dead"}
           /\ alive' = FALSE /\ UNCHANGED <<sst, tcp>>
  <2>1. UNCHANGED <<sst, conn, sent, taken, held, out, got, cut>> /\ alive' = FALSE
    BY <1>8 DEF tcp
  <2>2. NetInv' /\ SameBut(c)
    <3>1. NetFunctions' /\ SameBut(c)
      BY <2>1 DEF NetInv, TypeNet, NetFunctions, SameBut, Same
    <3>2. NetBounds(c)' /\ Good(c)'
      <4>1. NetBounds(c) /\ Good(c)
        BY Numbers
      <4>2. QED
        BY <2>1, <4>1 DEF NetBounds, Good, Last, Room
    <3>3. QED
      BY <3>1, <3>2, OneClient
  <2>3. conn[c] \in {"reset", "dead"} => Gone(c)' /\ got'[c] < sent'[c]
    BY <1>0, <2>1 DEF Gone, Good
  <2>4. Last(c)' = Last(c) /\ (Gone(c)' <=> Gone(c))
    BY <2>1 DEF Last, Gone
  <2>5. Common'
    BY <1>0, <1>8, <2>1, <2>2, <2>3, <2>4, CommonKept
  <2>6. QED
    BY <1>a, <2>1, <2>2, <2>5
<1>9. QED
  BY <1>1, <1>2, <1>3, <1>4, <1>5, <1>6, <1>7, <1>8 DEF Calls

\* What the clients do.
LEMMA ClientKept ==
  ASSUME NetInv, Common, alive, UNCHANGED kind, NEW c \in Clients, ClientStep(c)
  PROVE  Kept /\ SameBut(c)
<1> USE DEF Kept
<1>0. /\ kind \notin {"edge", "async", "iocp"} /\ conn[c] = "open"
           => Last(c) = taken[c] - held[c]
      /\ kind # "select_win" /\ sst[c] = "closed" => Gone(c)
  BY DEF Common, Straight, ClosesOnlyTheGone
<1>a. ASSUME UNCHANGED <<sent, out>>
      PROVE  EchoNext
  BY <1>a DEF EchoNext, NonBlocking
<1>1. CASE Connect(c)
  <2>1. /\ NetInv' /\ SameBut(c) /\ sst'[c] = "queued" /\ Last(c)' = 0
        /\ taken'[c] = 0 /\ held'[c] = 0 /\ UNCHANGED <<alive, sent, out>>
    BY <1>1, ConnectKeeps
  <2>2. taken'[c] - held'[c] = 0
    BY <2>1
  <2>3. Common'
    BY <2>1, <2>2, CommonKept
  <2>4. QED
    BY <1>a, <2>1, <2>3
<1>2. CASE Send(c)
  <2>1. /\ NetInv' /\ SameBut(c) /\ Last(c)' = Last(c)
        /\ UNCHANGED <<alive, conn, sst, taken, held, out, got, cut>>
    BY <1>2, SendKeeps
  <2>2. Gone(c)' <=> Gone(c)
    BY <2>1 DEF Gone
  <2>3. Common'
    BY <1>0, <2>1, <2>2, CommonKept
  <2>4. EchoNext
    <3>1. Promise!Submit(c)
      BY <1>2 DEF Send, Promise!Submit, NonBlocking
    <3>2. QED
      BY <3>1 DEF EchoNext, Promise!Next
  <2>5. QED
    BY <2>1, <2>3, <2>4
<1>3. CASE Receive(c)
  <2>1. /\ NetInv' /\ SameBut(c) /\ Last(c)' = Last(c)
        /\ UNCHANGED <<alive, conn, sst, sent, taken, held, out, cut>>
    BY <1>3, ReceiveKeeps
  <2>2. Gone(c)' <=> Gone(c)
    BY <2>1 DEF Gone
  <2>3. Common'
    BY <1>0, <2>1, <2>2, CommonKept
  <2>4. QED
    BY <1>a, <2>1, <2>3
<1>4. CASE Leave(c)
  <2>1. /\ NetInv' /\ SameBut(c) /\ Gone(c)'
        /\ UNCHANGED <<alive, sst, sent, taken, held, out, got, cut>>
    BY <1>4, LeaveKeeps
  <2>2. conn'[c] # "open"
    BY <2>1 DEF Gone
  <2>3. Common'
    BY <2>1, <2>2, CommonKept
  <2>4. QED
    BY <1>a, <2>1, <2>3
<1>5. QED
  BY <1>1, <1>2, <1>3, <1>4 DEF ClientStep

-----------------------------------------------------------------------------
(* Arrays without repetitions. *)

Distinct(s) == \A j, k \in DOMAIN s : s[j] = s[k] => j = k

LEMMA DistinctFits ==
  ASSUME NEW N \in Nat, NEW s \in Seq(0..N), Distinct(s)
  PROVE  Len(s) \in 0..N + 1
<1>1. Len(s) \in Nat /\ s \in [1..Len(s) -> 0..N] /\ DOMAIN s = 1..Len(s)
  BY LenProperties
<1>2. SUFFICES ASSUME Len(s) > N + 1 PROVE FALSE
  BY <1>1
<1>3. /\ IsFiniteSet(0..N) /\ Cardinality(0..N) = N + 1
      /\ IsFiniteSet(1..Len(s)) /\ Cardinality(1..Len(s)) = Len(s)
  <2>1. IsFiniteSet(0..N) /\ Cardinality(0..N) = IF 0 > N THEN 0 ELSE N - 0 + 1
    BY 0 \in Int, N \in Int, FS_Interval
  <2>2. /\ IsFiniteSet(1..Len(s))
        /\ Cardinality(1..Len(s)) = IF 1 > Len(s) THEN 0 ELSE Len(s) - 1 + 1
    BY <1>1, 1 \in Int, Len(s) \in Int, FS_Interval
  <2>3. QED
    BY <1>1, <1>2, <2>1, <2>2
<1>4. \E j, k \in 1..Len(s) : j # k /\ s[j] = s[k]
  <2>1. Cardinality(0..N) < Cardinality(1..Len(s))
    BY <1>1, <1>2, <1>3
  <2>2. QED
    BY <1>1, <1>3, <2>1, FS_PigeonHole
<1>5. QED
  BY <1>1, <1>4 DEF Distinct

\* t is s without its entry k.
Loses(s, k, t) ==
  /\ Len(t) = Len(s) - 1
  /\ \A j \in DOMAIN t : \E m \in DOMAIN s : m # k /\ t[j] = s[m] /\ m = (IF j < k THEN j ELSE j + 1)

LEMMA TakeOut ==
  ASSUME NEW S, NEW s \in Seq(S), NEW k \in 1..Len(s)
  PROVE  LET t == SubSeq(s, 1, k - 1) \o SubSeq(s, k + 1, Len(s)) IN
           t \in Seq(S) /\ Loses(s, k, t)
<1> DEFINE a == SubSeq(s, 1, k - 1)
           b == SubSeq(s, k + 1, Len(s))
           L == Len(s)
           t == a \o b
<1>1. L \in Nat /\ k \in Int /\ 1 <= k /\ k <= L /\ DOMAIN s = 1..L /\ \A j \in 1..L : s[j] \in S
  BY LenProperties, ElementOfSeq
<1>2. /\ a \in Seq(S) /\ Len(a) = k - 1 /\ \A j \in 1..k - 1 : a[j] = s[j]
  <2>1. k - 1 \in Int /\ \A j \in 1..k - 1 : s[j] \in S
    BY <1>1
  <2>2. /\ a \in Seq(S) /\ Len(a) = IF 1 <= k - 1 THEN k - 1 - 1 + 1 ELSE 0
        /\ \A j \in 1..k - 1 - 1 + 1 : a[j] = s[1 + j - 1]
    BY <2>1, SubSeqProperties
  <2> HIDE DEF a
  <2>3. \A j \in 1..k - 1 : j \in 1..k - 1 - 1 + 1 /\ 1 + j - 1 = j
    BY <1>1
  <2>4. QED
    BY <1>1, <2>2, <2>3
<1>3. /\ b \in Seq(S) /\ Len(b) = L - k /\ \A j \in 1..L - k : b[j] = s[k + j]
  <2>1. k + 1 \in Int /\ L \in Int /\ \A j \in k + 1..L : s[j] \in S
    BY <1>1
  <2>2. /\ b \in Seq(S) /\ Len(b) = IF k + 1 <= L THEN L - (k + 1) + 1 ELSE 0
        /\ \A j \in 1..L - (k + 1) + 1 : b[j] = s[k + 1 + j - 1]
    BY <2>1, SubSeqProperties
  <2> HIDE DEF b, L
  <2>3. \A j \in 1..L - k : j \in 1..L - (k + 1) + 1 /\ k + 1 + j - 1 = k + j
    BY <1>1
  <2>4. QED
    BY <1>1, <2>2, <2>3
<1> HIDE DEF a, b
<1>4. /\ t \in Seq(S) /\ Len(t) = Len(a) + Len(b)
      /\ \A j \in 1..Len(a) + Len(b) : t[j] = IF j <= Len(a) THEN a[j] ELSE b[j - Len(a)]
  BY <1>2, <1>3, ConcatProperties
<1> HIDE DEF t, L
<1>5. Len(t) = L - 1 /\ DOMAIN t = 1..L - 1
      /\ \A j \in 1..L - 1 : t[j] = IF j <= k - 1 THEN a[j] ELSE b[j - (k - 1)]
  <2>1. Len(a) + Len(b) = L - 1
    BY <1>1, <1>2, <1>3
  <2>2. QED
    BY <1>2, <1>4, <2>1, LenProperties
<1>6. ASSUME NEW j \in 1..L - 1
      PROVE  \E m \in 1..L : m # k /\ t[j] = s[m] /\ m = IF j < k THEN j ELSE j + 1
  <2>1. CASE j < k
    <3>1. j \in 1..k - 1 /\ j \in 1..L /\ j <= k - 1 /\ j # k
      BY <1>1, <2>1
    <3>2. t[j] = s[j]
      BY <1>2, <1>5, <3>1
    <3>3. QED
      BY <2>1, <3>1, <3>2
  <2>2. CASE ~(j < k)
    <3>1. /\ j - (k - 1) \in 1..L - k /\ k + (j - (k - 1)) = j + 1 /\ j + 1 \in 1..L
          /\ ~(j <= k - 1) /\ j + 1 # k
      BY <1>1, <2>2
    <3>2. t[j] = b[j - (k - 1)]
      BY <1>5, <3>1
    <3>3. t[j] = s[j + 1]
      BY <1>3, <3>1, <3>2
    <3>4. QED
      BY <2>2, <3>1, <3>3
  <2>3. QED
    BY <2>1, <2>2
<1>7. Loses(s, k, t)
  BY <1>1, <1>5, <1>6 DEF Loses, L
<1>8. QED
  BY <1>4, <1>7 DEF t, a, b, L

LEMMA LosesDistinct ==
  ASSUME NEW S, NEW s \in Seq(S), NEW t \in Seq(S), NEW k \in 1..Len(s), Distinct(s), Loses(s, k, t)
  PROVE  Distinct(t) /\ \A j \in DOMAIN t : t[j] # s[k] /\ \E m \in DOMAIN s : t[j] = s[m]
<1>1. DOMAIN s = 1..Len(s) /\ DOMAIN t = 1..Len(t) /\ Len(s) \in Nat /\ Len(t) \in Nat
  BY LenProperties
<1>2. ASSUME NEW i \in DOMAIN t, NEW j \in DOMAIN t, t[i] = t[j]
      PROVE  i = j
  <2>1. PICK m \in DOMAIN s : t[i] = s[m] /\ m = IF i < k THEN i ELSE i + 1
    BY DEF Loses
  <2>2. PICK n \in DOMAIN s : t[j] = s[n] /\ n = IF j < k THEN j ELSE j + 1
    BY DEF Loses
  <2>3. m = n
    BY <1>2, <2>1, <2>2 DEF Distinct
  <2>4. i \in Nat /\ j \in Nat /\ k \in Nat
    BY <1>1
  <2>5. QED
    BY <2>1, <2>2, <2>3, <2>4
<1>3. \A j \in DOMAIN t : t[j] # s[k] /\ \E m \in DOMAIN s : t[j] = s[m]
  BY <1>1 DEF Loses, Distinct
<1>4. QED
  BY <1>2, <1>3 DEF Distinct

LEMMA PutBehind ==
  ASSUME NEW S, NEW s \in Seq(S), NEW x \in S, Distinct(s), \A j \in DOMAIN s : s[j] # x
  PROVE  LET t == Append(s, x) IN
         /\ t \in Seq(S) /\ Distinct(t) /\ Len(t) = Len(s) + 1
         /\ \A j \in DOMAIN t : t[j] = IF j \in DOMAIN s THEN s[j] ELSE x
<1> DEFINE t == Append(s, x)
<1>1. /\ t \in Seq(S) /\ Len(t) = Len(s) + 1 /\ \A j \in 1..Len(s) : t[j] = s[j]
      /\ t[Len(s) + 1] = x
  BY AppendProperties
<1> HIDE DEF t
<1>2. Len(s) \in Nat /\ DOMAIN s = 1..Len(s) /\ DOMAIN t = 1..Len(s) + 1
  BY <1>1, LenProperties
<1>3. \A j \in DOMAIN t : j \in DOMAIN s \/ j = Len(s) + 1
  BY <1>2
<1>4. \A j \in DOMAIN t : t[j] = IF j \in DOMAIN s THEN s[j] ELSE x
  BY <1>1, <1>2, <1>3
<1>5. Distinct(t)
  BY <1>3, <1>4 DEF Distinct
<1>6. QED
  BY <1>1, <1>4, <1>5 DEF t

-----------------------------------------------------------------------------
(* What each server keeps true. *)

\* select: an entry of reads stands for an open connection of its own, what is
\* still to be looked at is readable, only the client at iSel has units held.
SelTable ==
  /\ 0 \in reads
  /\ \A f \in reads \ {0} : fdtab[f] \in Clients /\ sst[fdtab[f]] = "open"
  /\ \A f, g \in reads \ {0} : fdtab[f] = fdtab[g] => f = g
  /\ \A f \in Sel!Fds \ {0} : f \notin reads => fdtab[f] = 0
SelScan ==
  pcSel # "select" => \A f \in cpy_reads :
    f > iSel \/ (f = iSel /\ pcSel = "scan") =>
      f \in reads /\ IF f = 0 THEN Backlog # {} ELSE Readable(fdtab[f])
SelHolds ==
  /\ pcSel = "write" => iSel \in reads \ {0} /\ held[fdtab[iSel]] > 0
  /\ \A c \in Clients : held[c] > 0 => pcSel = "write" /\ c = fdtab[iSel]
SelInv == kind = "select" => SelTable /\ SelScan /\ SelHolds

\* The set of Windows: no entry twice, all of accepted clients; what the copy has
\* and the loop has still to look at does not wait.  The copy is at least as long
\* as reads up to the last entry it has in common with reads.
InCopy(j) == \E k \in 1..ready : cpyArr[k] = readArr[j]
WinSets ==
  /\ Distinct(readArr) /\ 1 \in DOMAIN readArr /\ readArr[1] = 0
  /\ \A k \in DOMAIN readArr : readArr[k] # 0 => sst[readArr[k]] \in {"open", "closed"}
  /\ \A k \in DOMAIN cpyArr : cpyArr[k] # 0 => sst[cpyArr[k]] \in {"open", "closed"}
  /\ \A k \in DOMAIN cpyArr : k > 1 => cpyArr[k] # 0
  /\ \A j \in DOMAIN readArr : InCopy(j) => j \in DOMAIN cpyArr
WinScan ==
  \A j \in DOMAIN readArr :
    (j > iWin \/ (j = iWin /\ pcWin = "scan")) /\ InCopy(j) =>
      IF readArr[j] = 0 THEN Backlog # {} ELSE ~NothingToRead(readArr[j])
WinHolds ==
  /\ pcWin = "write" =>
       iWin \in DOMAIN readArr /\ readArr[iWin] # 0 /\ held[readArr[iWin]] > 0
  /\ \A c \in Clients : held[c] > 0 => pcWin = "write" /\ c = readArr[iWin]
WinInv == kind = "select_win" => WinSets /\ WinScan /\ WinHolds

\* epoll by level: entries are registered and still readable when served.
LevEvents ==
  /\ \A c \in epLev \ {0} : sst[c] = "open"
  /\ \A s \in evLev : IF s = 0 THEN Backlog # {} ELSE Readable(s)
LevHolds ==
  /\ pcLev = "write" => curLev \in epLev \ {0} /\ curLev \notin evLev /\ held[curLev] > 0
  /\ \A c \in Clients : held[c] > 0 => pcLev = "write" /\ c = curLev
LevInv == kind = "epoll" => LevEvents /\ LevHolds

\* epoll by edge: the client of the inner loop is registered and not in the array.
EdgeHolds ==
  /\ \A c \in epEdge \ {0} : sst[c] = "open"
  /\ pcEdge \in {"read", "write"} => curEdge \in epEdge \ {0} /\ curEdge \notin evEdge
  /\ pcEdge = "write" => held[curEdge] > 0
  /\ \A c \in Clients : held[c] > 0 => pcEdge = "write" /\ c = curEdge
EdgeInv == kind = "edge" => EdgeHolds

\* Events: no socket twice, all of open connections; nothing outlives a call.
EvtSockets ==
  /\ Distinct(hSockArr)
  /\ \A k \in DOMAIN hSockArr : hSockArr[k] # 0 => sst[hSockArr[k]] = "open"
EvtInv == kind = "async" => EvtSockets /\ \A c \in Clients : held[c] = 0

\* Completion routines: units are held between a receive and its send only, and
\* an error or a lost call means a reset.
CmpClient(c) ==
  /\ c \in blocks <=> sst[c] = "open"
  /\ c \in blocks <=> op[c] # "none"
  /\ c \in blocks => len[c] > 0
  /\ op[c] \in {"none", "recv", "senddone"} => held[c] = 0
  /\ op[c] = "send" => held[c] > 0
  /\ op[c] = "lost" => conn[c] = "reset"
  /\ failed[c] => conn[c] \in {"reset", "dead"}
  /\ op[c] = "recvdone" /\ held[c] = 0 /\ ~failed[c] => Gone(c)
CmpInv == kind = "cmplrou" => \A c \in Clients : CmpClient(c)

\* Completion port.  A client's receive is in flight, or in the queue, or in the
\* hands of one worker until that worker has answered and started the next one.
Reads(c, k) == queue[k].rwMode = "READ" /\ queue[k].clnt = c
Serves(c, w) == wpc[w] \in {"send", "recv", "close"} /\ ioInfo[w].clnt = c

OneReceive(c) ==
  /\ c \in rcv => /\ \A k \in DOMAIN queue : ~Reads(c, k)
                  /\ \A w \in Port!Workers : ~Serves(c, w)
  /\ \A k \in DOMAIN queue : Reads(c, k) =>
       /\ \A j \in DOMAIN queue : Reads(c, j) => j = k
       /\ \A w \in Port!Workers : ~Serves(c, w)
  /\ \A v, w \in Port!Workers : Serves(c, v) /\ Serves(c, w) => v = w

\* Whoever has it, the socket is open.
OpenServed(c) ==
  (c \in rcv \/ (\E k \in DOMAIN queue : Reads(c, k)) \/ \E w \in Port!Workers : Serves(c, w))
    => sst[c] = "open" /\ c \in handles

\* What a receive has brought follows what has been written, and is all there is.
Follows(i) ==
  /\ i.from + i.bytesTrans = taken[i.clnt]
  /\ Len(out[i.clnt]) <= i.from /\ Last(i.clnt) <= i.from
  /\ conn[i.clnt] = "open" => Last(i.clnt) = i.from
  /\ i.bytesTrans = 0 => Gone(i.clnt)

\* So the next one to write is the next one to read once the answer has gone.
UpToDate(c) ==
  /\ held[c] = 0 /\ cut[c] = 0
  /\ \/ sst[c] = "queued"
     \/ c \in rcv
     \/ \E w \in Port!Workers : wpc[w] = "recv" /\ ioInfo[w].clnt = c
     => (conn[c] = "open" => Last(c) = taken[c])

Following ==
  /\ \A k \in DOMAIN queue : queue[k].rwMode = "READ" => Follows(queue[k])
  /\ \A w \in Port!Workers :
       /\ wpc[w] \in {"send", "close"} => Follows(ioInfo[w])
       /\ wpc[w] = "send" => ioInfo[w].bytesTrans > 0
       /\ wpc[w] = "close" => ioInfo[w].bytesTrans = 0

Completions == [clnt : Clients, rwMode : {"READ", "WRITE"}, from : Nat, bytesTrans : Nat]
TypePort ==
  /\ queue \in Seq(Completions)
  /\ ioInfo \in [Port!Workers -> Completions \cup {Port!NoInfo}]
  /\ \A w \in Port!Workers : wpc[w] \notin {"get", "ended"} => ioInfo[w] \in Completions
PortInv ==
  kind = "iocp" => Following /\ \A c \in Clients : OneReceive(c) /\ OpenServed(c) /\ UpToDate(c)

\* The other servers have no workers.
NoneServing == kind # "iocp" => \A w \in Port!Workers : wpc[w] = "get"

IInv == /\ TypeOK /\ TypePort /\ NetInv /\ Common /\ kind \in Kinds /\ ArraysAgree /\ NoneServing
        /\ SelInv /\ WinInv /\ LevInv /\ EdgeInv /\ EvtInv /\ CmpInv /\ PortInv

-----------------------------------------------------------------------------
(* What the proof of every server uses. *)

LEMMA Servers ==
  ASSUME IInv
  PROVE  /\ NetInv /\ Common /\ ArraysAgree /\ TypePort
         /\ Sel!TypeOK /\ Win!TypeOK /\ Lev!TypeOK /\ Edge!TypeOK
         /\ Evt!TypeOK /\ Cmp!TypeOK /\ Port!TypeOK
         /\ 0 \notin Clients /\ Clients \subseteq Nat /\ Len(MaxUnits) \in Nat
         /\ Clients = 1..Len(MaxUnits)
  BY NetConstants, EchoNetAssumption, LenProperties DEF IInv, TypeOK, Clients

\* What can be read from d depends on d alone.
LEMMA OthersSame ==
  ASSUME UNCHANGED kind, NEW c \in Clients, SameBut(c), NEW d \in Clients \ {c}
  PROVE  /\ (Readable(d)' <=> Readable(d)) /\ (NothingToRead(d)' <=> NothingToRead(d))
         /\ (Gone(d)' <=> Gone(d)) /\ Unread(d)' = Unread(d)
         /\ sst'[d] = sst[d] /\ held'[d] = held[d] /\ conn'[d] = conn[d]
<1>1. /\ sst'[d] = sst[d] /\ held'[d] = held[d] /\ conn'[d] = conn[d]
      /\ sent'[d] = sent[d] /\ taken'[d] = taken[d]
  BY DEF SameBut, Same
<1>2. Unread(d)' = Unread(d)
  BY <1>1 DEF Unread, Windows
<1>3. Gone(d)' <=> Gone(d)
  BY <1>1 DEF Gone
<1>4. (Readable(d)' <=> Readable(d)) /\ (NothingToRead(d)' <=> NothingToRead(d))
  BY <1>1, <1>2, <1>3 DEF Readable, NothingToRead
<1>5. QED
  BY <1>1, <1>2, <1>3, <1>4

\* Clients only ever give a server more to do.
MoreToDo(d) ==
  /\ Readable(d) => Readable(d)'
  /\ ~NothingToRead(d) => ~NothingToRead(d)'
  /\ Gone(d) => Gone(d)'
  /\ conn[d] \in {"reset", "dead"} => conn'[d] = conn[d]
  /\ sst[d] # "none" => sst'[d] = sst[d] /\ (conn'[d] = "open" => conn[d] = "open")

LEMMA ClientsGive ==
  ASSUME NetInv, UNCHANGED kind, NEW c \in Clients, ClientStep(c)
  PROVE  /\ Backlog # {} => Backlog' # {}
         /\ UNCHANGED <<held, taken, out, alive>> /\ SameBut(c) /\ NetInv'
         /\ \A d \in Clients : MoreToDo(d)
<1> USE DEF MoreToDo
<1>1. /\ SameBut(c) /\ NetInv'
      /\ UNCHANGED <<held, taken, out, alive>>
  BY ConnectKeeps, SendKeeps, ReceiveKeeps, LeaveKeeps DEF ClientStep
<1>2. ASSUME NEW d \in Clients \ {c}
      PROVE  MoreToDo(d)
  BY <1>1, OthersSame
<1>3. MoreToDo(c)
  <2>0. /\ sent[c] \in Nat /\ taken[c] \in Nat /\ taken[c] <= sent[c] /\ Good(c)
    BY Numbers
  <2>1. CASE Connect(c)
    <3>1. conn[c] = "none" /\ sst[c] = "none" /\ sent[c] = 0 /\ taken[c] = 0
      BY <2>0, <2>1 DEF Connect, Good
    <3>2. Unread(c) = 0 /\ NothingToRead(c) /\ ~Readable(c) /\ ~Gone(c)
      BY <3>1 DEF Unread, NothingToRead, Readable, Gone
    <3>3. QED
      BY <3>1, <3>2
  <2>2. CASE Send(c)
    <3>1. /\ UNCHANGED <<conn, sst, taken>> /\ sent'[c] = sent[c] + 1 /\ conn[c] = "open"
      BY <2>2, SendKeeps
    <3>2. Unread(c) = sent[c] - taken[c] /\ Unread(c)' = sent[c] + 1 - taken[c]
      <4>1. conn[c] # "reset" /\ conn'[c] # "reset" /\ taken'[c] = taken[c]
        BY <3>1
      <4>2. ~(Windows /\ conn[c] = "reset") /\ ~(Windows /\ conn[c] = "reset")'
        BY <4>1
      <4>3. Unread(c) = sent[c] - taken[c] /\ Unread(c)' = sent'[c] - taken'[c]
        BY <4>2 DEF Unread
      <4>4. QED
        BY <2>0, <3>1, <4>1, <4>3
    <3>3. QED
      BY <2>0, <3>1, <3>2 DEF Readable, NothingToRead, Gone
  <2>3. CASE Receive(c)
    <3>1. UNCHANGED <<conn, sst, taken, sent>>
      BY <2>3, ReceiveKeeps
    <3>2. QED
      BY <3>1 DEF Readable, NothingToRead, Gone, Unread, Windows
  <2>4. CASE Leave(c)
    <3>1. UNCHANGED sst /\ Gone(c)' /\ conn[c] = "open"
      BY <2>4, LeaveKeeps
    <3>2. QED
      BY <3>1 DEF Readable, NothingToRead, Gone
  <2>5. QED
    BY <2>1, <2>2, <2>3, <2>4 DEF ClientStep
<1>4. Backlog # {} => Backlog' # {}
  <2>1. ASSUME NEW d \in Backlog
        PROVE  d \in Backlog'
    BY <2>1, <1>2, <1>3 DEF Backlog
  <2>2. QED
    BY <2>1
<1>5. QED
  BY <1>1, <1>2, <1>3, <1>4

-----------------------------------------------------------------------------
(* echo_selectserv.c *)

LEMMA SelNet ==
  /\ Sel!Clients = Clients /\ Sel!Backlog = Backlog /\ Sel!NextQueued = NextQueued
  /\ \A c : Sel!Readable(c) <=> Readable(c)
  /\ \A c : Sel!Accept(c) <=> Accept(c)
  /\ \A c : Sel!ReadData(c) <=> ReadData(c)
  /\ \A c : Sel!ReadReset(c) <=> ReadReset(c)
  /\ \A c : Sel!AtEof(c) <=> AtEof(c)
  /\ \A c : Sel!NothingToRead(c) <=> NothingToRead(c)
  /\ \A c : Sel!Close(c) <=> Close(c)
  /\ \A c : Sel!WriteBlocking(c) <=> WriteBlocking(c)
  BY DEF Sel!Clients, Clients, Sel!Backlog, Backlog, Sel!NextQueued, NextQueued,
     Sel!Readable, Readable, Sel!Accept, Accept, Sel!ReadData, ReadData, Sel!ReadUpTo, ReadUpTo,
     Sel!ReadReset, ReadReset, Sel!AfterReset, AfterReset, Sel!AtEof, AtEof,
     Sel!NothingToRead, NothingToRead, Sel!Close, Close, Sel!WriteBlocking, WriteBlocking,
     Sel!WriteOne, WriteOne, Sel!WriteLost, WriteLost, Sel!WriteKills, WriteKills,
     Sel!Room, Room, Sel!Unread, Unread, Sel!Windows, Windows, Sel!Least, Least,
     Sel!Gone, Gone, Sel!tcp, tcp

LEMMA Stutter ==
  ASSUME NetInv, Common, UNCHANGED <<kind, netVars>>
  PROVE  /\ Kept /\ UNCHANGED <<sst, held, conn>> /\ Backlog' = Backlog
         /\ \A d : (Readable(d)' <=> Readable(d)) /\ (NothingToRead(d)' <=> NothingToRead(d))
<1>1. UNCHANGED <<kind, alive, conn, sst, sent, taken, held, out, got, cut>>
  BY DEF netVars, tcp
<1>2. NetInv'
  BY <1>1 DEF NetInv, TypeNet, NetFunctions, NetBounds, Good, Last, Room
<1>3. Common'
  BY <1>1 DEF Common, Straight, Last, ClosesOnlyTheGone, PoliteClientsAreSafe, Gone
<1>4. EchoNext
  BY <1>1 DEF EchoNext, NonBlocking
<1>5. Backlog' = Backlog
  BY <1>1 DEF Backlog
<1>6. \A d : (Readable(d)' <=> Readable(d)) /\ (NothingToRead(d)' <=> NothingToRead(d))
  BY <1>1 DEF Readable, NothingToRead, Gone, Unread, Windows
<1>7. QED
  BY <1>1, <1>2, <1>3, <1>4, <1>5, <1>6 DEF Kept

\* While client c = fdtab[iSel] is served, nothing happens to those after it.
LEMMA SelLater ==
  ASSUME SelTable, SelScan, pcSel # "select", UNCHANGED <<kind, cpy_reads>>, iSel \in Nat \ {0},
         iSel \in reads, NEW c \in Clients, c = fdtab[iSel], SameBut(c),
         \A f \in cpy_reads : f \in Nat
  PROVE  /\ \A f \in reads \ {0, iSel} : /\ fdtab[f] \in Clients \ {c}
                                       /\ \A d : d = fdtab[f] => sst'[d] = sst[d]
         /\ \A f \in cpy_reads : f > iSel =>
              /\ f \in reads \ {0, iSel}
              /\ \A d : d = fdtab[f] => Readable(d)'
<1>1. ASSUME NEW f \in reads \ {0, iSel}
      PROVE  fdtab[f] \in Clients \ {c}
  BY DEF SelTable
<1>2. ASSUME NEW d \in Clients \ {c}
      PROVE  sst'[d] = sst[d] /\ (Readable(d)' <=> Readable(d))
  BY OthersSame
<1>3. ASSUME NEW f \in cpy_reads, f > iSel
      PROVE  f \in reads \ {0, iSel} /\ Readable(fdtab[f])
  <2>1. f # 0 /\ f # iSel
    BY <1>3
  <2>2. QED
    BY <1>3, <2>1 DEF SelScan
<1>4. QED
  BY <1>1, <1>2, <1>3

LEMMA SelStepKeeps ==
  ASSUME IInv, SelectStep
  PROVE  Kept /\ Sel!TypeOK' /\ SelInv'
<1> USE DEF Sel!serv_sock, Sel!Nobody
<1> DEFINE N == Len(MaxUnits)
<1>0. /\ kind = "select" /\ alive /\ UNCHANGED kind /\ Sel!Step
      /\ NetInv /\ Common /\ SelTable /\ SelScan /\ SelHolds
      /\ 0 \notin Clients /\ Clients \subseteq Nat /\ N \in Nat
  BY Servers DEF SelectStep, IInv, SelInv
<1>1. /\ pcSel \in {"select", "scan", "write"}
      /\ fdtab \in [0..N -> Clients \cup {0}]
      /\ reads \subseteq 0..N /\ cpy_reads \subseteq 0..N
      /\ fd_max \in 0..N /\ iSel \in 0..N + 1
  BY Servers, SelNet DEF Sel!TypeOK, Sel!Fds
<1>2. Sel!Fds = 0..N /\ Sel!Fds' = 0..N /\ Sel!Clients' = Clients
  BY SelNet DEF Sel!Fds
<1>3. Sel!TypeOK' <=> /\ pcSel' \in {"select", "scan", "write"}
                      /\ fdtab' \in [0..N -> Clients \cup {0}]
                      /\ reads' \subseteq 0..N /\ cpy_reads' \subseteq 0..N
                      /\ fd_max' \in 0..N /\ iSel' \in 0..N + 1
  BY <1>2 DEF Sel!TypeOK
<1>4. held \in [Clients -> Nat] /\ sst \in [Clients -> {"none", "queued", "open", "closed"}]
  BY <1>0, Typed
<1>5. \A f \in cpy_reads : f \in Nat
  BY <1>0, <1>1
<1> HIDE DEF N
<1>6. CASE Sel!Select
  <2>1. /\ UNCHANGED <<netVars, fdtab, reads, fd_max>> /\ pcSel = "select" /\ pcSel' = "scan"
        /\ iSel' = 0 /\ cpy_reads' \subseteq reads
        /\ \A f \in cpy_reads' : IF f = 0 THEN Backlog # {} ELSE Readable(fdtab[f])
    BY <1>6, SelNet DEF Sel!Select, Sel!WaitReturnsReady, Sel!FdReadable, Sel!netVars,
       Sel!tcp, netVars, tcp
  <2>2. /\ Kept /\ UNCHANGED <<sst, held>> /\ Backlog' = Backlog
        /\ \A d : Readable(d)' <=> Readable(d)
    BY <1>0, <2>1, Stutter
  <2>3. Sel!TypeOK'
    BY <1>0, <1>1, <1>3, <2>1
  <2>4. SelTable'
    BY <1>0, <1>2, <2>1, <2>2 DEF SelTable
  <2>5. SelScan'
    BY <2>1, <2>2 DEF SelScan
  <2>6. SelHolds'
    BY <1>0, <2>1, <2>2 DEF SelHolds
  <2>7. QED
    BY <2>2, <2>3, <2>4, <2>5, <2>6 DEF SelInv
<1>7. CASE Sel!Skip
  <2>1. /\ UNCHANGED <<netVars, fdtab, reads, fd_max, cpy_reads, pcSel>> /\ pcSel = "scan"
        /\ iSel' = iSel + 1 /\ iSel <= fd_max
    BY <1>7 DEF Sel!Skip, Sel!netVars, Sel!tcp, netVars, tcp
  <2>2. /\ Kept /\ UNCHANGED <<sst, held>> /\ Backlog' = Backlog
        /\ \A d : Readable(d)' <=> Readable(d)
    BY <1>0, <2>1, Stutter
  <2>3. Sel!TypeOK'
    BY <1>0, <1>1, <1>3, <2>1
  <2>4. SelTable'
    BY <1>0, <1>2, <2>1, <2>2 DEF SelTable
  <2>5. SelScan'
    BY <1>0, <1>1, <1>5, <2>1, <2>2 DEF SelScan
  <2>6. SelHolds'
    BY <1>0, <2>1, <2>2 DEF SelHolds
  <2>7. QED
    BY <2>2, <2>3, <2>4, <2>5, <2>6 DEF SelInv
<1>8. CASE Sel!EndScan
  <2>1. /\ UNCHANGED <<netVars, fdtab, reads, fd_max>> /\ cpy_reads' = {} /\ pcSel = "scan"
        /\ pcSel' = "select" /\ iSel' = 0
    BY <1>8 DEF Sel!EndScan, Sel!netVars, Sel!tcp, netVars, tcp
  <2>2. Kept /\ UNCHANGED <<sst, held>>
    BY <1>0, <2>1, Stutter
  <2>3. Sel!TypeOK'
    BY <1>0, <1>1, <1>3, <2>1
  <2>4. SelTable' /\ SelScan' /\ SelHolds'
    BY <1>0, <1>2, <2>1, <2>2 DEF SelTable, SelScan, SelHolds
  <2>5. QED
    BY <2>2, <2>3, <2>4 DEF SelInv
<1>9. CASE Sel!AcceptOne
  <2> DEFINE c == NextQueued
  <2>1. /\ UNCHANGED cpy_reads /\ pcSel = "scan" /\ iSel = 0 /\ iSel \in cpy_reads
        /\ Accept(c) /\ iSel' = iSel + 1 /\ pcSel' = "scan"
    BY <1>9, SelNet DEF Sel!AcceptOne, Sel!NextFd
  <2>2. PICK f \in 1..N : /\ fdtab[f] = 0 /\ fdtab' = [fdtab EXCEPT ![f] = c]
                          /\ reads' = reads \cup {f}
                          /\ fd_max' = IF fd_max < f THEN f ELSE fd_max
    <3>1. \A f \in Sel!Fds \ {0} : f \in 1..N
      BY <1>0, <1>2
    <3>2. QED
      BY <1>9, <3>1, SelNet DEF Sel!AcceptOne, Sel!IsLowestFree, Sel!IsFree
  <2>3. /\ c \in Clients /\ sst[c] = "queued" /\ sst'[c] = "open" /\ UNCHANGED held
    BY <1>4, <2>1 DEF Accept, Backlog, tcp
  <2> HIDE DEF c
  <2>4. Kept /\ SameBut(c)
    BY <1>0, <2>1, <2>3, CallKept DEF Calls
  <2>5. /\ \A d \in Clients \ {c} : sst'[d] = sst[d] /\ (Readable(d)' <=> Readable(d))
    BY <1>0, <2>3, <2>4, OthersSame
  <2>6. f \in 0..N /\ f # 0 /\ fdtab' \in [0..N -> Clients \cup {0}] /\ fdtab'[f] = c
        /\ \A g \in 0..N \ {f} : fdtab'[g] = fdtab[g]
    BY <1>0, <1>1, <2>2, <2>3
  <2>7. f \notin reads /\ \A g \in reads \ {0} : fdtab[g] \in Clients \ {c}
    BY <1>0, <2>2, <2>3, <2>6 DEF SelTable
  <2>8. Sel!TypeOK'
    BY <1>0, <1>1, <1>3, <2>1, <2>2, <2>6
  <2>9. SelTable'
    <3>1. \A g \in reads' \ {0} : (g = f /\ fdtab'[g] = c) \/ (g \in reads \ {0} /\ fdtab'[g] = fdtab[g])
      BY <1>1, <2>2, <2>6, <2>7
    <3>2. \A g \in Sel!Fds \ {0} : g \notin reads' => fdtab'[g] = 0
      BY <1>0, <1>2, <2>2, <2>6 DEF SelTable
    <3>3. 0 \in reads' /\ \A g \in reads' \ {0} : fdtab'[g] \in Clients /\ sst'[fdtab'[g]] = "open"
      <4>1. ASSUME NEW g \in reads' \ {0}
            PROVE  fdtab'[g] \in Clients /\ sst'[fdtab'[g]] = "open"
        <5>1. CASE fdtab'[g] = c
          BY <2>3, <5>1
        <5>2. CASE g \in reads \ {0} /\ fdtab'[g] = fdtab[g]
          BY <1>0, <2>5, <2>7, <5>2 DEF SelTable
        <5>3. QED
          BY <3>1, <5>1, <5>2
      <4>2. QED
        BY <1>0, <2>2, <4>1 DEF SelTable
    <3>4. \A g, h \in reads' \ {0} : fdtab'[g] = fdtab'[h] => g = h
      BY <1>0, <2>7, <3>1 DEF SelTable
    <3>5. QED
      BY <1>2, <3>2, <3>3, <3>4 DEF SelTable
  <2>10. SelScan'
    <3>1. ASSUME NEW g \in cpy_reads, g >= 1
          PROVE  g \in reads' /\ Readable(fdtab[g])'
      <4>1. g \in reads /\ Readable(fdtab[g]) /\ g # 0
        BY <1>0, <1>5, <2>1, <3>1 DEF SelScan
      <4>2. fdtab[g] \in Clients \ {c} /\ g # f /\ g \in 0..N
        BY <1>1, <2>2, <2>7, <4>1
      <4>3. PICK d \in Clients \ {c} : d = fdtab[g] /\ d = fdtab'[g]
        BY <2>6, <4>2
      <4>4. Readable(d)
        BY <4>1, <4>3
      <4>5. Readable(d)'
        BY <2>5, <4>4
      <4>6. QED
        BY <2>2, <4>1, <4>3, <4>5
    <3>2. QED
      <4>1. iSel' = 1 /\ cpy_reads' = cpy_reads
        BY <2>1
      <4>2. \A g \in cpy_reads : g > 1 \/ g = 1 => g >= 1 /\ g # 0
        BY <1>5
      <4>3. \A g \in cpy_reads' : g > iSel' \/ g = iSel' => g \in reads' /\ g # 0 /\ Readable(fdtab[g])'
        BY <3>1, <4>1, <4>2
      <4>4. QED
        BY <4>3 DEF SelScan
  <2>11. SelHolds'
    BY <1>0, <2>1, <2>3 DEF SelHolds
  <2>12. QED
    BY <2>4, <2>8, <2>9, <2>10, <2>11 DEF SelInv
<1>10. ASSUME Sel!AtClient
       PROVE  /\ iSel \in reads /\ iSel \in Nat \ {0} /\ pcSel = "scan"
              /\ fdtab[iSel] \in Clients /\ held[fdtab[iSel]] = 0 /\ sst[fdtab[iSel]] = "open"
              /\ \A c \in Clients : held[c] = 0
  <2>1. iSel \in cpy_reads /\ iSel # 0 /\ pcSel = "scan"
    BY <1>10 DEF Sel!AtClient
  <2>2. iSel \in reads /\ iSel \in Nat \ {0}
    BY <1>0, <1>5, <2>1 DEF SelScan
  <2>3. \A c \in Clients : held[c] = 0
    BY <1>0, <1>4, <2>1 DEF SelHolds
  <2>4. QED
    BY <1>0, <2>1, <2>2, <2>3 DEF SelTable
<1>11. CASE Sel!ReadSome
  <2>1. /\ Sel!AtClient /\ ReadData(fdtab[iSel]) /\ pcSel' = "write"
        /\ UNCHANGED <<fdtab, reads, cpy_reads, fd_max, iSel>>
    BY <1>11, SelNet DEF Sel!ReadSome
  <2>2. PICK c \in Clients : c = fdtab[iSel]
    BY <1>10, <2>1
  <2>3. ReadUpTo(c, Buf) /\ Buf \in Nat /\ 0 < Buf /\ Buf <= Buf /\ held[c] = 0
    BY <1>10, <2>1, <2>2, NetConstants DEF ReadData
  <2>4. Kept /\ SameBut(c)
    BY <1>0, <2>3, CallKept DEF Calls
  <2>5. held'[c] > 0 /\ UNCHANGED sst
    BY <1>0, <2>3, ReadKeeps
  <2>6. /\ \A f \in cpy_reads : f > iSel =>
             f \in reads \ {0, iSel} /\ \A d : d = fdtab[f] => Readable(d)'
    BY <1>0, <1>5, <1>10, <2>1, <2>2, <2>4, SelLater
  <2>7. Sel!TypeOK'
    BY <1>0, <1>1, <1>3, <2>1
  <2>8. SelTable'
    BY <1>0, <1>2, <2>1, <2>5 DEF SelTable
  <2>9. SelScan'
    BY <2>1, <2>6 DEF SelScan
  <2>10. SelHolds'
    BY <1>10, <2>1, <2>2, <2>4, <2>5 DEF SelHolds, SameBut, Same
  <2>11. QED
    BY <2>4, <2>7, <2>8, <2>9, <2>10 DEF SelInv
<1>12. CASE Sel!ReadFails
  <2>1. /\ Sel!AtClient /\ ReadReset(fdtab[iSel]) /\ pcSel' = "scan" /\ iSel' = iSel + 1
        /\ UNCHANGED <<fdtab, reads, cpy_reads, fd_max>>
    BY <1>12, SelNet DEF Sel!ReadFails, Sel!NextFd
  <2>2. PICK c \in Clients : c = fdtab[iSel]
    BY <1>10, <2>1
  <2>3. Kept /\ SameBut(c) /\ UNCHANGED <<sst, held>>
    BY <1>0, <2>1, <2>2, CallKept, ResetKeeps DEF Calls
  <2>4. /\ \A f \in cpy_reads : f > iSel =>
             f \in reads \ {0, iSel} /\ \A d : d = fdtab[f] => Readable(d)'
    BY <1>0, <1>5, <1>10, <2>1, <2>2, <2>3, SelLater
  <2>5. Sel!TypeOK'
    BY <1>0, <1>1, <1>3, <1>10, <2>1
  <2>6. SelTable'
    BY <1>0, <1>2, <2>1, <2>3 DEF SelTable
  <2>7. SelScan'
    BY <1>5, <1>10, <2>1, <2>4 DEF SelScan
  <2>8. SelHolds'
    BY <1>10, <2>1, <2>3 DEF SelHolds
  <2>9. QED
    BY <2>3, <2>5, <2>6, <2>7, <2>8 DEF SelInv
<1>13. CASE Sel!ReadZero
  <2>1. /\ Sel!AtClient /\ AtEof(fdtab[iSel]) /\ Close(fdtab[iSel])
        /\ fdtab' = [fdtab EXCEPT ![iSel] = 0] /\ reads' = reads \ {iSel}
        /\ pcSel' = "scan" /\ iSel' = iSel + 1 /\ UNCHANGED <<cpy_reads, fd_max>>
    BY <1>13, SelNet DEF Sel!ReadZero, Sel!NextFd
  <2>2. PICK c \in Clients : c = fdtab[iSel]
    BY <1>10, <2>1
  <2>3. Close(c) /\ Gone(c) /\ sst[c] # "none"
    BY <1>10, <2>1, <2>2 DEF AtEof, Gone
  <2>4. Kept /\ SameBut(c) /\ UNCHANGED held
    BY <1>0, <2>3, CallKept DEF Calls, Close, tcp
  <2>5. /\ \A f \in reads \ {0, iSel} : /\ fdtab[f] \in Clients \ {c}
                                       /\ \A d : d = fdtab[f] => sst'[d] = sst[d]
        /\ \A f \in cpy_reads : f > iSel =>
             f \in reads \ {0, iSel} /\ \A d : d = fdtab[f] => Readable(d)'
    BY <1>0, <1>5, <1>10, <2>1, <2>2, <2>4, SelLater
  <2>6. /\ iSel \in 0..N /\ fdtab' \in [0..N -> Clients \cup {0}] /\ fdtab'[iSel] = 0
        /\ \A f \in 0..N \ {iSel} : fdtab'[f] = fdtab[f]
    BY <1>1, <1>10, <2>1
  <2>7. Sel!TypeOK'
    BY <1>0, <1>1, <1>3, <1>10, <2>1, <2>6
  <2>8. SelTable'
    <3>1. \A f \in reads' \ {0} : f \in reads \ {0, iSel} /\ fdtab'[f] = fdtab[f]
      BY <1>1, <2>1, <2>6
    <3>2. \A f \in reads' \ {0} : fdtab'[f] \in Clients /\ sst'[fdtab'[f]] = "open"
      BY <1>0, <2>5, <3>1 DEF SelTable
    <3>3. \A f, g \in reads' \ {0} : fdtab'[f] = fdtab'[g] => f = g
      BY <1>0, <3>1 DEF SelTable
    <3>4. \A f \in Sel!Fds \ {0} : f \notin reads' => fdtab'[f] = 0
      BY <1>0, <1>2, <2>1, <2>6 DEF SelTable
    <3>5. 0 \in reads'
      BY <1>0, <1>10, <2>1 DEF SelTable
    <3>6. QED
      BY <1>2, <3>2, <3>3, <3>4, <3>5 DEF SelTable
  <2>9. SelScan'
    <3>1. \A f \in cpy_reads : f > iSel =>
            f \in reads' /\ f # 0 /\ fdtab'[f] = fdtab[f] /\ \A d : d = fdtab[f] => Readable(d)'
      BY <1>1, <2>1, <2>5, <2>6
    <3>2. \A f \in cpy_reads : f > iSel + 1 \/ f = iSel + 1 => f > iSel
      BY <1>5, <1>10, <2>1
    <3>3. QED
      BY <2>1, <3>1, <3>2 DEF SelScan
  <2>10. SelHolds'
    BY <1>10, <2>1, <2>4 DEF SelHolds
  <2>11. QED
    BY <2>4, <2>7, <2>8, <2>9, <2>10 DEF SelInv
<1>14. CASE Sel!Write
  <2>1. /\ pcSel = "write" /\ WriteBlocking(fdtab[iSel])
        /\ UNCHANGED <<fdtab, reads, cpy_reads, fd_max>>
        /\ IF held'[fdtab[iSel]] = 0 THEN iSel' = iSel + 1 /\ pcSel' = "scan"
                                     ELSE UNCHANGED <<pcSel, iSel>>
    BY <1>14, SelNet DEF Sel!Write, Sel!NextFd
  <2>2. /\ iSel \in reads /\ iSel \in Nat \ {0} /\ fdtab[iSel] \in Clients
        /\ held[fdtab[iSel]] > 0 /\ iSel <= N
    BY <1>0, <1>1, <2>1 DEF SelHolds, SelTable
  <2>3. PICK c \in Clients : c = fdtab[iSel]
    BY <2>2
  <2>4. Kept /\ SameBut(c) /\ held'[c] \in Nat /\ UNCHANGED sst
    <3>1. held[c] > 0 /\ WriteBlocking(c)
      BY <2>1, <2>2, <2>3
    <3>2. Kept /\ SameBut(c)
      BY <1>0, <3>1, CallKept DEF Calls, WriteBlocking
    <3>3. UNCHANGED sst
      BY <3>1 DEF WriteBlocking, WriteOne, WriteLost, WriteKills
    <3>4. held'[c] \in Nat
      BY <3>2 DEF Kept, NetInv, TypeNet, NetFunctions
    <3>5. QED
      BY <3>2, <3>3, <3>4
  <2>5. /\ \A f \in cpy_reads : f > iSel =>
             f \in reads \ {0, iSel} /\ \A d : d = fdtab[f] => Readable(d)'
    BY <1>0, <1>5, <2>1, <2>2, <2>3, <2>4, SelLater
  <2>6. \A d \in Clients : held'[d] > 0 => d = c
    BY <1>0, <2>1, <2>3, <2>4 DEF SelHolds, SameBut, Same
  <2>7. SelTable'
    BY <1>0, <1>2, <2>1, <2>4 DEF SelTable
  <2>8. CASE held'[c] = 0
    <3>1. iSel' = iSel + 1 /\ pcSel' = "scan"
      BY <2>1, <2>3, <2>8
    <3>2. Sel!TypeOK'
      BY <1>0, <1>1, <1>3, <2>1, <2>2, <3>1
    <3>3. SelScan'
      <4>1. \A f \in cpy_reads : f > iSel + 1 \/ f = iSel + 1 => f > iSel
        BY <1>5, <2>2
      <4>2. QED
        BY <2>1, <2>5, <3>1, <4>1 DEF SelScan
    <3>4. SelHolds'
      BY <2>6, <2>8, <3>1 DEF SelHolds
    <3>5. QED
      BY <2>4, <2>7, <3>2, <3>3, <3>4 DEF SelInv
  <2>9. CASE held'[c] # 0
    <3>1. UNCHANGED <<pcSel, iSel>> /\ held'[c] > 0
      BY <2>1, <2>3, <2>4, <2>9
    <3>2. Sel!TypeOK'
      BY <1>0, <1>1, <1>3, <2>1, <3>1
    <3>3. SelScan'
      BY <2>1, <2>5, <3>1 DEF SelScan
    <3>4. SelHolds'
      BY <2>1, <2>2, <2>3, <2>6, <3>1 DEF SelHolds
    <3>5. QED
      BY <2>4, <2>7, <3>2, <3>3, <3>4 DEF SelInv
  <2>10. QED
    BY <2>8, <2>9
<1>15. QED
  BY <1>0, <1>6, <1>7, <1>8, <1>9, <1>11, <1>12, <1>13, <1>14 DEF Sel!Step

LEMMA SelClientKeeps ==
  ASSUME IInv, kind = "select", NEW c \in Clients, Client(c)
  PROVE  SelInv'
<1>0. /\ SelTable /\ SelScan /\ SelHolds /\ NetInv /\ ClientStep(c) /\ UNCHANGED kind
      /\ UNCHANGED <<pcSel, fdtab, reads, cpy_reads, iSel>>
  BY Servers DEF IInv, SelInv, Client, serverVars, selectVars
<1>1. /\ Backlog # {} => Backlog' # {}
      /\ UNCHANGED held
      /\ \A d \in Clients : (Readable(d) => Readable(d)') /\ (sst[d] = "open" => sst'[d] = "open")
  BY <1>0, ClientsGive DEF MoreToDo
<1>2. SelTable'
  <2>1. Sel!Fds' = Sel!Fds
    BY DEF Sel!Fds
  <2>2. QED
    BY <1>0, <1>1, <2>1 DEF SelTable
<1>3. SelScan'
  BY <1>0, <1>1 DEF SelScan, SelTable
<1>4. SelHolds'
  BY <1>0, <1>1 DEF SelHolds
<1>5. QED
  BY <1>2, <1>3, <1>4 DEF SelInv

-----------------------------------------------------------------------------
(* echo_EPLTserv.c *)

LEMMA LevNet ==
  /\ Lev!Clients = Clients /\ Lev!Backlog = Backlog /\ Lev!NextQueued = NextQueued
  /\ Lev!netVars = netVars
  /\ \A c : Lev!Readable(c) <=> Readable(c)
  /\ \A c : Lev!Accept(c) <=> Accept(c)
  /\ \A c : Lev!ReadData(c) <=> ReadData(c)
  /\ \A c : Lev!ReadReset(c) <=> ReadReset(c)
  /\ \A c : Lev!AtEof(c) <=> AtEof(c)
  /\ \A c : Lev!NothingToRead(c) <=> NothingToRead(c)
  /\ \A c : Lev!Close(c) <=> Close(c)
  /\ \A c : Lev!WriteBlocking(c) <=> WriteBlocking(c)
  BY DEF Lev!Clients, Clients, Lev!Backlog, Backlog, Lev!NextQueued, NextQueued,
     Lev!Readable, Readable, Lev!Accept, Accept, Lev!ReadData, ReadData, Lev!ReadUpTo, ReadUpTo,
     Lev!ReadReset, ReadReset, Lev!AfterReset, AfterReset, Lev!AtEof, AtEof,
     Lev!NothingToRead, NothingToRead, Lev!Close, Close, Lev!WriteBlocking, WriteBlocking,
     Lev!WriteOne, WriteOne, Lev!WriteLost, WriteLost, Lev!WriteKills, WriteKills,
     Lev!Room, Room, Lev!Unread, Unread, Lev!Windows, Windows, Lev!Least, Least,
     Lev!Gone, Gone, Lev!tcp, tcp, Lev!netVars, netVars

LEMMA BacklogSame ==
  ASSUME NEW c \in Clients, SameBut(c), sst[c] # "queued", sst'[c] # "queued"
  PROVE  Backlog' = Backlog
  BY DEF SameBut, Same, Backlog

LEMMA LevStepKeeps ==
  ASSUME IInv, LevelStep
  PROVE  Kept /\ Lev!TypeOK' /\ LevInv'
<1> USE DEF Lev!serv_sock
<1>0. /\ kind = "epoll" /\ alive /\ UNCHANGED kind /\ Lev!Step
      /\ NetInv /\ Common /\ LevEvents /\ LevHolds /\ 0 \notin Clients
  BY Servers DEF LevelStep, IInv, LevInv
<1>1. /\ pcLev \in {"wait", "events", "write"} /\ epLev \subseteq Clients \cup {0}
      /\ evLev \subseteq epLev /\ curLev \in Clients \cup {0}
  BY Servers, LevNet DEF Lev!TypeOK
<1>2. Lev!TypeOK' <=> /\ pcLev' \in {"wait", "events", "write"}
                      /\ epLev' \subseteq Clients \cup {0}
                      /\ evLev' \subseteq epLev' /\ curLev' \in Clients \cup {0}
  BY LevNet DEF Lev!TypeOK
<1>3. held \in [Clients -> Nat] /\ sst \in [Clients -> {"none", "queued", "open", "closed"}]
  BY <1>0, Typed
<1>4. pcLev # "write" => \A c \in Clients : held[c] = 0
  BY <1>0, <1>3 DEF LevHolds
\* While c is served, nothing happens to the other entries.
<1>5. ASSUME NEW c \in Clients, sst[c] = "open", SameBut(c), sst'[c] # "queued"
      PROVE  /\ \A s \in evLev \ {c} : IF s = 0 THEN Backlog' # {} ELSE Readable(s)'
             /\ \A d \in epLev \ {0, c} : sst'[d] = "open"
  <2>1. Backlog' = Backlog
    BY <1>5, BacklogSame
  <2>2. \A d \in Clients \ {c} : sst'[d] = sst[d] /\ (Readable(d)' <=> Readable(d))
    BY <1>0, <1>5, OthersSame
  <2>3. QED
    BY <1>0, <1>1, <2>1, <2>2 DEF LevEvents
<1>6. CASE Lev!Wait
  <2>1. /\ UNCHANGED <<netVars, epLev, curLev>> /\ pcLev = "wait" /\ pcLev' = "events"
        /\ evLev' \subseteq epLev
        /\ \A s \in evLev' : IF s = 0 THEN Backlog # {} ELSE Readable(s)
    <3>1. \A s : Lev!Pending(s) <=> IF s = 0 THEN Backlog # {} ELSE Readable(s)
      BY LevNet DEF Lev!Pending
    <3>2. /\ UNCHANGED <<Lev!netVars, epLev, curLev>> /\ pcLev = "wait" /\ pcLev' = "events"
          /\ evLev' = {s \in epLev : Lev!Pending(s)}
      BY <1>6 DEF Lev!Wait
    <3>3. UNCHANGED netVars
      BY <3>2 DEF Lev!netVars, Lev!tcp, netVars, tcp
    <3>4. QED
      BY <3>1, <3>2, <3>3
  <2>2. /\ Kept /\ UNCHANGED <<sst, held>> /\ Backlog' = Backlog
        /\ \A d : Readable(d)' <=> Readable(d)
    BY <1>0, <2>1, Stutter
  <2>3. Lev!TypeOK'
    BY <1>1, <1>2, <2>1
  <2>4. LevEvents'
    BY <1>0, <2>1, <2>2 DEF LevEvents
  <2>5. LevHolds'
    BY <1>0, <2>1, <2>2 DEF LevHolds
  <2>6. QED
    BY <2>2, <2>3, <2>4, <2>5 DEF LevInv
<1>7. CASE Lev!AcceptOne
  <2> DEFINE c == NextQueued
  <2>1. /\ pcLev = "events" /\ pcLev' \in {"wait", "events"} /\ Accept(c)
        /\ evLev' = evLev \ {0} /\ epLev' = epLev \cup {c} /\ UNCHANGED curLev
    BY <1>7, LevNet DEF Lev!AcceptOne, Lev!NextEvent
  <2>2. /\ c \in Clients /\ sst[c] = "queued" /\ sst'[c] = "open" /\ UNCHANGED held
    BY <1>3, <2>1 DEF Accept, Backlog, tcp
  <2> HIDE DEF c
  <2>3. Kept /\ SameBut(c)
    BY <1>0, <2>1, <2>2, CallKept DEF Calls
  <2>4. \A d \in Clients \ {c} : sst'[d] = sst[d] /\ (Readable(d)' <=> Readable(d))
    BY <1>0, <2>2, <2>3, OthersSame
  <2>5. Lev!TypeOK'
    BY <1>1, <1>2, <2>1, <2>2
  <2>6. LevEvents'
    <3>1. \A d \in epLev \ {0} : d # c
      BY <1>0, <2>2 DEF LevEvents
    <3>2. \A d \in epLev' \ {0} : sst'[d] = "open"
      BY <1>0, <1>1, <2>1, <2>2, <2>4 DEF LevEvents
    <3>3. \A s \in evLev' : s # 0 /\ Readable(s)'
      BY <1>0, <1>1, <2>1, <2>4, <3>1 DEF LevEvents
    <3>4. QED
      BY <3>2, <3>3 DEF LevEvents
  <2>7. LevHolds'
    BY <1>4, <2>1, <2>2 DEF LevHolds
  <2>8. QED
    BY <2>3, <2>5, <2>6, <2>7 DEF LevInv
<1>8. ASSUME NEW c \in Clients, c \in evLev
      PROVE  sst[c] = "open" /\ c # 0
  BY <1>0, <1>1, <1>8 DEF LevEvents
<1>9. ASSUME NEW c \in Clients, Lev!ReadSome(c)
      PROVE  Kept /\ Lev!TypeOK' /\ LevInv'
  <2>1. /\ pcLev = "events" /\ c \in evLev /\ ReadData(c) /\ evLev' = evLev \ {c}
        /\ pcLev' = "write" /\ curLev' = c /\ UNCHANGED epLev
    BY <1>9, LevNet DEF Lev!ReadSome
  <2>2. ReadUpTo(c, Buf) /\ Buf \in Nat /\ 0 < Buf /\ Buf <= Buf /\ held[c] = 0
    BY <1>4, <2>1, NetConstants DEF ReadData
  <2>3. Kept /\ SameBut(c)
    BY <1>0, <2>2, CallKept DEF Calls
  <2>4. held'[c] > 0 /\ UNCHANGED sst
    BY <1>0, <2>2, ReadKeeps
  <2>5. Lev!TypeOK'
    BY <1>1, <1>2, <2>1
  <2>6. LevEvents'
    BY <1>0, <1>5, <1>8, <2>1, <2>3, <2>4 DEF LevEvents
  <2>7. LevHolds'
    BY <1>1, <1>4, <1>8, <2>1, <2>3, <2>4 DEF LevHolds, SameBut, Same
  <2>8. QED
    BY <2>3, <2>5, <2>6, <2>7 DEF LevInv
<1>10. ASSUME NEW c \in Clients, Lev!ReadFails(c)
       PROVE  Kept /\ Lev!TypeOK' /\ LevInv'
  <2>1. /\ pcLev = "events" /\ c \in evLev /\ ReadReset(c) /\ evLev' = evLev \ {c}
        /\ pcLev' \in {"wait", "events"} /\ UNCHANGED <<epLev, curLev>>
    BY <1>10, LevNet DEF Lev!ReadFails, Lev!NextEvent
  <2>2. Kept /\ SameBut(c) /\ UNCHANGED <<sst, held>>
    BY <1>0, <2>1, CallKept, ResetKeeps DEF Calls
  <2>3. Lev!TypeOK'
    BY <1>1, <1>2, <2>1
  <2>4. LevEvents'
    BY <1>0, <1>5, <1>8, <2>1, <2>2 DEF LevEvents
  <2>5. LevHolds'
    BY <1>4, <2>1, <2>2 DEF LevHolds
  <2>6. QED
    BY <2>2, <2>3, <2>4, <2>5 DEF LevInv
<1>11. ASSUME NEW c \in Clients, Lev!ReadZero(c)
       PROVE  Kept /\ Lev!TypeOK' /\ LevInv'
  <2>1. /\ pcLev = "events" /\ c \in evLev /\ AtEof(c) /\ Close(c) /\ evLev' = evLev \ {c}
        /\ epLev' = epLev \ {c} /\ pcLev' \in {"wait", "events"} /\ UNCHANGED curLev
    BY <1>11, LevNet DEF Lev!ReadZero, Lev!NextEvent
  <2>2. Gone(c) /\ sst[c] # "none" /\ sst'[c] = "closed"
    BY <1>3, <1>8, <2>1 DEF AtEof, Gone, Close
  <2>3. Kept /\ SameBut(c) /\ UNCHANGED held
    BY <1>0, <2>1, <2>2, CallKept DEF Calls, Close, tcp
  <2>4. Lev!TypeOK'
    BY <1>1, <1>2, <2>1
  <2>5. LevEvents'
    BY <1>0, <1>5, <1>8, <2>1, <2>2, <2>3 DEF LevEvents
  <2>6. LevHolds'
    BY <1>4, <2>1, <2>3 DEF LevHolds
  <2>7. QED
    BY <2>3, <2>4, <2>5, <2>6 DEF LevInv
<1>12. CASE Lev!Write
  <2> DEFINE c == curLev
  <2>1. /\ pcLev = "write" /\ WriteBlocking(c) /\ UNCHANGED <<epLev, evLev>>
        /\ \/ held'[c] > 0 /\ UNCHANGED <<pcLev, curLev>>
           \/ ~(held'[c] > 0) /\ pcLev' \in {"wait", "events"} /\ curLev' = 0
    BY <1>12, LevNet DEF Lev!Write
  <2>2. c \in epLev \ {0} /\ c \notin evLev /\ held[c] > 0 /\ c \in Clients /\ sst[c] = "open"
    BY <1>0, <1>1, <2>1 DEF LevHolds, LevEvents
  <2>3. PICK d \in Clients : d = c
    BY <2>2
  <2>4. Kept /\ SameBut(d) /\ UNCHANGED sst
    <3>1. held[d] > 0 /\ WriteBlocking(d)
      BY <2>1, <2>2, <2>3
    <3>2. Kept /\ SameBut(d)
      BY <1>0, <3>1, CallKept DEF Calls, WriteBlocking
    <3>3. UNCHANGED sst
      BY <3>1 DEF WriteBlocking, WriteOne, WriteLost, WriteKills
    <3>4. QED
      BY <3>2, <3>3
  <2>5. \A b \in Clients : held'[b] > 0 => b = d
    BY <1>0, <2>1, <2>3, <2>4 DEF LevHolds, SameBut, Same
  <2>6. Lev!TypeOK'
    BY <1>1, <1>2, <2>1
  <2>7. LevEvents'
    BY <1>0, <1>1, <1>5, <2>1, <2>2, <2>3, <2>4 DEF LevEvents
  <2>8. LevHolds'
    BY <2>1, <2>2, <2>3, <2>5 DEF LevHolds
  <2>9. QED
    BY <2>4, <2>6, <2>7, <2>8 DEF LevInv
<1>13. QED
  BY <1>0, <1>6, <1>7, <1>9, <1>10, <1>11, <1>12, LevNet DEF Lev!Step

LEMMA LevClientKeeps ==
  ASSUME IInv, kind = "epoll", NEW c \in Clients, Client(c)
  PROVE  LevInv'
<1>0. /\ LevEvents /\ LevHolds /\ NetInv /\ ClientStep(c) /\ UNCHANGED kind
      /\ UNCHANGED <<pcLev, epLev, evLev, curLev>>
  BY Servers DEF IInv, LevInv, Client, serverVars, levelVars
<1>1. /\ Backlog # {} => Backlog' # {}
      /\ UNCHANGED held
      /\ \A d \in Clients : (Readable(d) => Readable(d)') /\ (sst[d] = "open" => sst'[d] = "open")
  BY <1>0, ClientsGive DEF MoreToDo
<1>2. epLev \subseteq Clients \cup {0} /\ evLev \subseteq epLev
  BY Servers, LevNet DEF Lev!TypeOK, Lev!serv_sock
<1>3. LevEvents'
  BY <1>0, <1>1, <1>2 DEF LevEvents
<1>4. LevHolds'
  BY <1>0, <1>1 DEF LevHolds
<1>5. QED
  BY <1>3, <1>4 DEF LevInv

-----------------------------------------------------------------------------
(* echo_EPETserv.c *)

LEMMA EdgeNet ==
  /\ Edge!Clients = Clients /\ Edge!Backlog = Backlog /\ Edge!NextQueued = NextQueued
  /\ Edge!netVars = netVars /\ Edge!edgeVars = edgeVars
  /\ \A c : Edge!Readable(c) <=> Readable(c)
  /\ \A c : Edge!Gone(c) <=> Gone(c)
  /\ \A c : Edge!Accept(c) <=> Accept(c)
  /\ \A c : Edge!ReadData(c) <=> ReadData(c)
  /\ \A c : Edge!ReadReset(c) <=> ReadReset(c)
  /\ \A c : Edge!AtEof(c) <=> AtEof(c)
  /\ \A c : Edge!Close(c) <=> Close(c)
  /\ \A c : Edge!WriteNonBlocking(c) <=> WriteNonBlocking(c)
  BY DEF Edge!Clients, Clients, Edge!Backlog, Backlog, Edge!NextQueued, NextQueued,
     Edge!Readable, Readable, Edge!Accept, Accept, Edge!ReadData, ReadData, Edge!ReadUpTo, ReadUpTo,
     Edge!ReadReset, ReadReset, Edge!AfterReset, AfterReset, Edge!AtEof, AtEof,
     Edge!Close, Close, Edge!WriteNonBlocking, WriteNonBlocking,
     Edge!WriteWhatFits, WriteWhatFits, Edge!WriteLost, WriteLost, Edge!WriteKills, WriteKills,
     Edge!Room, Room, Edge!Unread, Unread, Edge!Windows, Windows, Edge!Least, Least,
     Edge!Units, Units, Edge!Gone, Gone, Edge!tcp, tcp, Edge!netVars, netVars,
     Edge!edgeVars, edgeVars

LEMMA EdgeStepKeeps ==
  ASSUME IInv, EdgeStep
  PROVE  Kept /\ Edge!TypeOK' /\ EdgeInv'
<1> USE DEF Edge!serv_sock
<1>0. /\ kind = "edge" /\ alive /\ UNCHANGED kind /\ Edge!Step
      /\ NetInv /\ Common /\ EdgeHolds /\ 0 \notin Clients
  BY Servers DEF EdgeStep, IInv, EdgeInv
<1>1. /\ pcEdge \in {"wait", "events", "read", "write"} /\ epEdge \subseteq Clients \cup {0}
      /\ evEdge \subseteq epEdge /\ curEdge \in Clients \cup {0}
      /\ told \in [Clients -> Nat \X BOOLEAN]
  BY Servers, EdgeNet DEF Edge!TypeOK
<1>2. Edge!TypeOK' <=> /\ pcEdge' \in {"wait", "events", "read", "write"}
                       /\ epEdge' \subseteq Clients \cup {0}
                       /\ evEdge' \subseteq epEdge' /\ curEdge' \in Clients \cup {0}
                       /\ told' \in [Clients -> Nat \X BOOLEAN]
  BY EdgeNet DEF Edge!TypeOK
<1>3. /\ held \in [Clients -> Nat] /\ sst \in [Clients -> {"none", "queued", "open", "closed"}]
      /\ sent \in [Clients -> Nat]
  BY <1>0, Typed
<1>4. pcEdge # "write" => \A c \in Clients : held[c] = 0
  BY <1>0, <1>3 DEF EdgeHolds
<1>5. ASSUME pcEdge \in {"read", "write"}
      PROVE  /\ curEdge \in epEdge \ {0} /\ curEdge \notin evEdge /\ curEdge \in Clients
             /\ sst[curEdge] = "open" /\ (pcEdge = "write" => held[curEdge] > 0)
             /\ (pcEdge = "read" => held[curEdge] = 0)
  BY <1>0, <1>1, <1>4, <1>5 DEF EdgeHolds
<1>6. CASE Edge!Wait
  <2>1. /\ UNCHANGED <<netVars, epEdge, curEdge>> /\ pcEdge = "wait" /\ pcEdge' = "events"
        /\ evEdge' \subseteq epEdge
        /\ told' = [c \in Clients |-> IF c \in epEdge THEN Edge!Arrived(c) ELSE told[c]]
    BY <1>6, EdgeNet DEF Edge!Wait, Edge!netVars, Edge!tcp, netVars, tcp
  <2>2. told' \in [Clients -> Nat \X BOOLEAN]
    <3>1. \A c \in Clients : Edge!Arrived(c) \in Nat \X BOOLEAN
      <4>1. \A c \in Clients : Edge!Gone(c) \in BOOLEAN
        BY DEF Edge!Gone
      <4>2. QED
        BY <1>3, <4>1 DEF Edge!Arrived
    <3>2. QED
      BY <1>1, <2>1, <3>1
  <2>3. Kept /\ UNCHANGED <<sst, held>>
    BY <1>0, <2>1, Stutter
  <2>4. Edge!TypeOK'
    BY <1>1, <1>2, <2>1, <2>2
  <2>5. EdgeHolds'
    BY <1>0, <2>1, <2>3 DEF EdgeHolds
  <2>6. QED
    BY <2>3, <2>4, <2>5 DEF EdgeInv
<1>7. CASE Edge!AcceptOne
  <2> DEFINE c == NextQueued
  <2>1. /\ pcEdge = "events" /\ pcEdge' \in {"wait", "events"} /\ Accept(c)
        /\ evEdge' = evEdge \ {0} /\ epEdge' = epEdge \cup {c} /\ UNCHANGED <<curEdge, told>>
    BY <1>7, EdgeNet DEF Edge!AcceptOne, Edge!AfterEvent
  <2>2. /\ c \in Clients /\ sst[c] = "queued" /\ sst'[c] = "open" /\ UNCHANGED held
    BY <1>3, <2>1 DEF Accept, Backlog, tcp
  <2> HIDE DEF c
  <2>3. Kept /\ SameBut(c)
    BY <1>0, <2>1, <2>2, CallKept DEF Calls
  <2>4. Edge!TypeOK'
    BY <1>1, <1>2, <2>1, <2>2
  <2>5. \A d \in epEdge' \ {0} : sst'[d] = "open"
    BY <1>0, <1>1, <2>1, <2>2, <2>3 DEF EdgeHolds, SameBut, Same
  <2>6. EdgeHolds'
    BY <1>4, <2>1, <2>2, <2>5 DEF EdgeHolds
  <2>7. QED
    BY <2>3, <2>4, <2>6 DEF EdgeInv
<1>8. CASE \E c \in Clients : Edge!NextEvent(c)
  <2>1. PICK c \in Clients : /\ pcEdge = "events" /\ c \in evEdge /\ evEdge' = evEdge \ {c}
                             /\ curEdge' = c /\ pcEdge' = "read"
                             /\ UNCHANGED <<netVars, epEdge, told>>
    BY <1>8, EdgeNet DEF Edge!NextEvent, Edge!netVars, Edge!tcp, netVars, tcp
  <2>2. Kept /\ UNCHANGED <<sst, held>>
    BY <1>0, <2>1, Stutter
  <2>3. Edge!TypeOK'
    BY <1>1, <1>2, <2>1
  <2>4. EdgeHolds'
    BY <1>0, <1>1, <1>4, <2>1, <2>2 DEF EdgeHolds
  <2>5. QED
    BY <2>2, <2>3, <2>4 DEF EdgeInv
<1>9. CASE Edge!ReadSome
  <2>1. /\ pcEdge = "read" /\ ReadData(curEdge) /\ pcEdge' = "write"
        /\ UNCHANGED <<epEdge, evEdge, curEdge, told>>
    BY <1>9, EdgeNet DEF Edge!ReadSome
  <2>2. PICK c \in Clients : c = curEdge
    BY <1>5, <2>1
  <2>3. ReadUpTo(c, Buf) /\ Buf \in Nat /\ 0 < Buf /\ Buf <= Buf /\ held[c] = 0
    BY <1>5, <2>1, <2>2, NetConstants DEF ReadData
  <2>4. Kept /\ SameBut(c)
    BY <1>0, <2>3, CallKept DEF Calls
  <2>5. held'[c] > 0 /\ UNCHANGED sst
    BY <1>0, <2>3, ReadKeeps
  <2>6. Edge!TypeOK'
    BY <1>1, <1>2, <2>1
  <2>7. EdgeHolds'
    BY <1>0, <1>4, <1>5, <2>1, <2>2, <2>4, <2>5 DEF EdgeHolds, SameBut, Same
  <2>8. QED
    BY <2>4, <2>6, <2>7 DEF EdgeInv
<1>10. CASE Edge!ReadNothing
  <2>1. /\ pcEdge = "read" /\ pcEdge' \in {"wait", "events"} /\ curEdge' = 0
        /\ UNCHANGED <<netVars, epEdge, evEdge, told>>
    BY <1>10, EdgeNet DEF Edge!ReadNothing, Edge!LeaveLoop, Edge!AfterEvent,
       Edge!netVars, Edge!tcp, netVars, tcp
  <2>2. Kept /\ UNCHANGED <<sst, held>>
    BY <1>0, <2>1, Stutter
  <2>3. Edge!TypeOK'
    BY <1>1, <1>2, <2>1
  <2>4. EdgeHolds'
    BY <1>0, <1>4, <2>1, <2>2 DEF EdgeHolds
  <2>5. QED
    BY <2>2, <2>3, <2>4 DEF EdgeInv
<1>11. CASE Edge!ReadFails
  <2>1. pcEdge = "read" /\ ReadReset(curEdge) /\ UNCHANGED edgeVars
    BY <1>11, EdgeNet DEF Edge!ReadFails, Edge!edgeVars, edgeVars
  <2>2. PICK c \in Clients : c = curEdge
    BY <1>5, <2>1
  <2>3. Kept /\ UNCHANGED <<sst, held>>
    BY <1>0, <2>1, <2>2, CallKept, ResetKeeps DEF Calls
  <2>4. Edge!TypeOK'
    BY <1>1, <1>2, <2>1 DEF edgeVars
  <2>5. EdgeHolds'
    BY <1>0, <2>1, <2>3 DEF EdgeHolds, edgeVars
  <2>6. QED
    BY <2>3, <2>4, <2>5 DEF EdgeInv
<1>12. CASE Edge!ReadZero
  <2>1. /\ pcEdge = "read" /\ AtEof(curEdge) /\ Close(curEdge) /\ epEdge' = epEdge \ {curEdge}
        /\ pcEdge' \in {"wait", "events"} /\ curEdge' = 0 /\ UNCHANGED <<evEdge, told>>
    BY <1>12, EdgeNet DEF Edge!ReadZero, Edge!LeaveLoop, Edge!AfterEvent
  <2>2. PICK c \in Clients : c = curEdge
    BY <1>5, <2>1
  <2>3. Gone(c) /\ sst[c] # "none" /\ Close(c)
    BY <1>5, <2>1, <2>2 DEF AtEof, Gone
  <2>4. Kept /\ SameBut(c) /\ UNCHANGED held
    BY <1>0, <2>3, CallKept DEF Calls, Close, tcp
  <2>5. Edge!TypeOK'
    BY <1>1, <1>2, <1>5, <2>1
  <2>6. EdgeHolds'
    BY <1>0, <1>1, <1>4, <2>1, <2>2, <2>4 DEF EdgeHolds, SameBut, Same
  <2>7. QED
    BY <2>4, <2>5, <2>6 DEF EdgeInv
<1>13. CASE Edge!Write
  <2>1. /\ pcEdge = "write" /\ WriteNonBlocking(curEdge) /\ pcEdge' = "read"
        /\ UNCHANGED <<evEdge, curEdge, told, epEdge>>
    BY <1>13, EdgeNet DEF Edge!Write, Edge!WriteAndReadOn
  <2>2. PICK c \in Clients : c = curEdge
    BY <1>5, <2>1
  <2>3. held[c] > 0 /\ NonBlocking
    BY <1>0, <1>5, <2>1, <2>2 DEF NonBlocking
  <2>4. Kept /\ SameBut(c)
    BY <1>0, <2>1, <2>2, <2>3, CallKept DEF Calls, WriteNonBlocking
  <2>5. UNCHANGED sst /\ held'[c] = 0
    BY <1>3, <2>1, <2>2 DEF WriteNonBlocking, WriteWhatFits, WriteLost, WriteKills
  <2>6. Edge!TypeOK'
    BY <1>1, <1>2, <2>1
  <2>7. EdgeHolds'
    <3>1. \A d \in Clients : held'[d] = 0
      BY <1>0, <1>3, <2>1, <2>2, <2>4, <2>5 DEF EdgeHolds, SameBut, Same
    <3>2. QED
      BY <1>0, <2>1, <2>5, <3>1 DEF EdgeHolds
  <2>8. QED
    BY <2>4, <2>6, <2>7 DEF EdgeInv
<1>14. QED
  BY <1>0, <1>6, <1>7, <1>8, <1>9, <1>10, <1>11, <1>12, <1>13, EdgeNet DEF Edge!Step

LEMMA EdgeClientKeeps ==
  ASSUME IInv, kind = "edge", NEW c \in Clients, Client(c)
  PROVE  EdgeInv'
<1>0. /\ EdgeHolds /\ NetInv /\ ClientStep(c) /\ UNCHANGED kind
      /\ UNCHANGED <<pcEdge, epEdge, evEdge, curEdge>>
  BY Servers DEF IInv, EdgeInv, Client, serverVars, edgeVars
<1>1. UNCHANGED held /\ \A d \in Clients : (sst[d] = "open" => sst'[d] = "open")
  BY <1>0, ClientsGive DEF MoreToDo
<1>2. epEdge \subseteq Clients \cup {0}
  BY Servers, EdgeNet DEF Edge!TypeOK, Edge!serv_sock
<1>3. EdgeHolds'
  BY <1>0, <1>1, <1>2 DEF EdgeHolds
<1>4. QED
  BY <1>3 DEF EdgeInv

-----------------------------------------------------------------------------
(* CmplRouEchoServ_win.c *)

LEMMA CmpNet ==
  /\ Cmp!Clients = Clients /\ Cmp!Backlog = Backlog /\ Cmp!NextQueued = NextQueued
  /\ \A c : Cmp!Accept(c) <=> Accept(c)
  /\ \A c, size : Cmp!ReadUpTo(c, size) <=> ReadUpTo(c, size)
  /\ \A c : Cmp!ReadReset(c) <=> ReadReset(c)
  /\ \A c : Cmp!AtEof(c) <=> AtEof(c)
  /\ \A c : Cmp!Close(c) <=> Close(c)
  /\ \A c : Cmp!WriteOne(c) <=> WriteOne(c)
  /\ \A c : Cmp!WriteLost(c) <=> WriteLost(c)
  BY DEF Cmp!Clients, Clients, Cmp!Backlog, Backlog, Cmp!NextQueued, NextQueued,
     Cmp!Accept, Accept, Cmp!ReadUpTo, ReadUpTo,
     Cmp!ReadReset, ReadReset, Cmp!AfterReset, AfterReset, Cmp!AtEof, AtEof,
     Cmp!Close, Close, Cmp!WriteOne, WriteOne, Cmp!WriteLost, WriteLost,
     Cmp!Room, Room, Cmp!Unread, Unread, Cmp!Windows, Windows, Cmp!Least, Least,
     Cmp!tcp, tcp

\* The operation of one client changes.
CmpOnly(c) ==
  /\ \A d \in Clients \ {c} : op'[d] = op[d] /\ len'[d] = len[d] /\ failed'[d] = failed[d]
  /\ \A d \in Clients \ {c} : d \in blocks' <=> d \in blocks

LEMMA CmpOneClient ==
  ASSUME \A d \in Clients : CmpClient(d), NEW c \in Clients, SameBut(c), CmpOnly(c), CmpClient(c)'
  PROVE  CmpInv'
<1>1. ASSUME NEW d \in Clients \ {c}
      PROVE  CmpClient(d)'
  <2>1. CmpClient(d) /\ Same(d)
    BY DEF SameBut
  <2>2. /\ op'[d] = op[d] /\ len'[d] = len[d] /\ failed'[d] = failed[d]
        /\ (d \in blocks' <=> d \in blocks)
    BY DEF CmpOnly
  <2>3. QED
    BY <2>1, <2>2 DEF CmpClient, Same, Gone
<1>2. QED
  BY <1>1 DEF CmpInv

LEMMA CmpFacts ==
  ASSUME IInv, kind = "cmplrou"
  PROVE  /\ NetInv /\ Common /\ \A c \in Clients : CmpClient(c)
         /\ pcCmp \in {"sleep", "accept"}
         /\ op \in [Clients -> {"none", "recv", "recvdone", "send", "senddone", "lost"}]
         /\ len \in [Clients -> 0..Buf] /\ failed \in [Clients -> BOOLEAN]
         /\ blocks \subseteq Clients
         /\ Cmp!TypeOK' <=>
              /\ pcCmp' \in {"sleep", "accept"}
              /\ op' \in [Clients -> {"none", "recv", "recvdone", "send", "senddone", "lost"}]
              /\ len' \in [Clients -> 0..Buf] /\ failed' \in [Clients -> BOOLEAN]
              /\ blocks' \subseteq Clients
  BY Servers, CmpNet DEF Cmp!TypeOK, IInv, CmpInv

\* What is held fits the buffer.
LEMMA CmpHeld ==
  ASSUME NetInv, NEW c \in Clients, held[c] > 0
  PROVE  held[c] \in 0..Buf
  BY Numbers, NetConstants

LEMMA CmpMainKeeps ==
  ASSUME IInv, CompletionMain
  PROVE  Kept /\ Cmp!TypeOK' /\ CmpInv'
<1>0. kind = "cmplrou" /\ alive /\ UNCHANGED kind /\ Cmp!MainStep
  BY DEF CompletionMain, OthersThanCompletion
<1>1. CASE Cmp!Wake \/ Cmp!AcceptNone
  <2>1. UNCHANGED <<netVars, op, len, failed, blocks>> /\ pcCmp' \in {"sleep", "accept"}
    BY <1>1 DEF Cmp!Wake, Cmp!AcceptNone, Cmp!netVars, Cmp!tcp, netVars, tcp
  <2>2. Kept /\ UNCHANGED <<sst, held, conn>>
    BY <1>0, <2>1, CmpFacts, Stutter
  <2>3. Cmp!TypeOK'
    BY <1>0, <2>1, CmpFacts
  <2>4. CmpInv'
    <3>1. \A c \in Clients : CmpClient(c)
      BY <1>0, CmpFacts
    <3>2. \A c \in Clients : CmpClient(c)'
      BY <2>1, <2>2, <3>1 DEF CmpClient, Gone
    <3>3. QED
      BY <3>2 DEF CmpInv
  <2>5. QED
    BY <2>2, <2>3, <2>4
<1>2. CASE Cmp!AcceptOne
  <2>0. NextQueued \in Clients
    BY <1>2, CmpNet DEF Cmp!AcceptOne, Accept, Backlog
  <2>b. PICK c \in Clients : c = NextQueued
    BY <2>0
  <2>1. /\ Accept(c) /\ blocks' = blocks \cup {c} /\ len' = [len EXCEPT ![c] = Buf]
        /\ op' = [op EXCEPT ![c] = IF conn[c] = "reset" THEN "lost" ELSE "recv"]
        /\ pcCmp' = "sleep" /\ UNCHANGED failed
    BY <1>2, <2>b, CmpNet DEF Cmp!AcceptOne, Cmp!Call, Cmp!Start
  <2>a. NetInv /\ Common /\ \A d \in Clients : CmpClient(d)
    BY <1>0, CmpFacts
  <2>2. /\ c \in Clients /\ sst[c] = "queued" /\ sst'[c] = "open" /\ UNCHANGED <<held, conn>>
    BY <2>1, <2>a, Typed DEF Accept, Backlog, tcp
  <2>3. Kept /\ SameBut(c)
    BY <1>0, <2>1, <2>2, <2>a, CallKept DEF Calls
  <2>4. Cmp!TypeOK'
    BY <1>0, <2>1, <2>2, CmpFacts, NetConstants
  <2>5. CmpOnly(c)
    BY <1>0, <2>1, <2>2, CmpFacts DEF CmpOnly
  <2>6. CmpClient(c)'
    <3>1. op'[c] = (IF conn[c] = "reset" THEN "lost" ELSE "recv") /\ len'[c] = Buf /\ c \in blocks'
      BY <1>0, <2>1, <2>2, CmpFacts
    <3>2. held[c] = 0 /\ (failed[c] => conn[c] \in {"reset", "dead"})
      BY <2>2, <2>a DEF CmpClient
    <3>3. QED
      BY <2>1, <2>2, <3>1, <3>2, NetConstants DEF CmpClient
  <2>7. CmpInv'
    BY <2>2, <2>3, <2>5, <2>6, <2>a, CmpOneClient
  <2>8. QED
    BY <2>3, <2>4, <2>7
<1>3. QED
  BY <1>0, <1>1, <1>2 DEF Cmp!MainStep

LEMMA CmpOfKeeps ==
  ASSUME IInv, NEW c \in Clients, CompletionOf(c)
  PROVE  Kept /\ Cmp!TypeOK' /\ CmpInv'
<1>0. kind = "cmplrou" /\ alive /\ UNCHANGED kind /\ (Cmp!Routine(c) \/ Cmp!System(c))
  BY DEF CompletionOf, OthersThanCompletion
<1>1. NetInv /\ Common /\ CmpClient(c) /\ \A d \in Clients : CmpClient(d)
  BY <1>0, CmpFacts
<1>2. held[c] \in Nat
  BY <1>1, Numbers
<1>3. CASE Cmp!RecvCompletes(c)
  <2>1. /\ op[c] = "recv" /\ op' = [op EXCEPT ![c] = "recvdone"] /\ UNCHANGED <<pcCmp, len, blocks>>
        /\ \/ ReadUpTo(c, len[c]) /\ UNCHANGED failed
           \/ AtEof(c) /\ UNCHANGED <<netVars, failed>>
           \/ ReadReset(c) /\ failed' = [failed EXCEPT ![c] = TRUE]
    BY <1>3, CmpNet DEF Cmp!RecvCompletes, Cmp!Start, Cmp!netVars, Cmp!tcp, netVars, tcp
  <2>2. /\ c \in blocks /\ held[c] = 0 /\ len[c] \in Nat /\ 0 < len[c] /\ len[c] <= Buf
        /\ op'[c] = "recvdone" /\ sst[c] = "open"
    BY <1>0, <1>1, <2>1, CmpFacts, NetConstants DEF CmpClient
  <2>3. /\ Cmp!TypeOK' /\ CmpOnly(c) /\ (failed' = [failed EXCEPT ![c] = TRUE] => failed'[c])
    BY <1>0, <2>1, CmpFacts DEF CmpOnly
  <2>4. CASE ReadUpTo(c, len[c]) /\ UNCHANGED failed
    <3>1. Kept /\ SameBut(c)
      BY <1>0, <1>1, <2>2, <2>4, CallKept DEF Calls
    <3>2. held'[c] \in Nat /\ held'[c] > 0 /\ UNCHANGED <<sst, conn>>
      BY <1>0, <1>1, <2>2, <2>4, ReadKeeps
    <3>3. CmpClient(c)'
      BY <1>1, <2>1, <2>2, <2>4, <3>2 DEF CmpClient
    <3>4. QED
      BY <1>1, <2>3, <3>1, <3>3, CmpOneClient
  <2>5. CASE AtEof(c) /\ UNCHANGED <<netVars, failed>>
    <3>1. Kept /\ SameBut(c) /\ UNCHANGED <<sst, held, conn>>
      <4>1. Kept /\ UNCHANGED <<sst, held, conn>>
        BY <1>0, <1>1, <2>5, Stutter
      <4>2. SameBut(c)
        BY <2>5 DEF netVars, tcp, SameBut, Same
      <4>3. QED
        BY <4>1, <4>2
    <3>2. conn[c] \in {"fin", "dead"}
      BY <2>5 DEF AtEof
    <3>3. CmpClient(c)'
      BY <1>1, <2>1, <2>2, <2>5, <3>1, <3>2 DEF CmpClient, Gone
    <3>4. QED
      BY <1>1, <2>3, <3>1, <3>3, CmpOneClient
  <2>6. CASE ReadReset(c) /\ failed' = [failed EXCEPT ![c] = TRUE]
    <3>1. /\ Kept /\ SameBut(c) /\ UNCHANGED <<sst, held>> /\ conn'[c] \in {"reset", "dead"}
      BY <1>0, <1>1, <2>6, CallKept, ResetKeeps DEF Calls
    <3>2. CmpClient(c)'
      BY <1>1, <2>1, <2>2, <2>3, <2>6, <3>1 DEF CmpClient
    <3>3. QED
      BY <1>1, <2>3, <3>1, <3>2, CmpOneClient
  <2>7. QED
    BY <2>1, <2>4, <2>5, <2>6
<1>4. CASE Cmp!SendCompletes(c)
  <2>1. /\ op[c] = "send" /\ UNCHANGED <<pcCmp, len, blocks>>
        /\ \/ WriteOne(c) /\ UNCHANGED failed
           \/ WriteLost(c) /\ failed' = [failed EXCEPT ![c] = (conn[c] = "reset")]
        /\ IF held'[c] = 0 THEN op' = [op EXCEPT ![c] = "senddone"] ELSE UNCHANGED op
    BY <1>4, CmpNet DEF Cmp!SendCompletes, Cmp!Start
  <2>2. held[c] > 0 /\ c \in blocks /\ sst[c] = "open" /\ len[c] > 0
    BY <1>1, <2>1 DEF CmpClient
  <2>3. Cmp!TypeOK' /\ CmpOnly(c)
    BY <1>0, <2>1, CmpFacts DEF CmpOnly
  <2>4. op'[c] = IF held'[c] = 0 THEN "senddone" ELSE "send"
    BY <1>0, <2>1, CmpFacts
  <2>5. CASE WriteOne(c) /\ UNCHANGED failed
    <3>1. Kept /\ SameBut(c)
      BY <1>0, <1>1, <2>2, <2>5, CallKept DEF Calls
    <3>2. held'[c] = held[c] - 1 /\ UNCHANGED <<sst, conn>>
      BY <1>0, <1>1, <2>5, WriteOneKeeps
    <3>3. held'[c] \in Nat /\ (held'[c] # 0 => held'[c] > 0)
      BY <1>2, <2>2, <3>2
    <3>4. CmpClient(c)'
      BY <1>1, <2>1, <2>2, <2>4, <2>5, <3>2, <3>3 DEF CmpClient
    <3>5. QED
      BY <1>1, <2>3, <3>1, <3>4, CmpOneClient
  <2>6. CASE WriteLost(c) /\ failed' = [failed EXCEPT ![c] = (conn[c] = "reset")]
    <3>1. Kept /\ SameBut(c)
      BY <1>0, <1>1, <2>2, <2>6, CallKept DEF Calls
    <3>2. held'[c] = 0 /\ UNCHANGED sst /\ conn'[c] \in {conn[c], "reset", "dead"}
      BY <1>0, <1>1, <2>2, <2>6, WriteLostKeeps
    <3>3. failed'[c] => conn[c] = "reset"
      BY <1>0, <2>6, CmpFacts
    <3>4. CmpClient(c)'
      BY <1>1, <2>1, <2>2, <2>4, <3>2, <3>3 DEF CmpClient
    <3>5. QED
      BY <1>1, <2>3, <3>1, <3>4, CmpOneClient
  <2>7. QED
    BY <2>1, <2>5, <2>6
\* exit(1): only a reset leads to it.
<1>5. ASSUME Cmp!Exit, failed[c], UNCHANGED completionVars
      PROVE  Kept /\ Cmp!TypeOK' /\ CmpInv'
  <2>1. alive' = FALSE /\ UNCHANGED <<sst, tcp>> /\ conn[c] \in {"reset", "dead"}
    BY <1>1, <1>5 DEF Cmp!Exit, Cmp!tcp, tcp, CmpClient
  <2>2. Kept /\ SameBut(c)
    BY <1>0, <1>1, <2>1, CallKept DEF Calls
  <2>3. Cmp!TypeOK'
    BY <1>0, <1>5, CmpFacts DEF completionVars
  <2>4. CmpClient(c)' /\ CmpOnly(c)
    BY <1>1, <1>5, <2>1 DEF completionVars, tcp, CmpClient, CmpOnly, Gone
  <2>5. QED
    BY <1>1, <2>2, <2>3, <2>4, CmpOneClient
<1>6. CASE Cmp!ReadRoutine(c)
  <2>0. op[c] = "recvdone" /\ c \in blocks /\ sst[c] = "open" /\ len[c] > 0
    BY <1>1, <1>6 DEF Cmp!ReadRoutine, CmpClient
  <2>1. CASE Cmp!RecvFailed(c)
    BY <1>5, <2>1 DEF Cmp!RecvFailed, Cmp!completionVars, completionVars
  <2>2. CASE Cmp!RecvEnded(c)
    <3>1. /\ ~failed[c] /\ held[c] = 0 /\ Close(c) /\ blocks' = blocks \ {c}
          /\ op' = [op EXCEPT ![c] = "none"] /\ UNCHANGED <<pcCmp, len, failed>>
      BY <2>2, CmpNet DEF Cmp!RecvEnded, Cmp!Start
    <3>2. Gone(c)
      BY <1>1, <2>0, <3>1 DEF CmpClient
    <3>3. Kept /\ SameBut(c)
      BY <1>0, <1>1, <2>0, <3>1, <3>2, CallKept DEF Calls
    <3>4. sst'[c] = "closed" /\ UNCHANGED <<held, conn>>
      BY <1>1, <3>1, Typed DEF Close, tcp
    <3>5. Cmp!TypeOK' /\ CmpOnly(c) /\ op'[c] = "none"
      BY <1>0, <3>1, CmpFacts DEF CmpOnly
    <3>6. CmpClient(c)'
      BY <1>1, <3>1, <3>4, <3>5 DEF CmpClient
    <3>7. QED
      BY <1>1, <3>3, <3>5, <3>6, CmpOneClient
  <2>3. CASE Cmp!RecvBrought(c)
    <3>1. /\ ~failed[c] /\ held[c] > 0 /\ len' = [len EXCEPT ![c] = held[c]]
          /\ op' = [op EXCEPT ![c] = IF conn[c] = "reset" THEN "lost" ELSE "send"]
          /\ UNCHANGED <<netVars, pcCmp, failed, blocks>>
      BY <2>3, CmpNet DEF Cmp!RecvBrought, Cmp!Call, Cmp!Start, Cmp!netVars, Cmp!tcp, netVars, tcp
    <3>2. Kept /\ SameBut(c) /\ UNCHANGED <<sst, held, conn>>
      <4>1. Kept /\ UNCHANGED <<sst, held, conn>>
        BY <1>0, <1>1, <3>1, Stutter
      <4>2. SameBut(c)
        BY <3>1 DEF netVars, tcp, SameBut, Same
      <4>3. QED
        BY <4>1, <4>2
    <3>3. held[c] \in 0..Buf
      BY <1>1, <3>1, CmpHeld
    <3>4. /\ Cmp!TypeOK' /\ CmpOnly(c) /\ len'[c] = held[c]
          /\ op'[c] = IF conn[c] = "reset" THEN "lost" ELSE "send"
      BY <1>0, <3>1, <3>3, CmpFacts DEF CmpOnly
    <3>5. CmpClient(c)'
      BY <1>1, <2>0, <3>1, <3>2, <3>4 DEF CmpClient
    <3>6. QED
      BY <1>1, <3>2, <3>4, <3>5, CmpOneClient
  <2>4. QED
    BY <1>6, <2>1, <2>2, <2>3 DEF Cmp!ReadRoutine
<1>7. CASE Cmp!WriteRoutine(c)
  <2>1. /\ op[c] = "senddone" /\ UNCHANGED <<pcCmp, len, failed, blocks>>
        /\ IF failed[c] THEN Cmp!Exit /\ UNCHANGED op
             ELSE /\ UNCHANGED netVars
                  /\ op' = [op EXCEPT ![c] = IF conn[c] = "reset" THEN "lost" ELSE "recv"]
    BY <1>7 DEF Cmp!WriteRoutine, Cmp!Call, Cmp!Start, Cmp!netVars, Cmp!tcp, netVars, tcp
  <2>2. CASE failed[c]
    BY <1>5, <2>1, <2>2 DEF completionVars
  <2>3. CASE ~failed[c]
    <3>1. Kept /\ SameBut(c) /\ UNCHANGED <<sst, held, conn>>
      <4>1. Kept /\ UNCHANGED <<sst, held, conn>>
        BY <1>0, <1>1, <2>1, <2>3, Stutter
      <4>2. SameBut(c)
        BY <2>1, <2>3 DEF netVars, tcp, SameBut, Same
      <4>3. QED
        BY <4>1, <4>2
    <3>2. /\ Cmp!TypeOK' /\ CmpOnly(c) /\ op'[c] = IF conn[c] = "reset" THEN "lost" ELSE "recv"
      BY <1>0, <2>1, <2>3, CmpFacts DEF CmpOnly
    <3>3. CmpClient(c)'
      BY <1>1, <2>1, <2>3, <3>1, <3>2 DEF CmpClient
    <3>4. QED
      BY <1>1, <3>1, <3>2, <3>3, CmpOneClient
  <2>4. QED
    BY <2>2, <2>3
<1>8. QED
  BY <1>0, <1>3, <1>4, <1>6, <1>7 DEF Cmp!Routine, Cmp!System

LEMMA CmpClientKeeps ==
  ASSUME IInv, kind = "cmplrou", NEW c \in Clients, Client(c)
  PROVE  CmpInv'
<1>0. /\ NetInv /\ \A d \in Clients : CmpClient(d) /\ ClientStep(c) /\ UNCHANGED kind
      /\ UNCHANGED <<op, len, failed, blocks>>
  BY CmpFacts DEF Client, serverVars, completionVars
<1>1. /\ UNCHANGED held /\ SameBut(c) /\ NetInv'
      /\ Gone(c) => Gone(c)'
      /\ conn[c] \in {"reset", "dead"} => conn'[c] = conn[c]
      /\ sst[c] # "none" => sst'[c] = sst[c]
  BY <1>0, ClientsGive DEF MoreToDo
<1>2. sst[c] = "none" => sst'[c] \in {"none", "queued"}
  BY <1>0, Typed DEF ClientStep, Connect, Send, Receive, Leave
<1>3. CmpOnly(c)
  BY <1>0 DEF CmpOnly
<1>4. CmpClient(c)'
  BY <1>0, <1>1, <1>2 DEF CmpClient
<1>5. QED
  BY <1>0, <1>1, <1>3, <1>4, CmpOneClient

-----------------------------------------------------------------------------
(* AsynNotiEchoServ_win.c *)

LEMMA EvtNet ==
  /\ Evt!Clients = Clients /\ Evt!Backlog = Backlog /\ Evt!NextQueued = NextQueued
  /\ \A c : Evt!Accept(c) <=> Accept(c)
  /\ \A c : Evt!Unread(c) = Unread(c)
  /\ \A c : Evt!Room(c) = Room(c)
  /\ \A k, n : Evt!Units(k, n) = Units(k, n)
  /\ \A m, n : Evt!Least(m, n) = Least(m, n)
  BY DEF Evt!Clients, Clients, Evt!Backlog, Backlog, Evt!NextQueued, NextQueued,
     Evt!Accept, Accept, Evt!Room, Room, Evt!Unread, Unread, Evt!Windows, Windows,
     Evt!Least, Least, Evt!Units, Units, Evt!tcp, tcp

LEMMA EvtFacts ==
  ASSUME IInv, kind = "async"
  PROVE  /\ NetInv /\ Common /\ EvtSockets /\ hSockArr = hEventArr
         /\ \A c \in Clients : held[c] = 0
         /\ pcEvt \in {"wait", "scan"} /\ hSockArr \in Seq(Clients \cup {0})
         /\ iEvt \in 1..Len(MaxUnits) + 2 /\ closeSeen \subseteq Clients
         /\ Len(hSockArr) \in 0..Len(MaxUnits) + 1 /\ DOMAIN hSockArr = 1..Len(hSockArr)
         /\ \A k \in DOMAIN hSockArr : hSockArr[k] \in Clients \cup {0}
         /\ Len(MaxUnits) \in Nat /\ 0 \notin Clients
<1>1. /\ NetInv /\ Common /\ EvtSockets /\ hSockArr = hEventArr
      /\ \A c \in Clients : held[c] = 0
      /\ Len(MaxUnits) \in Nat /\ 0 \notin Clients /\ Clients = 1..Len(MaxUnits)
  BY Servers DEF IInv, EvtInv, ArraysAgree, Evt!ArraysAgree
<1>2. /\ pcEvt \in {"wait", "scan"} /\ hSockArr \in Seq(Clients \cup {0})
      /\ iEvt \in 1..Len(MaxUnits) + 2 /\ closeSeen \subseteq Clients
  BY Servers, EvtNet DEF Evt!TypeOK, Evt!hServSock
<1>3. Clients \cup {0} = 0..Len(MaxUnits)
  BY <1>1
<1>4. Len(hSockArr) \in 0..Len(MaxUnits) + 1
  BY <1>1, <1>2, <1>3, DistinctFits DEF EvtSockets
<1>5. DOMAIN hSockArr = 1..Len(hSockArr) /\ \A k \in DOMAIN hSockArr : hSockArr[k] \in Clients \cup {0}
  BY <1>2, LenProperties, ElementOfSeq
<1>6. QED
  BY <1>1, <1>2, <1>4, <1>5

LEMMA EvtTyped ==
  Evt!TypeOK' <=>
    /\ pcEvt' \in {"wait", "scan"} /\ hSockArr' \in Seq(Clients \cup {0})
    /\ hEventArr' \in Seq(Clients \cup {0})
    /\ iEvt' \in 1..Len(MaxUnits) + 2 /\ closeSeen' \subseteq Clients
  BY EvtNet DEF Evt!TypeOK, Evt!hServSock

\* One recv and one send that do not wait, and perhaps the socket is closed.
LEMMA AnswerKeeps ==
  ASSUME NetInv, Common, alive, UNCHANGED kind, kind = "async", NEW c \in Clients,
         held[c] = 0, UNCHANGED <<alive, conn, sent, held, got>>,
         NEW n \in Nat, NEW m \in Nat, m <= n, taken[c] + n <= sent[c], m <= Room(c),
         taken' = [taken EXCEPT ![c] = @ + n], cut' = [cut EXCEPT ![c] = @ + n - m],
         out' = [out EXCEPT ![c] = @ \o Units(taken[c], m)],
         UNCHANGED sst \/ (Gone(c) /\ sst[c] # "none" /\ sst' = [sst EXCEPT ![c] = "closed"])
  PROVE  Kept /\ SameBut(c)
<1> DEFINE t == taken[c]
           u == cut[c]
           L == Len(out[c])
           s == sent[c]
           l == Last(c)
<1>0. t \in Nat /\ u \in Nat /\ L \in Nat /\ s \in Nat /\ l \in Nat /\ L + u <= t /\ l <= t
  BY Numbers
<1>1. u + n - m \in Nat /\ t + n \in Nat
  BY <1>0
<1>2. /\ taken' \in [Clients -> Nat] /\ cut' \in [Clients -> Nat] /\ held' \in [Clients -> Nat]
      /\ taken'[c] = t + n /\ cut'[c] = u + n - m /\ held'[c] = 0
      /\ \A d \in Clients \ {c} : held'[d] = held[d] /\ cut'[d] = cut[d] /\ taken'[d] = taken[d]
  BY <1>1, Typed
<1>3. Puts(c, t, m)
  BY <1>2 DEF Puts, t
<1>b. t + n <= s
  OBVIOUS
<1> HIDE DEF t, u, L, s, l
<1>4. MayPut(c, t, m)
  <2>1. t <= t + n /\ t + m <= t + n /\ l <= t /\ l <= t + n /\ L + m + (u + n - m) + 0 <= t + n
    BY <1>0
  <2>2. taken'[c] - held'[c] = t + n
    BY <1>0, <1>2
  <2>3. 0 <= Buf
    BY NetConstants
  <2>4. QED
    BY <1>2, <1>b, <2>1, <2>2, <2>3 DEF MayPut, t, L, l, s
<1>5. NetInv' /\ SameBut(c)
  BY <1>0, <1>3, <1>4, WriteKeeps
<1>6. Common'
  <2>1. sst'[c] = "closed" => Gone(c)'
    <3>1. sst'[c] = sst[c] \/ Gone(c)
      OBVIOUS
    <3>2. sst[c] = "closed" => Gone(c)
      BY DEF Common, ClosesOnlyTheGone
    <3>3. QED
      BY <3>1, <3>2 DEF Gone
  <2>2. QED
    BY <1>5, <2>1, CommonKept
<1>7. EchoNext
  <2>1. NonBlocking /\ t + m <= s
    BY <1>0, <1>b DEF NonBlocking
  <2>2. out' = [out EXCEPT ![c] = @ \o Units(t, m)] /\ l <= t
    BY <1>0 DEF t
  <2>3. QED
    BY <1>0, <2>1, <2>2, EchoStep DEF l, s
<1>8. QED
  BY <1>5, <1>6, <1>7 DEF Kept

LEMMA ServeKeeps ==
  ASSUME IInv, kind = "async", alive, UNCHANGED kind, Evt!ServeEntry
  PROVE  Kept /\ Evt!TypeOK' /\ EvtInv' /\ Evt!ArraysAgree'
<1> USE DEF Evt!hServSock
<1>0. /\ iEvt <= Len(hSockArr) /\ hSockArr[iEvt] # 0 /\ pcEvt = "scan"
  BY DEF Evt!ServeEntry, Evt!AtEntry
<1>1. iEvt \in 1..Len(hSockArr) /\ iEvt \in DOMAIN hSockArr
  BY <1>0, EvtFacts
<1>2. PICK c \in Clients : c = hSockArr[iEvt]
  BY <1>0, <1>1, EvtFacts
<1>3. /\ IF Evt!FdRead(c) THEN Evt!Answer(c) ELSE UNCHANGED <<alive, tcp>>
      /\ closeSeen' \subseteq closeSeen \cup {c}
      /\ \/ UNCHANGED <<sst, hSockArr, hEventArr>>
         \/ conn[c] = "fin" /\ Evt!TakenOut(c)
      /\ (pcEvt' = "wait" /\ iEvt' = 1) \/ (iEvt' = iEvt + 1 /\ UNCHANGED pcEvt)
  BY <1>2 DEF Evt!ServeEntry, Evt!Rewind, Evt!tcp, tcp
<1>4. /\ NetInv /\ Common /\ sst[c] = "open" /\ held[c] = 0
  BY <1>1, <1>2, EvtFacts DEF EvtSockets
<1>5. UNCHANGED sst \/ (Gone(c) /\ sst[c] # "none" /\ sst' = [sst EXCEPT ![c] = "closed"])
  BY <1>3, <1>4 DEF Evt!TakenOut, Gone
<1>6. Kept /\ SameBut(c) /\ UNCHANGED held
  <2>1. CASE Evt!FdRead(c)
    <3> DEFINE n == Least(Buf, Unread(c))
               m == IF conn[c] = "open" THEN Least(n, Room(c)) ELSE 0
               r == Room(c)
               u == Unread(c)
               t == taken[c]
               s == sent[c]
    <3>1. /\ taken' = [taken EXCEPT ![c] = @ + n] /\ cut' = [cut EXCEPT ![c] = @ + n - m]
          /\ out' = [out EXCEPT ![c] = @ \o Units(taken[c], m)]
          /\ UNCHANGED <<alive, conn, sent, held, got>> /\ u > 0
      BY <1>3, <2>1, EvtNet DEF Evt!Answer, Evt!FdRead
    <3>2. /\ t \in Nat /\ s \in Nat /\ t <= s /\ r >= 0 /\ r \in Int
          /\ u = 0 \/ u = s - t
      <4>1. Good(c) /\ Len(out[c]) \in Nat /\ got[c] \in Nat
        BY <1>4, Numbers
      <4>2. r \in Int
        BY <4>1, NetConstants DEF Room
      <4>3. r >= 0
        BY <4>1 DEF Good
      <4>4. u = 0 \/ u = s - t
        BY DEF Unread
      <4>5. QED
        BY <1>4, <4>2, <4>3, <4>4, Numbers
    <3> HIDE DEF r, u, t, s
    <3>3. n \in Nat /\ n <= u
      BY <3>1, <3>2, NetConstants DEF Least, u
    <3> HIDE DEF n
    <3>4. m \in Nat /\ m <= n
      BY <3>2, <3>3 DEF Least, r
    <3>5. t + n <= s /\ m <= r
      BY <3>1, <3>2, <3>3 DEF Least, r
    <3> HIDE DEF m
    <3>6. QED
      BY <1>4, <1>5, <3>1, <3>3, <3>4, <3>5, AnswerKeeps DEF t, s, r
  <2>2. CASE ~Evt!FdRead(c)
    <3>1. UNCHANGED <<alive, tcp>> /\ UNCHANGED held
      BY <1>3, <2>2 DEF tcp
    <3>2. CASE UNCHANGED sst
      BY <1>4, <3>1, <3>2, Stutter DEF netVars, tcp, SameBut, Same
    <3>3. CASE Gone(c) /\ sst[c] # "none" /\ sst' = [sst EXCEPT ![c] = "closed"]
      BY <1>4, <3>1, <3>3, CallKept DEF Calls, Close
    <3>4. QED
      BY <1>5, <3>2, <3>3
  <2>3. QED
    BY <2>1, <2>2
<1>7. /\ iEvt' \in 1..Len(MaxUnits) + 2 /\ pcEvt' \in {"wait", "scan"} /\ closeSeen' \subseteq Clients
  BY <1>1, <1>3, EvtFacts
<1>8. CASE UNCHANGED <<sst, hSockArr, hEventArr>>
  <2>1. Evt!TypeOK' /\ Evt!ArraysAgree'
    BY <1>7, <1>8, EvtFacts, EvtTyped DEF Evt!ArraysAgree
  <2>2. EvtInv'
    BY <1>6, <1>8, EvtFacts DEF EvtInv, EvtSockets
  <2>3. QED
    BY <1>6, <2>1, <2>2
<1>9. CASE conn[c] = "fin" /\ Evt!TakenOut(c)
  <2>1. hSockArr' = hEventArr' /\ hSockArr' \in Seq(Clients \cup {0}) /\ Loses(hSockArr, iEvt, hSockArr')
    BY <1>1, <1>9, EvtFacts, TakeOut DEF Evt!TakenOut, Evt!CompressSockets
  <2>2. Evt!TypeOK' /\ Evt!ArraysAgree'
    BY <1>7, <2>1, EvtTyped DEF Evt!ArraysAgree
  <2>3. /\ Distinct(hSockArr')
        /\ \A k \in DOMAIN hSockArr' : hSockArr'[k] # c /\ \E j \in DOMAIN hSockArr : hSockArr'[k] = hSockArr[j]
    BY <1>1, <1>2, <2>1, EvtFacts, LosesDistinct DEF EvtSockets
  <2>4. \A k \in DOMAIN hSockArr' : hSockArr'[k] # 0 => sst'[hSockArr'[k]] = "open"
    <3>1. ASSUME NEW k \in DOMAIN hSockArr', hSockArr'[k] # 0
          PROVE  sst'[hSockArr'[k]] = "open"
      <4>1. PICK d \in Clients \ {c} : d = hSockArr'[k] /\ sst[d] = "open"
        BY <2>3, <3>1, EvtFacts DEF EvtSockets
      <4>2. QED
        BY <1>6, <4>1 DEF SameBut, Same
    <3>2. QED
      BY <3>1
  <2>5. EvtInv'
    BY <1>6, <2>3, <2>4, EvtFacts DEF EvtInv, EvtSockets
  <2>6. QED
    BY <1>6, <2>2, <2>5
<1>10. QED
  BY <1>3, <1>8, <1>9

LEMMA EvtStepKeeps ==
  ASSUME IInv, EventStep
  PROVE  Kept /\ Evt!TypeOK' /\ EvtInv' /\ Evt!ArraysAgree'
<1> USE DEF Evt!hServSock
<1>0. kind = "async" /\ alive /\ UNCHANGED kind /\ Evt!Step
  BY DEF EventStep
<1>1. CASE Evt!Wait \/ Evt!Skip \/ Evt!EndScan
  <2>1. /\ UNCHANGED <<netVars, hSockArr, hEventArr, closeSeen>> /\ pcEvt' \in {"wait", "scan"}
    BY <1>0, <1>1, EvtFacts DEF Evt!Wait, Evt!Skip, Evt!EndScan, Evt!Rewind,
       Evt!netVars, Evt!tcp, netVars, tcp
  <2>2. iEvt' \in 1..Len(MaxUnits) + 2
    <3>1. CASE Evt!Wait
      <4>1. \E k \in DOMAIN hEventArr : iEvt' = k
        BY <3>1 DEF Evt!Wait
      <4>2. QED
        BY <1>0, <4>1, EvtFacts
    <3>2. CASE Evt!Skip
      BY <1>0, <3>2, EvtFacts DEF Evt!Skip, Evt!AtEntry
    <3>3. CASE Evt!EndScan
      BY <1>0, <3>3, EvtFacts DEF Evt!EndScan, Evt!Rewind
    <3>4. QED
      BY <1>1, <3>1, <3>2, <3>3
  <2>3. Kept /\ UNCHANGED <<sst, held>>
    BY <1>0, <2>1, EvtFacts, Stutter
  <2>4. Evt!TypeOK' /\ Evt!ArraysAgree'
    BY <1>0, <2>1, <2>2, EvtFacts, EvtTyped DEF Evt!ArraysAgree
  <2>5. EvtInv'
    BY <1>0, <2>1, <2>3, EvtFacts DEF EvtInv, EvtSockets
  <2>6. QED
    BY <2>3, <2>4, <2>5
<1>2. CASE Evt!AcceptOne
  <2>1. PICK c \in Clients : c = NextQueued /\ Accept(c)
    BY <1>2, EvtNet DEF Evt!AcceptOne, Accept, Backlog
  <2>2. /\ hSockArr' = Append(hSockArr, c) /\ hEventArr' = Append(hEventArr, c)
        /\ iEvt' = iEvt + 1 /\ UNCHANGED <<pcEvt, closeSeen>> /\ iEvt <= Len(hSockArr)
    BY <1>2, <2>1, EvtNet DEF Evt!AcceptOne, Evt!AtEntry
  <2>3. /\ sst[c] = "queued" /\ sst'[c] = "open" /\ UNCHANGED held
    BY <1>0, <2>1, EvtFacts, Typed DEF Accept, Backlog, tcp
  <2>4. Kept /\ SameBut(c)
    BY <1>0, <2>1, EvtFacts, CallKept DEF Calls
  <2>5. \A j \in DOMAIN hSockArr : hSockArr[j] # c
    BY <1>0, <2>3, EvtFacts DEF EvtSockets
  <2>6. /\ hSockArr' \in Seq(Clients \cup {0}) /\ Distinct(hSockArr')
        /\ \A j \in DOMAIN hSockArr' : hSockArr'[j] = IF j \in DOMAIN hSockArr THEN hSockArr[j] ELSE c
    <3>1. hSockArr \in Seq(Clients \cup {0}) /\ Distinct(hSockArr) /\ c \in Clients \cup {0}
      BY <1>0, EvtFacts DEF EvtSockets
    <3>2. QED
      BY <2>2, <2>5, <3>1, PutBehind
  <2>7. iEvt' \in 1..Len(MaxUnits) + 2
    BY <1>0, <2>2, EvtFacts
  <2>8. Evt!TypeOK' /\ Evt!ArraysAgree'
    BY <1>0, <2>2, <2>6, <2>7, EvtFacts, EvtTyped DEF Evt!ArraysAgree
  <2>9. \A k \in DOMAIN hSockArr' : hSockArr'[k] # 0 => sst'[hSockArr'[k]] = "open"
    <3>1. ASSUME NEW k \in DOMAIN hSockArr', hSockArr'[k] # 0
          PROVE  sst'[hSockArr'[k]] = "open"
      <4>1. CASE hSockArr'[k] = c
        BY <2>3, <4>1
      <4>2. CASE hSockArr'[k] # c
        <5>1. PICK d \in Clients \ {c} : d = hSockArr'[k] /\ sst[d] = "open"
          BY <1>0, <2>6, <3>1, <4>2, EvtFacts DEF EvtSockets
        <5>2. QED
          BY <2>4, <5>1 DEF SameBut, Same
      <4>3. QED
        BY <4>1, <4>2
    <3>2. QED
      BY <3>1
  <2>10. EvtInv'
    BY <1>0, <2>3, <2>6, <2>9, EvtFacts DEF EvtInv, EvtSockets
  <2>11. QED
    BY <2>4, <2>8, <2>10
<1>3. CASE Evt!ServeEntry
  BY <1>0, <1>3, ServeKeeps
<1>4. QED
  BY <1>0, <1>1, <1>2, <1>3 DEF Evt!Step

LEMMA EvtClientKeeps ==
  ASSUME IInv, kind = "async", NEW c \in Clients, Client(c)
  PROVE  EvtInv'
<1>0. ClientStep(c) /\ UNCHANGED kind /\ UNCHANGED hSockArr
  BY DEF Client, serverVars, eventVars
<1>1. UNCHANGED held /\ \A d \in Clients : (sst[d] = "open" => sst'[d] = "open")
  BY <1>0, EvtFacts, ClientsGive DEF MoreToDo
<1>2. QED
  BY <1>0, <1>1, EvtFacts DEF EvtInv, EvtSockets

-----------------------------------------------------------------------------
(* echo_selectserv_win.c *)

LEMMA WinNet ==
  /\ Win!Clients = Clients /\ Win!Backlog = Backlog /\ Win!NextQueued = NextQueued
  /\ \A c : Win!Readable(c) <=> Readable(c)
  /\ \A c : Win!Accept(c) <=> Accept(c)
  /\ \A c : Win!ReadData(c) <=> ReadData(c)
  /\ \A c : Win!ReadReset(c) <=> ReadReset(c)
  /\ \A c : Win!AtEof(c) <=> AtEof(c)
  /\ \A c : Win!NothingToRead(c) <=> NothingToRead(c)
  /\ \A c : Win!Close(c) <=> Close(c)
  /\ \A c : Win!WriteOne(c) <=> WriteOne(c)
  /\ \A c : Win!WriteLost(c) <=> WriteLost(c)
  BY DEF Win!Clients, Clients, Win!Backlog, Backlog, Win!NextQueued, NextQueued,
     Win!Readable, Readable, Win!Accept, Accept, Win!ReadData, ReadData, Win!ReadUpTo, ReadUpTo,
     Win!ReadReset, ReadReset, Win!AfterReset, AfterReset, Win!AtEof, AtEof,
     Win!NothingToRead, NothingToRead, Win!Close, Close,
     Win!WriteOne, WriteOne, Win!WriteLost, WriteLost,
     Win!Room, Room, Win!Unread, Unread, Win!Windows, Windows, Win!Least, Least,
     Win!Gone, Gone, Win!tcp, tcp

LEMMA WinFacts ==
  ASSUME IInv, kind = "select_win"
  PROVE  /\ NetInv /\ Common /\ WinSets /\ WinScan /\ WinHolds
         /\ pcWin \in {"select", "scan", "write", "ended"} /\ readArr \in Seq(Clients \cup {0})
         /\ cpyArr \in Seq(Clients \cup {0}) /\ ready \in 0..Len(cpyArr)
         /\ iWin \in 1..Len(MaxUnits) + 2
         /\ Len(readArr) \in 0..Len(MaxUnits) + 1 /\ DOMAIN readArr = 1..Len(readArr)
         /\ Len(cpyArr) \in Nat /\ DOMAIN cpyArr = 1..Len(cpyArr)
         /\ \A k \in DOMAIN readArr : readArr[k] \in Clients \cup {0}
         /\ \A k \in DOMAIN cpyArr : cpyArr[k] \in Clients \cup {0}
         /\ Len(MaxUnits) \in Nat /\ 0 \notin Clients
         /\ held \in [Clients -> Nat] /\ sst \in [Clients -> {"none", "queued", "open", "closed"}]
<1>1. /\ NetInv /\ Common /\ WinSets /\ WinScan /\ WinHolds
      /\ Len(MaxUnits) \in Nat /\ 0 \notin Clients /\ Clients = 1..Len(MaxUnits)
  BY Servers DEF IInv, WinInv
<1>2. /\ pcWin \in {"select", "scan", "write", "ended"} /\ readArr \in Seq(Clients \cup {0})
      /\ cpyArr \in Seq(Clients \cup {0}) /\ ready \in 0..Len(cpyArr)
      /\ iWin \in 1..Len(MaxUnits) + 2
  BY Servers, WinNet DEF Win!TypeOK, Win!hServSock
<1>3. Clients \cup {0} = 0..Len(MaxUnits)
  BY <1>1
<1>4. Len(readArr) \in 0..Len(MaxUnits) + 1
  BY <1>1, <1>2, <1>3, DistinctFits DEF WinSets
<1>5. /\ DOMAIN readArr = 1..Len(readArr) /\ DOMAIN cpyArr = 1..Len(cpyArr) /\ Len(cpyArr) \in Nat
      /\ \A k \in DOMAIN readArr : readArr[k] \in Clients \cup {0}
      /\ \A k \in DOMAIN cpyArr : cpyArr[k] \in Clients \cup {0}
  BY <1>2, LenProperties, ElementOfSeq
<1>6. held \in [Clients -> Nat] /\ sst \in [Clients -> {"none", "queued", "open", "closed"}]
  BY <1>1, Typed
<1>7. QED
  BY <1>1, <1>2, <1>4, <1>5, <1>6

LEMMA WinTyped ==
  Win!TypeOK' <=>
    /\ pcWin' \in {"select", "scan", "write", "ended"} /\ readArr' \in Seq(Clients \cup {0})
    /\ cpyArr' \in Seq(Clients \cup {0}) /\ ready' \in 0..Len(cpyArr')
    /\ iWin' \in 1..Len(MaxUnits) + 2
  BY WinNet DEF Win!TypeOK, Win!hServSock

\* While client c = reads[i] is served, the arrays stay.
LEMMA WinServes ==
  ASSUME IInv, kind = "select_win", UNCHANGED <<kind, readArr, cpyArr, ready, sst>>,
         NEW c \in Clients, SameBut(c), iWin \in DOMAIN readArr, readArr[iWin] = c,
         iWin' = iWin + 1 \/ (iWin' = iWin /\ pcWin' = "write"),
         pcWin' \in {"scan", "write"}
  PROVE  Win!TypeOK' /\ WinSets' /\ WinScan'
<1>1. Win!TypeOK'
  <2>1. iWin' \in 1..Len(MaxUnits) + 2
    BY WinFacts
  <2>2. QED
    BY <2>1, WinFacts, WinTyped
<1>2. WinSets'
  BY WinFacts DEF WinSets, InCopy
<1>3. WinScan'
  <2>1. ASSUME NEW j \in DOMAIN readArr, j > iWin, InCopy(j)
        PROVE  readArr[j] # 0 /\ \A d : d = readArr[j] => ~NothingToRead(d)'
    <3>1. j # 1 /\ j # iWin
      BY <2>1, WinFacts
    <3>2. readArr[j] \in Clients \ {c}
      BY <3>1, WinFacts DEF WinSets, Distinct
    <3>3. \A d \in Clients \ {c} : NothingToRead(d)' <=> NothingToRead(d)
      BY OthersSame
    <3>4. ~NothingToRead(readArr[j])
      BY <2>1, <3>2, WinFacts DEF WinScan
    <3>5. PICK d \in Clients \ {c} : d = readArr[j]
      BY <3>2
    <3>6. ~NothingToRead(d)
      BY <3>4, <3>5
    <3>7. ~NothingToRead(d)'
      BY <3>3, <3>6
    <3>8. QED
      BY <3>2, <3>5, <3>7, WinFacts
  <2>2. \A j \in DOMAIN readArr : j > iWin' \/ (j = iWin' /\ pcWin' = "scan") => j > iWin
    BY WinFacts
  <2>3. QED
    BY <2>1, <2>2 DEF WinScan, InCopy
<1>4. QED
  BY <1>1, <1>2, <1>3

\* select packs the ready sockets to the front of the copy.
LEMMA SelectKeeps ==
  ASSUME IInv, kind = "select_win", alive, UNCHANGED kind, Win!Select
  PROVE  Kept /\ Win!TypeOK' /\ WinInv'
<1> USE DEF Win!hServSock
<1>1. /\ UNCHANGED <<netVars, readArr>> /\ iWin' = 1 /\ pcWin' = "scan" /\ pcWin = "select"
  BY DEF Win!Select, Win!netVars, Win!tcp, netVars, tcp
<1>a. PICK n \in DOMAIN readArr : \E from \in [1..n -> Win!ReadyAt] :
        /\ Win!Packs(from) /\ ready' = n
        /\ cpyArr' = [k \in DOMAIN readArr |-> IF k <= n THEN readArr[from[k]] ELSE readArr[k]]
  BY DEF Win!Select
<1>2. PICK from \in [1..n -> Win!ReadyAt] :
        /\ Win!Packs(from) /\ ready' = n
        /\ cpyArr' = [k \in DOMAIN readArr |-> IF k <= n THEN readArr[from[k]] ELSE readArr[k]]
  BY <1>a
<1>3. /\ Kept /\ UNCHANGED <<sst, held>> /\ Backlog' = Backlog
      /\ \A d : NothingToRead(d)' <=> NothingToRead(d)
  BY <1>1, WinFacts, Stutter
<1>4. /\ n \in 1..Len(readArr) /\ DOMAIN readArr = 1..Len(readArr) /\ Len(readArr) \in Nat
      /\ 1 \in DOMAIN readArr /\ readArr[1] = 0
  BY WinFacts DEF WinSets
<1>5. \A k \in 1..n : from[k] \in DOMAIN readArr /\ Win!IsReady(readArr[from[k]])
  BY DEF Win!ReadyAt
<1>6. \A k \in 1..n : k > 1 => from[k] # 1
  <2>1. ASSUME NEW k \in 1..n, k > 1
        PROVE  from[1] < from[k]
    <3>1. 1 \in DOMAIN from /\ k \in DOMAIN from /\ 1 < k
      BY <1>4, <2>1
    <3>2. QED
      BY <1>2, <3>1 DEF Win!Packs
  <2>2. ASSUME NEW k \in 1..n, k > 1
        PROVE  from[k] # 1
    <3>1. from[1] \in 1..Len(readArr) /\ from[k] \in 1..Len(readArr)
      BY <1>4, <1>5, <2>2
    <3>2. QED
      BY <1>4, <2>1, <2>2, <3>1
  <2>3. QED
    BY <2>2
<1>7. \A j \in DOMAIN readArr : j # 1 => readArr[j] # 0
  BY <1>4, WinFacts DEF WinSets, Distinct
<1>8. /\ cpyArr' \in [1..Len(readArr) -> Clients \cup {0}]
      /\ \A k \in 1..Len(readArr) : \E j \in DOMAIN readArr : cpyArr'[k] = readArr[j] /\ (k > 1 => j # 1)
  <2>1. ASSUME NEW k \in 1..Len(readArr)
        PROVE  \E j \in DOMAIN readArr : cpyArr'[k] = readArr[j] /\ (k > 1 => j # 1)
    <3>1. CASE k <= n
      <4>1. k \in 1..n /\ cpyArr'[k] = readArr[from[k]]
        BY <1>2, <1>4, <3>1
      <4>2. QED
        BY <1>5, <1>6, <4>1
    <3>2. CASE ~(k <= n)
      <4>1. cpyArr'[k] = readArr[k]
        BY <1>2, <1>4, <3>2
      <4>2. QED
        BY <1>4, <4>1
    <3>3. QED
      BY <3>1, <3>2
  <2>2. \A k \in 1..Len(readArr) : cpyArr'[k] \in Clients \cup {0}
    BY <2>1, WinFacts
  <2>3. DOMAIN cpyArr' = 1..Len(readArr) /\ cpyArr' = [k \in 1..Len(readArr) |-> cpyArr'[k]]
    BY <1>2, <1>4
  <2>4. QED
    BY <2>1, <2>2, <2>3
<1>9. /\ cpyArr' \in Seq(Clients \cup {0}) /\ Len(cpyArr') = Len(readArr)
      /\ DOMAIN cpyArr' = 1..Len(readArr)
  BY <1>4, <1>8, IsASeq, LenProperties
<1>10. Win!TypeOK'
  BY <1>1, <1>2, <1>4, <1>9, WinFacts, WinTyped
<1>11. \A j \in DOMAIN readArr : InCopy(j)' => Win!IsReady(readArr[j])
  <2>1. ASSUME NEW j \in DOMAIN readArr, NEW k \in 1..n, cpyArr'[k] = readArr[j]
        PROVE  Win!IsReady(readArr[j])
    <3>1. cpyArr'[k] = readArr[from[k]]
      BY <1>2, <1>4
    <3>2. from[k] = j
      BY <1>5, <2>1, <3>1, WinFacts DEF WinSets, Distinct
    <3>3. QED
      BY <1>5, <3>2
  <2>2. QED
    BY <1>1, <1>2, <2>1 DEF InCopy
<1>12. WinSets'
  <2>1. \A k \in DOMAIN cpyArr' : /\ cpyArr'[k] # 0 => sst'[cpyArr'[k]] \in {"open", "closed"}
                                  /\ k > 1 => cpyArr'[k] # 0
    <3>1. ASSUME NEW k \in 1..Len(readArr)
          PROVE  /\ cpyArr'[k] # 0 => sst'[cpyArr'[k]] \in {"open", "closed"}
                 /\ k > 1 => cpyArr'[k] # 0
      <4>1. PICK j \in DOMAIN readArr : cpyArr'[k] = readArr[j] /\ (k > 1 => j # 1)
        BY <1>8
      <4>2. readArr[j] # 0 => sst[readArr[j]] \in {"open", "closed"}
        BY WinFacts DEF WinSets
      <4>3. QED
        BY <1>3, <1>7, <4>1, <4>2
    <3>2. QED
      BY <1>9, <3>1
  <2>2. QED
    BY <1>1, <1>3, <1>4, <1>9, <2>1, WinFacts DEF WinSets
<1>13. WinScan'
  <2>1. \A s : Win!IsReady(s) => IF s = 0 THEN Backlog # {} ELSE ~NothingToRead(s)
    <3>1. \A s : Readable(s) => ~NothingToRead(s)
      BY DEF Readable, NothingToRead
    <3>2. QED
      BY <3>1, WinNet DEF Win!IsReady
  <2>2. QED
    BY <1>1, <1>3, <1>11, <2>1 DEF WinScan
<1>14. WinHolds'
  BY <1>1, <1>3, WinFacts DEF WinHolds
<1>15. QED
  BY <1>3, <1>10, <1>12, <1>13, <1>14 DEF WinInv

\* FD_CLR closes the gap in reads; the socket closed stands in the copy.
LEMMA ReadZeroKeeps ==
  ASSUME IInv, kind = "select_win", alive, UNCHANGED kind, Win!ReadZero
  PROVE  Kept /\ Win!TypeOK' /\ WinInv'
<1> USE DEF Win!hServSock
<1>1. /\ pcWin = "scan" /\ iWin <= Len(readArr) /\ readArr[iWin] # 0 /\ InCopy(iWin)
      /\ readArr' = SubSeq(readArr, 1, iWin - 1) \o SubSeq(readArr, iWin + 1, Len(readArr))
      /\ Close(cpyArr[iWin]) /\ iWin' = iWin + 1 /\ pcWin' = "scan" /\ UNCHANGED <<cpyArr, ready>>
  BY WinNet DEF Win!ReadZero, Win!AtClient, Win!IsSet, InCopy, Win!ToClose, Win!Without, Win!NextEntry
<1>2. iWin \in 1..Len(readArr) /\ iWin \in DOMAIN readArr /\ iWin > 1 /\ iWin \in DOMAIN cpyArr
  <2>1. iWin \in DOMAIN readArr /\ iWin # 1
    BY <1>1, WinFacts DEF WinSets
  <2>2. QED
    BY <1>1, <2>1, WinFacts DEF WinSets
<1>3. PICK c \in Clients : c = cpyArr[iWin] /\ sst[c] \in {"open", "closed"}
  BY <1>2, WinFacts DEF WinSets
<1>4. Kept /\ SameBut(c) /\ UNCHANGED <<held, conn>> /\ sst'[c] = "closed"
  <2>1. Close(c) /\ sst[c] # "none"
    BY <1>1, <1>3
  <2>2. Kept /\ SameBut(c)
    BY <2>1, WinFacts, CallKept DEF Calls
  <2>3. QED
    BY <2>1, <2>2, WinFacts DEF Close, tcp
<1>5. readArr' \in Seq(Clients \cup {0}) /\ Loses(readArr, iWin, readArr')
  BY <1>1, <1>2, WinFacts, TakeOut
<1>6. /\ Distinct(readArr') /\ DOMAIN readArr' = 1..Len(readArr') /\ Len(readArr') = Len(readArr) - 1
      /\ \A j \in DOMAIN readArr' : \E m \in DOMAIN readArr : readArr'[j] = readArr[m]
  <2>1. Distinct(readArr) /\ readArr \in Seq(Clients \cup {0})
    BY WinFacts DEF WinSets
  <2>2. Distinct(readArr') /\ \A j \in DOMAIN readArr' : \E m \in DOMAIN readArr : readArr'[j] = readArr[m]
    BY <1>2, <1>5, <2>1, LosesDistinct
  <2>3. DOMAIN readArr' = 1..Len(readArr') /\ Len(readArr') = Len(readArr) - 1
    BY <1>5, LenProperties DEF Loses
  <2>4. QED
    BY <2>2, <2>3
<1>7. Win!TypeOK'
  BY <1>1, <1>2, <1>5, WinFacts, WinTyped
<1>8. \A d \in Clients : sst[d] \in {"open", "closed"} => sst'[d] \in {"open", "closed"}
  BY <1>4 DEF SameBut, Same
<1>9. 1 \in DOMAIN readArr' /\ readArr'[1] = 0
  <2>1. 1 \in DOMAIN readArr'
    BY <1>2, <1>6, WinFacts
  <2>2. readArr'[1] = readArr[1]
    BY <1>2, <1>5, <2>1 DEF Loses
  <2>3. QED
    BY <2>1, <2>2, WinFacts DEF WinSets
<1>10. \A j \in DOMAIN readArr' : InCopy(j)' =>
         \E m \in DOMAIN readArr : /\ InCopy(m) /\ readArr'[j] = readArr[m]
                                   /\ m = IF j < iWin THEN j ELSE j + 1
  BY <1>1, <1>5 DEF InCopy, Loses
<1>11. WinSets'
  <2>1. \A k \in DOMAIN readArr' : readArr'[k] # 0 => sst'[readArr'[k]] \in {"open", "closed"}
    BY <1>6, <1>8, WinFacts DEF WinSets
  <2>2. \A k \in DOMAIN cpyArr' : /\ cpyArr'[k] # 0 => sst'[cpyArr'[k]] \in {"open", "closed"}
                                  /\ k > 1 => cpyArr'[k] # 0
    BY <1>1, <1>8, WinFacts DEF WinSets
  <2>3. ASSUME NEW j \in DOMAIN readArr', InCopy(j)'
        PROVE  j \in DOMAIN cpyArr'
    <3>1. PICK m \in DOMAIN cpyArr : m = IF j < iWin THEN j ELSE j + 1
      BY <1>10, <2>3, WinFacts DEF WinSets
    <3>2. m \in 1..Len(cpyArr) /\ j \in 1..Len(readArr') /\ Len(cpyArr) \in Nat /\ iWin \in Nat
      BY <1>2, <1>6, <3>1, WinFacts
    <3>3. j \in 1..Len(cpyArr)
      BY <3>1, <3>2
    <3>4. QED
      BY <1>1, <3>3, WinFacts
  <2>4. QED
    BY <1>6, <1>9, <2>1, <2>2, <2>3 DEF WinSets
<1>12. WinScan'
  <2>1. ASSUME NEW j \in DOMAIN readArr', j > iWin' \/ j = iWin', InCopy(j)'
        PROVE  readArr'[j] # 0 /\ \A d : d = readArr'[j] => ~NothingToRead(d)'
    <3>1. PICK m \in DOMAIN readArr : /\ InCopy(m) /\ readArr'[j] = readArr[m]
                                      /\ m = IF j < iWin THEN j ELSE j + 1
      BY <1>10, <2>1
    <3>2. m > iWin /\ m # 1
      <4>1. j \in Nat /\ iWin \in Nat /\ j >= iWin + 1 /\ iWin >= 1
        BY <1>1, <1>2, <1>6, <2>1
      <4>2. QED
        BY <3>1, <4>1
    <3>3. readArr[m] # 0 /\ ~NothingToRead(readArr[m])
      BY <3>1, <3>2, WinFacts DEF WinScan, WinSets, Distinct
    <3>4. PICK d : d = readArr[m]
      OBVIOUS
    <3>5. ~NothingToRead(d)
      BY <3>3, <3>4
    <3>6. NothingToRead(d)' <=> NothingToRead(d)
      BY <1>1 DEF Close, tcp, NothingToRead, Unread, Windows, Gone
    <3>7. QED
      BY <3>1, <3>3, <3>4, <3>5, <3>6
  <2>2. QED
    BY <1>1, <2>1 DEF WinScan
<1>13. WinHolds'
  BY <1>1, <1>4, WinFacts DEF WinHolds
<1>14. QED
  BY <1>4, <1>7, <1>11, <1>12, <1>13 DEF WinInv

LEMMA WinStepKeeps ==
  ASSUME IInv, SelectWinStep
  PROVE  Kept /\ Win!TypeOK' /\ WinInv'
<1> USE DEF Win!hServSock
<1>0. kind = "select_win" /\ alive /\ UNCHANGED kind /\ Win!Step
  BY DEF SelectWinStep
<1>1. CASE Win!SelectFails
  <2>1. /\ pcWin' = "ended" /\ alive' = FALSE /\ UNCHANGED <<tcp, sst, readArr, cpyArr, ready, iWin>>
        /\ \E k \in DOMAIN readArr : readArr[k] # 0 /\ pcWin = "select"
    BY <1>1 DEF Win!SelectFails, Win!tcp, tcp
  <2>2. PICK c \in Clients : TRUE
    BY <1>0, <2>1, WinFacts
  <2>3. Kept
    BY <1>0, <2>1, WinFacts, CallKept DEF Calls
  <2>4. Win!TypeOK'
    BY <1>0, <2>1, WinFacts, WinTyped
  <2>5. WinSets'
    BY <1>0, <2>1, WinFacts DEF WinSets, InCopy
  <2>6. WinScan'
    <3>1. Backlog' = Backlog /\ \A d : NothingToRead(d)' <=> NothingToRead(d)
      BY <1>0, <2>1 DEF tcp, Backlog, NothingToRead, Gone, Unread, Windows
    <3>2. QED
      BY <1>0, <2>1, <3>1, WinFacts DEF WinScan, InCopy
  <2>7. WinHolds'
    BY <1>0, <2>1, WinFacts DEF WinHolds, tcp
  <2>8. QED
    BY <2>3, <2>4, <2>5, <2>6, <2>7 DEF WinInv
<1>2. CASE Win!Skip
  <2>1. /\ UNCHANGED <<netVars, pcWin, readArr, cpyArr, ready>> /\ iWin' = iWin + 1
        /\ iWin <= Len(readArr)
    BY <1>2 DEF Win!Skip, Win!netVars, Win!tcp, netVars, tcp
  <2>2. /\ Kept /\ UNCHANGED <<sst, held>> /\ Backlog' = Backlog
        /\ \A d : NothingToRead(d)' <=> NothingToRead(d)
    BY <1>0, <2>1, WinFacts, Stutter
  <2>a. pcWin = "scan"
    BY <1>2 DEF Win!Skip
  <2>3. iWin' \in 1..Len(MaxUnits) + 2
    BY <1>0, <2>1, WinFacts
  <2>4. Win!TypeOK'
    BY <1>0, <2>1, <2>3, WinFacts, WinTyped
  <2>5. WinSets'
    BY <1>0, <2>1, <2>2, WinFacts DEF WinSets, InCopy
  <2>6. WinScan'
    <3>1. \A j \in DOMAIN readArr : j > iWin + 1 \/ j = iWin + 1 => j > iWin
      BY <1>0, WinFacts
    <3>2. QED
      BY <1>0, <2>1, <2>2, <3>1, WinFacts DEF WinScan, InCopy
  <2>7. WinHolds'
    BY <1>0, <2>1, <2>2, <2>a, WinFacts DEF WinHolds
  <2>8. QED
    BY <2>2, <2>4, <2>5, <2>6, <2>7 DEF WinInv
<1>3. CASE Win!EndScan
  <2>1. /\ UNCHANGED <<netVars, readArr>> /\ cpyArr' = << >> /\ ready' = 0 /\ iWin' = 1
        /\ pcWin = "scan" /\ pcWin' = "select"
    BY <1>3 DEF Win!EndScan, Win!netVars, Win!tcp, netVars, tcp
  <2>2. Kept /\ UNCHANGED <<sst, held>>
    BY <1>0, <2>1, WinFacts, Stutter
  <2>3. cpyArr' \in Seq(Clients \cup {0}) /\ Len(cpyArr') = 0 /\ DOMAIN cpyArr' = {}
    BY <2>1, EmptySeq
  <2>4. Win!TypeOK'
    BY <1>0, <2>1, <2>3, WinFacts, WinTyped
  <2>5. \A j : ~InCopy(j)'
    BY <2>1 DEF InCopy
  <2>6. WinSets' /\ WinScan'
    BY <1>0, <2>1, <2>2, <2>3, <2>5, WinFacts DEF WinSets, WinScan
  <2>7. WinHolds'
    BY <1>0, <2>1, <2>2, WinFacts DEF WinHolds
  <2>8. QED
    BY <2>2, <2>4, <2>6, <2>7 DEF WinInv
<1>4. CASE Win!AcceptOne
  <2>1. PICK c \in Clients : c = NextQueued /\ Accept(c)
    BY <1>4, WinNet DEF Win!AcceptOne, Accept, Backlog
  <2>2. /\ readArr' = Append(readArr, c) /\ iWin' = iWin + 1 /\ pcWin' = "scan" /\ pcWin = "scan"
        /\ UNCHANGED <<cpyArr, ready>> /\ iWin <= Len(readArr)
    BY <1>4, <2>1, WinNet DEF Win!AcceptOne, Win!NextEntry
  <2>3. sst[c] = "queued" /\ sst'[c] = "open" /\ UNCHANGED <<held, tcp>>
    BY <1>0, <2>1, WinFacts DEF Accept, Backlog, tcp
  <2>4. Kept /\ SameBut(c)
    BY <1>0, <2>1, WinFacts, CallKept DEF Calls
  <2>5. (\A j \in DOMAIN readArr : readArr[j] # c) /\ \A k \in DOMAIN cpyArr : cpyArr[k] # c
    BY <1>0, <2>3, WinFacts DEF WinSets
  <2>6. /\ readArr' \in Seq(Clients \cup {0}) /\ Distinct(readArr') /\ Len(readArr') = Len(readArr) + 1
        /\ \A j \in DOMAIN readArr' : readArr'[j] = IF j \in DOMAIN readArr THEN readArr[j] ELSE c
    <3>1. readArr \in Seq(Clients \cup {0}) /\ Distinct(readArr) /\ c \in Clients \cup {0}
      BY <1>0, WinFacts DEF WinSets
    <3>2. QED
      BY <2>2, <2>5, <3>1, PutBehind
  <2>7. Win!TypeOK'
    <3>1. iWin' \in 1..Len(MaxUnits) + 2
      BY <1>0, <2>2, WinFacts
    <3>2. QED
      BY <1>0, <2>2, <2>6, <3>1, WinFacts, WinTyped
  <2>8. \A d \in Clients : d = c \/ sst'[d] = sst[d]
    BY <2>4 DEF SameBut, Same
  <2>9. 1 \in DOMAIN readArr' /\ DOMAIN readArr' = 1..Len(readArr) + 1
    <3>1. DOMAIN readArr' = 1..Len(readArr')
      BY <2>6, LenProperties
    <3>2. QED
      BY <1>0, <2>6, <3>1, WinFacts
  <2>10. \A k \in 1..ready : cpyArr[k] # c
    BY <1>0, <2>5, WinFacts
  <2>11. \A j \in DOMAIN readArr' : InCopy(j)' => j \in DOMAIN readArr /\ InCopy(j)
    BY <2>2, <2>6, <2>10 DEF InCopy
  <2>12. WinSets'
    <3>1. \A k \in DOMAIN readArr' : readArr'[k] # 0 => sst'[readArr'[k]] \in {"open", "closed"}
      <4>1. ASSUME NEW k \in DOMAIN readArr', readArr'[k] # 0
            PROVE  sst'[readArr'[k]] \in {"open", "closed"}
        <5>1. CASE k \in DOMAIN readArr
          <6>1. readArr'[k] = readArr[k] /\ readArr[k] # 0
            BY <2>6, <4>1, <5>1
          <6>2. PICK d \in Clients : d = readArr[k] /\ sst[d] \in {"open", "closed"}
            BY <1>0, <5>1, <6>1, WinFacts DEF WinSets
          <6>3. d # c
            BY <2>5, <5>1, <6>2
          <6>4. QED
            BY <2>8, <6>1, <6>2, <6>3
        <5>2. CASE k \notin DOMAIN readArr
          BY <2>3, <2>6, <5>2
        <5>3. QED
          BY <5>1, <5>2
      <4>2. QED
        BY <4>1
    <3>2. \A k \in DOMAIN cpyArr' : /\ cpyArr'[k] # 0 => sst'[cpyArr'[k]] \in {"open", "closed"}
                                    /\ k > 1 => cpyArr'[k] # 0
      BY <1>0, <2>2, <2>5, <2>8, WinFacts DEF WinSets
    <3>3. readArr'[1] = 0 /\ \A j \in DOMAIN readArr' : InCopy(j)' => j \in DOMAIN cpyArr'
      BY <1>0, <2>2, <2>6, <2>9, <2>11, WinFacts DEF WinSets
    <3>4. QED
      BY <2>6, <2>9, <3>1, <3>2, <3>3 DEF WinSets
  <2>13. WinScan'
    <3>1. ASSUME NEW j \in DOMAIN readArr', j > iWin' \/ j = iWin', InCopy(j)'
          PROVE  readArr'[j] # 0 /\ \A d : d = readArr'[j] => ~NothingToRead(d)'
      <4>1. j \in DOMAIN readArr /\ InCopy(j) /\ readArr'[j] = readArr[j]
        BY <2>6, <2>11, <3>1
      <4>2. j > iWin /\ j # 1
        BY <1>0, <2>2, <3>1, <4>1, WinFacts
      <4>3. readArr[j] # 0 /\ ~NothingToRead(readArr[j])
        BY <1>0, <4>1, <4>2, WinFacts DEF WinScan, WinSets, Distinct
      <4>4. PICK d : d = readArr[j]
        OBVIOUS
      <4>5. ~NothingToRead(d)
        BY <4>3, <4>4
      <4>6. NothingToRead(d)' <=> NothingToRead(d)
        BY <1>0, <2>3 DEF tcp, NothingToRead, Unread, Windows, Gone
      <4>7. QED
        BY <4>1, <4>3, <4>4, <4>5, <4>6
    <3>2. QED
      BY <2>2, <3>1 DEF WinScan
  <2>14. WinHolds'
    BY <1>0, <2>2, <2>3, WinFacts DEF WinHolds
  <2>15. QED
    BY <2>4, <2>7, <2>12, <2>13, <2>14 DEF WinInv
<1>5. ASSUME Win!AtClient
      PROVE  iWin \in DOMAIN readArr /\ readArr[iWin] \in Clients /\ pcWin = "scan"
             /\ \A d \in Clients : held[d] = 0
  <2>1. iWin <= Len(readArr) /\ readArr[iWin] # 0 /\ pcWin = "scan"
    BY <1>5 DEF Win!AtClient
  <2>2. QED
    BY <1>0, <2>1, WinFacts DEF WinHolds
<1>6. CASE Win!ReadSome
  <2>1. /\ Win!AtClient /\ ReadData(readArr[iWin]) /\ pcWin' = "write"
        /\ UNCHANGED <<readArr, cpyArr, ready, iWin>>
    BY <1>6, WinNet DEF Win!ReadSome
  <2>2. PICK c \in Clients : c = readArr[iWin]
    BY <1>5, <2>1
  <2>3. ReadUpTo(c, Buf) /\ Buf \in Nat /\ 0 < Buf /\ Buf <= Buf /\ held[c] = 0
    BY <1>5, <2>1, <2>2, NetConstants DEF ReadData
  <2>4. Kept /\ SameBut(c)
    BY <1>0, <2>3, WinFacts, CallKept DEF Calls
  <2>5. held'[c] > 0 /\ UNCHANGED sst
    BY <1>0, <2>3, WinFacts, ReadKeeps
  <2>6. Win!TypeOK' /\ WinSets' /\ WinScan'
    BY <1>0, <1>5, <2>1, <2>2, <2>4, <2>5, WinServes
  <2>7. WinHolds'
    BY <1>0, <1>5, <2>1, <2>2, <2>4, <2>5, WinFacts DEF WinHolds, SameBut, Same
  <2>8. QED
    BY <2>4, <2>6, <2>7 DEF WinInv
<1>7. CASE Win!ReadFails
  <2>1. /\ Win!AtClient /\ (ReadReset(readArr[iWin]) \/ UNCHANGED netVars)
        /\ iWin' = iWin + 1 /\ pcWin' = "scan" /\ UNCHANGED <<readArr, cpyArr, ready>>
    BY <1>7, WinNet DEF Win!ReadFails, Win!NextEntry, Win!netVars, Win!tcp, netVars, tcp
  <2>2. PICK c \in Clients : c = readArr[iWin]
    BY <1>5, <2>1
  <2>3. Kept /\ SameBut(c) /\ UNCHANGED <<sst, held>>
    <3>1. CASE ReadReset(c)
      BY <1>0, <3>1, WinFacts, CallKept, ResetKeeps DEF Calls
    <3>2. CASE UNCHANGED netVars
      BY <1>0, <3>2, WinFacts, Stutter DEF netVars, tcp, SameBut, Same
    <3>3. QED
      BY <2>1, <2>2, <3>1, <3>2
  <2>4. Win!TypeOK' /\ WinSets' /\ WinScan'
    BY <1>0, <1>5, <2>1, <2>2, <2>3, WinServes
  <2>5. WinHolds'
    BY <1>5, <2>1, <2>3 DEF WinHolds
  <2>6. QED
    BY <2>3, <2>4, <2>5 DEF WinInv
<1>8. CASE Win!ReadZero
  BY <1>0, <1>8, ReadZeroKeeps
<1>9. CASE Win!Write
  <2>1. /\ pcWin = "write" /\ (WriteOne(readArr[iWin]) \/ WriteLost(readArr[iWin]))
        /\ IF held'[readArr[iWin]] = 0 THEN iWin' = iWin + 1 /\ pcWin' = "scan"
                                      ELSE UNCHANGED <<pcWin, iWin>>
        /\ UNCHANGED <<readArr, cpyArr, ready>>
    BY <1>9, WinNet DEF Win!Write, Win!NextEntry
  <2>2. PICK c \in Clients : c = readArr[iWin] /\ held[c] > 0 /\ iWin \in DOMAIN readArr
    BY <1>0, <2>1, WinFacts DEF WinHolds
  <2>3. Kept /\ SameBut(c) /\ UNCHANGED sst /\ held'[c] \in Nat
    <3>1. WriteOne(c) \/ WriteLost(c)
      BY <2>1, <2>2
    <3>2. Kept /\ SameBut(c)
      BY <1>0, <2>2, <3>1, WinFacts, CallKept DEF Calls
    <3>3. UNCHANGED sst
      BY <3>1 DEF WriteOne, WriteLost
    <3>4. held'[c] \in Nat
      BY <3>2 DEF Kept, NetInv, TypeNet, NetFunctions
    <3>5. QED
      BY <3>2, <3>3, <3>4
  <2>4. iWin' = iWin + 1 \/ (iWin' = iWin /\ pcWin' = "write")
    BY <2>1
  <2>5. Win!TypeOK' /\ WinSets' /\ WinScan'
    BY <1>0, <2>1, <2>2, <2>3, <2>4, WinServes
  <2>6. \A d \in Clients : held'[d] > 0 => d = c
    BY <1>0, <2>2, <2>3, WinFacts DEF WinHolds, SameBut, Same
  <2>7. WinHolds'
    <3>1. CASE held'[c] = 0
      BY <2>1, <2>2, <2>6, <3>1 DEF WinHolds
    <3>2. CASE held'[c] # 0
      BY <1>0, <2>1, <2>2, <2>3, <2>6, <3>2, WinFacts DEF WinHolds
    <3>3. QED
      BY <3>1, <3>2
  <2>8. QED
    BY <2>3, <2>5, <2>7 DEF WinInv
<1>10. CASE Win!Select
  BY <1>0, <1>10, SelectKeeps
<1>11. QED
  BY <1>0, <1>1, <1>2, <1>3, <1>4, <1>6, <1>7, <1>8, <1>9, <1>10 DEF Win!Step

LEMMA WinClientKeeps ==
  ASSUME IInv, kind = "select_win", NEW c \in Clients, Client(c)
  PROVE  WinInv'
<1>0. ClientStep(c) /\ UNCHANGED <<kind, pcWin, readArr, cpyArr, ready, iWin>>
  BY DEF Client, serverVars, selectWinVars
<1>1. /\ Backlog # {} => Backlog' # {}
      /\ UNCHANGED held
      /\ \A d \in Clients : /\ ~NothingToRead(d) => ~NothingToRead(d)'
                            /\ sst[d] \in {"open", "closed"} => sst'[d] = sst[d]
  BY <1>0, WinFacts, ClientsGive DEF MoreToDo
<1>2. WinSets'
  BY <1>0, <1>1, WinFacts DEF WinSets, InCopy
<1>3. WinScan'
  BY <1>0, <1>1, WinFacts DEF WinScan, InCopy
<1>4. WinHolds'
  BY <1>0, <1>1, WinFacts DEF WinHolds
<1>5. QED
  BY <1>2, <1>3, <1>4 DEF WinInv

-----------------------------------------------------------------------------
(* IOCPEchoServ_win.c *)

LEMMA PortNet ==
  /\ Port!Clients = Clients /\ Port!Backlog = Backlog /\ Port!NextQueued = NextQueued
  /\ \A c : Port!Accept(c) <=> Accept(c)
  /\ \A c : Port!Close(c) <=> Close(c)
  /\ \A c : Port!Unread(c) = Unread(c)
  /\ \A c : Port!Gone(c) <=> Gone(c)
  /\ \A k, n : Port!Units(k, n) = Units(k, n)
  /\ \A m, n : Port!Least(m, n) = Least(m, n)
  BY DEF Port!Clients, Clients, Port!Backlog, Backlog, Port!NextQueued, NextQueued,
     Port!Accept, Accept, Port!Close, Close, Port!Unread, Unread, Port!Windows, Windows,
     Port!Gone, Gone, Port!Least, Least, Port!Units, Units, Port!tcp, tcp

LEMMA PortFacts ==
  ASSUME IInv, kind = "iocp"
  PROVE  /\ NetInv /\ Common /\ Following
         /\ \A c \in Clients : OneReceive(c) /\ OpenServed(c) /\ UpToDate(c)
         /\ queue \in Seq(Completions) /\ ioInfo \in [Port!Workers -> Completions \cup {Port!NoInfo}]
         /\ \A w \in Port!Workers : wpc[w] \notin {"get", "ended"} => ioInfo[w] \in Completions
         /\ Len(queue) \in Nat /\ DOMAIN queue = 1..Len(queue)
         /\ \A k \in DOMAIN queue : queue[k] \in Completions
         /\ rcv \subseteq Clients /\ handles \subseteq Clients /\ snd \in [Clients -> Nat]
         /\ wpc \in [Port!Workers -> {"get", "send", "recv", "close", "free", "ended"}]
<1>1. /\ NetInv /\ Common /\ Following
      /\ \A c \in Clients : OneReceive(c) /\ OpenServed(c) /\ UpToDate(c)
  BY Servers DEF IInv, PortInv
<1>2. /\ queue \in Seq(Completions) /\ ioInfo \in [Port!Workers -> Completions \cup {Port!NoInfo}]
      /\ \A w \in Port!Workers : wpc[w] \notin {"get", "ended"} => ioInfo[w] \in Completions
  BY Servers DEF TypePort
<1>3. /\ Len(queue) \in Nat /\ DOMAIN queue = 1..Len(queue)
      /\ \A k \in DOMAIN queue : queue[k] \in Completions
  BY <1>2, LenProperties, ElementOfSeq
<1>4. /\ rcv \subseteq Clients /\ handles \subseteq Clients /\ snd \in [Clients -> Nat]
      /\ wpc \in [Port!Workers -> {"get", "send", "recv", "close", "free", "ended"}]
  BY Servers, PortNet DEF Port!TypeOK
<1>5. QED
  BY <1>1, <1>2, <1>3, <1>4

PortTyped ==
  /\ queue \in Seq(Completions) /\ ioInfo \in [Port!Workers -> Completions \cup {Port!NoInfo}]
  /\ \A w \in Port!Workers : wpc[w] \notin {"get", "ended"} => ioInfo[w] \in Completions
  /\ rcv \subseteq Clients /\ handles \subseteq Clients /\ snd \in [Clients -> Nat]
  /\ wpc \in [Port!Workers -> {"get", "send", "recv", "close", "free", "ended"}]

LEMMA PortTypes == PortTyped' => TypePort' /\ Port!TypeOK'
<1>1. Port!Clients' = Clients /\ Port!Workers' = Port!Workers
  BY DEF Port!Clients, Clients, Port!Workers
<1>2. QED
  BY <1>1 DEF PortTyped, TypePort, Port!TypeOK

\* The system or a worker puts x behind the queue.
LEMMA Queued ==
  ASSUME queue \in Seq(Completions), NEW x \in Completions, queue' = Append(queue, x)
  PROVE  /\ queue' \in Seq(Completions) /\ DOMAIN queue' = 1..Len(queue) + 1
         /\ DOMAIN queue = 1..Len(queue) /\ Len(queue) \in Nat
         /\ \A k \in DOMAIN queue : k \in DOMAIN queue' /\ queue'[k] = queue[k] /\ k # Len(queue) + 1
         /\ \A k \in DOMAIN queue' : k \in DOMAIN queue \/ k = Len(queue) + 1
         /\ queue'[Len(queue) + 1] = x
<1>1. /\ queue' \in Seq(Completions) /\ Len(queue') = Len(queue) + 1
      /\ \A k \in 1..Len(queue) : queue'[k] = queue[k]
      /\ queue'[Len(queue) + 1] = x
  BY AppendProperties
<1>2. Len(queue) \in Nat /\ DOMAIN queue = 1..Len(queue) /\ DOMAIN queue' = 1..Len(queue) + 1
  BY <1>1, LenProperties
<1>3. QED
  BY <1>1, <1>2

\* A worker takes what is at the front.
LEMMA Dequeued ==
  ASSUME queue \in Seq(Completions), queue # << >>, queue' = Tail(queue)
  PROVE  /\ queue' \in Seq(Completions) /\ Head(queue) = queue[1] /\ 1 \in DOMAIN queue
         /\ Head(queue) \in Completions
         /\ \A k \in DOMAIN queue' : k + 1 \in DOMAIN queue /\ queue'[k] = queue[k + 1] /\ k + 1 # 1
         /\ \A j, k \in DOMAIN queue' : j + 1 = k + 1 => j = k
<1>1. /\ Head(queue) \in Completions /\ queue' \in Seq(Completions) /\ Len(queue') = Len(queue) - 1
      /\ \A k \in 1..Len(queue') : queue'[k] = queue[k + 1]
  BY HeadTailProperties
<1>2. Len(queue) \in Nat /\ DOMAIN queue = 1..Len(queue) /\ DOMAIN queue' = 1..Len(queue')
  BY <1>1, LenProperties
<1>3. Head(queue) = queue[1] /\ Len(queue) # 0
  BY EmptySeq
<1>4. QED
  BY <1>1, <1>2, <1>3

\* What a client's next completion follows depends on that client alone.
LEMMA FollowsOthers ==
  ASSUME NEW c \in Clients, SameBut(c), NEW i \in Completions, i.clnt # c, Follows(i)
  PROVE  Follows(i)'
<1>1. i.clnt \in Clients \ {c}
  BY DEF Completions
<1>2. Same(i.clnt)
  BY <1>1 DEF SameBut
<1>3. QED
  BY <1>2 DEF Follows, Same, Last, Gone

LEMMA FollowsSame ==
  ASSUME UNCHANGED <<taken, out, conn>>, NEW i \in Completions, Follows(i)
  PROVE  Follows(i)'
  BY DEF Follows, Last, Gone

\* Completion by completion.
LEMMA FollowingNow ==
  ASSUME PortTyped',
         \A i \in Completions :
           /\ \A k \in DOMAIN queue' : queue'[k] = i /\ i.rwMode = "READ" => Follows(i)'
           /\ \A w \in Port!Workers : ioInfo'[w] = i =>
                /\ wpc'[w] \in {"send", "close"} => Follows(i)'
                /\ wpc'[w] = "send" => i.bytesTrans > 0
                /\ wpc'[w] = "close" => i.bytesTrans = 0
  PROVE  Following'
<1>1. \A k \in DOMAIN queue' : queue'[k] \in Completions
  BY ElementOfSeq DEF PortTyped
<1>2. \A w \in Port!Workers : wpc'[w] \in {"send", "close"} => ioInfo'[w] \in Completions
  BY DEF PortTyped
<1>3. Port!Workers' = Port!Workers
  BY DEF Port!Workers
<1>4. \A k \in DOMAIN queue' : queue'[k].rwMode = "READ" => Follows(queue[k])'
  BY <1>1 DEF Follows
<1>5. \A w \in Port!Workers :
        /\ wpc'[w] \in {"send", "close"} => Follows(ioInfo[w])'
        /\ wpc'[w] = "send" => ioInfo'[w].bytesTrans > 0
        /\ wpc'[w] = "close" => ioInfo'[w].bytesTrans = 0
  BY <1>2 DEF Follows
<1>6. QED
  BY <1>3, <1>4, <1>5 DEF Following

LEMMA FollowingBefore ==
  ASSUME Following, NEW i \in Completions
  PROVE  /\ \A k \in DOMAIN queue : queue[k] = i /\ i.rwMode = "READ" => Follows(i)
         /\ \A w \in Port!Workers : ioInfo[w] = i =>
              /\ wpc[w] \in {"send", "close"} => Follows(i)
              /\ wpc[w] = "send" => i.bytesTrans > 0
              /\ wpc[w] = "close" => i.bytesTrans = 0
  BY DEF Following

\* A worker takes a completion.
LEMMA GetKeeps ==
  ASSUME IInv, kind = "iocp", alive, UNCHANGED kind, NEW w \in Port!Workers, Port!Get(w)
  PROVE  Kept /\ PortTyped' /\ PortInv'
<1> DEFINE to == IF Head(queue).rwMode = "WRITE" THEN "free"
                 ELSE IF Head(queue).bytesTrans = 0 THEN "close" ELSE "send"
<1>1. /\ wpc[w] = "get" /\ queue # << >> /\ queue' = Tail(queue)
      /\ ioInfo' = [ioInfo EXCEPT ![w] = Head(queue)]
      /\ wpc' = [wpc EXCEPT ![w] = to]
      /\ UNCHANGED <<netVars, rcv, snd, handles>>
  BY DEF Port!Get, Port!Order, Port!AnswerThenReceive, Port!netVars, Port!tcp, netVars, tcp
<1>2. PICK x \in Completions : x = Head(queue)
  BY <1>1, PortFacts, Dequeued
<1>3. /\ queue' \in Seq(Completions) /\ x = queue[1] /\ 1 \in DOMAIN queue
      /\ \A k \in DOMAIN queue' : k + 1 \in DOMAIN queue /\ queue'[k] = queue[k + 1] /\ k + 1 # 1
      /\ \A j, k \in DOMAIN queue' : j + 1 = k + 1 => j = k
  BY <1>1, <1>2, PortFacts, Dequeued
<1>4. /\ ioInfo' = [ioInfo EXCEPT ![w] = x] /\ ioInfo'[w] = x
      /\ wpc'[w] = IF x.rwMode = "WRITE" THEN "free" ELSE IF x.bytesTrans = 0 THEN "close" ELSE "send"
      /\ \A v \in Port!Workers \ {w} : wpc'[v] = wpc[v] /\ ioInfo'[v] = ioInfo[v]
      /\ wpc' \in [Port!Workers -> {"get", "send", "recv", "close", "free", "ended"}]
      /\ ioInfo' \in [Port!Workers -> Completions \cup {Port!NoInfo}]
  <2>1. to = IF x.rwMode = "WRITE" THEN "free" ELSE IF x.bytesTrans = 0 THEN "close" ELSE "send"
    BY <1>2
  <2> HIDE DEF to
  <2>2. to \in {"send", "close", "free"}
    BY <2>1
  <2>3. QED
    BY <1>1, <1>2, <2>1, <2>2, PortFacts
<1>5. x.rwMode \in {"READ", "WRITE"} /\ x.bytesTrans \in Nat
  BY DEF Completions
<1>6. PortTyped'
  BY <1>1, <1>3, <1>4, PortFacts DEF PortTyped
<1>7. Kept /\ UNCHANGED <<sst, held, conn, cut, taken, out>>
  <2>1. Kept
    BY <1>1, PortFacts, Stutter
  <2>2. QED
    BY <1>1, <2>1 DEF netVars, tcp
<1>8. /\ \A c \in Clients : \A k \in DOMAIN queue' : Reads(c, k)' <=> Reads(c, k + 1)
      /\ \A c \in Clients : \A v \in Port!Workers \ {w} : Serves(c, v)' <=> Serves(c, v)
      /\ \A c \in Clients : ~Serves(c, w) /\ (Serves(c, w)' <=> Reads(c, 1))
  BY <1>1, <1>3, <1>4, <1>5 DEF Reads, Serves
<1>w. Port!Workers' = Port!Workers
  BY DEF Port!Workers
<1>9. ASSUME NEW c \in Clients
      PROVE  OneReceive(c)' /\ OpenServed(c)' /\ UpToDate(c)'
  <2>1. OneReceive(c) /\ OpenServed(c) /\ UpToDate(c)
    BY PortFacts
  <2>2. OneReceive(c)'
    BY <1>1, <1>3, <1>8, <1>w, <2>1 DEF OneReceive
  <2>3. OpenServed(c)'
    BY <1>1, <1>3, <1>7, <1>8, <1>w, <2>1 DEF OpenServed
  <2>4. UpToDate(c)'
    BY <1>1, <1>4, <1>7, <1>w, <2>1 DEF UpToDate, Last
  <2>5. QED
    BY <2>2, <2>3, <2>4
<1>10. Following'
  <2>1. ASSUME NEW i \in Completions
        PROVE  /\ \A k \in DOMAIN queue' : queue'[k] = i /\ i.rwMode = "READ" => Follows(i)'
               /\ \A v \in Port!Workers : ioInfo'[v] = i =>
                    /\ wpc'[v] \in {"send", "close"} => Follows(i)'
                    /\ wpc'[v] = "send" => i.bytesTrans > 0
                    /\ wpc'[v] = "close" => i.bytesTrans = 0
    <3>1. Follows(i) => Follows(i)'
      BY <1>7, FollowsSame
    <3>2. /\ \A k \in DOMAIN queue : queue[k] = i /\ i.rwMode = "READ" => Follows(i)
          /\ \A v \in Port!Workers : ioInfo[v] = i =>
               /\ wpc[v] \in {"send", "close"} => Follows(i)
               /\ wpc[v] = "send" => i.bytesTrans > 0
               /\ wpc[v] = "close" => i.bytesTrans = 0
      BY PortFacts, FollowingBefore
    <3>3. \A k \in DOMAIN queue' : queue'[k] = i /\ i.rwMode = "READ" => Follows(i)
      BY <1>3, <3>2
    <3>4. ASSUME NEW v \in Port!Workers, ioInfo'[v] = i
          PROVE  /\ wpc'[v] \in {"send", "close"} => Follows(i)
                 /\ wpc'[v] = "send" => i.bytesTrans > 0
                 /\ wpc'[v] = "close" => i.bytesTrans = 0
      <4>1. CASE v = w
        BY <1>3, <1>4, <1>5, <3>2, <3>4, <4>1
      <4>2. CASE v # w
        BY <1>4, <3>2, <3>4, <4>2
      <4>3. QED
        BY <4>1, <4>2
    <3>5. QED
      BY <3>1, <3>3, <3>4
  <2>2. QED
    BY <1>6, <2>1, FollowingNow
<1>11. QED
  BY <1>6, <1>7, <1>9, <1>10 DEF PortInv

\* The system completes a receive that is in flight.
LEMMA RecvCompletesKeeps ==
  ASSUME IInv, kind = "iocp", alive, UNCHANGED kind, NEW c \in Clients, Port!RecvCompletes(c)
  PROVE  Kept /\ PortTyped' /\ PortInv'
<1> DEFINE t == taken[c]
           n == Least(Buf, Unread(c))
<1>1. /\ c \in rcv
      /\ Unread(c) > 0 \/ Gone(c)
      /\ queue' = Append(queue, Port!Completion(c, "READ", t, n))
      /\ taken' = [taken EXCEPT ![c] = @ + n] /\ rcv' = rcv \ {c}
      /\ UNCHANGED <<alive, sst, conn, sent, held, out, got, cut, snd, wpc, ioInfo, handles>>
  BY PortNet DEF Port!RecvCompletes
<1>a. NetInv /\ Common /\ \A d \in Clients : OneReceive(d) /\ OpenServed(d) /\ UpToDate(d)
  BY PortFacts
<1>b. /\ t \in Nat /\ sent[c] \in Nat /\ t <= sent[c] /\ Last(c) \in Nat /\ Last(c) <= t - held[c]
      /\ Len(out[c]) \in Nat /\ Len(out[c]) + cut[c] + held[c] <= t
      /\ NetBounds(c) /\ Good(c) /\ out[c] \in Seq(Nat)
  BY <1>a, Numbers
<1>2. held[c] = 0 /\ cut[c] = 0 /\ (conn[c] = "open" => Last(c) = t) /\ sst[c] = "open"
  BY <1>1, <1>a DEF UpToDate, OpenServed
<1>3. /\ Len(out[c]) <= t /\ Last(c) <= t
  <2> HIDE DEF t
  <2>1. QED
    BY <1>b, <1>2
<1>4. /\ n \in Nat /\ t + n <= sent[c] /\ (n = 0 => Gone(c))
  <2>1. Unread(c) \in Nat /\ t + Unread(c) <= sent[c]
    BY <1>b DEF Unread
  <2>2. n = IF Buf < Unread(c) THEN Buf ELSE Unread(c)
    BY DEF Least
  <2>3. n \in Nat /\ n <= Unread(c) /\ (n = 0 => Unread(c) = 0)
    <3> HIDE DEF n
    <3>1. QED
      BY <2>1, <2>2, NetConstants
  <2>4. QED
    <3> HIDE DEF n, t
    <3>1. QED
      BY <1>1, <1>b, <2>1, <2>3
<1>5. PICK x \in Completions :
        x = Port!Completion(c, "READ", t, n) /\ x.clnt = c /\ x.rwMode = "READ"
        /\ x.from = t /\ x.bytesTrans = n
  <2> DEFINE r == [clnt |-> c, rwMode |-> "READ", from |-> t, bytesTrans |-> n]
  <2>1. Port!Completion(c, "READ", t, n) = r
    BY DEF Port!Completion
  <2> HIDE DEF t, n
  <2>2. r \in Completions /\ r.clnt = c /\ r.rwMode = "READ" /\ r.from = t /\ r.bytesTrans = n
    BY <1>b, <1>4 DEF Completions
  <2>3. QED
    BY <2>1, <2>2
<1>6. taken'[c] = t + n /\ taken' \in [Clients -> Nat]
      /\ \A d \in Clients \ {c} : taken'[d] = taken[d]
  <2>1. taken \in [Clients -> Nat] /\ t \in Nat /\ n \in Nat /\ t = taken[c]
    BY <1>a, <1>b, <1>4, Typed
  <2>2. taken' = [taken EXCEPT ![c] = t + n]
    BY <1>1
  <2> HIDE DEF t, n
  <2>3. QED
    BY <2>1, <2>2
<1> HIDE DEF t, n
<1>7. SameBut(c)
  BY <1>1, <1>6 DEF SameBut, Same
<1>8. NetInv'
  <2>1. NetFunctions'
    BY <1>1, <1>6, <1>a DEF NetInv, TypeNet, NetFunctions
  <2>2. t <= t + n /\ cut[c] <= t + n /\ 0 <= Least(Buf, t + n)
        /\ \A k \in DOMAIN out[c] : out[c][k] \in 1..t + n
    <3>1. cut[c] <= t /\ \A k \in DOMAIN out[c] : out[c][k] \in 1..t
      BY <1>b DEF NetBounds, t
    <3>2. cut[c] = 0
      BY <1>2
    <3>3. 0 <= Least(Buf, t + n)
      BY <1>b, <1>4, NetConstants DEF Least
    <3>4. 1..t \subseteq 1..t + n
      BY <1>b, <1>4
    <3>5. QED
      BY <1>b, <1>4, <3>1, <3>2, <3>3, <3>4
  <2>3. NetBounds(c)'
    BY <1>1, <1>2, <1>4, <1>6, <1>b, <2>2 DEF NetBounds
  <2>4. Len(out[c]) <= t + n /\ Last(c) <= t + n
    BY <1>b, <1>3, <1>4
  <2>5. Good(c)'
    <3>1. Last(c)' = Last(c) /\ Room(c)' = Room(c)
      BY <1>1 DEF Last, Room
    <3>2. Len(out'[c]) + cut'[c] + held'[c] <= t + n /\ Last(c) <= t + n - held'[c]
      <4>1. held'[c] = 0 /\ cut'[c] = 0 /\ out'[c] = out[c]
        BY <1>1, <1>2
      <4>2. Len(out[c]) + 0 + 0 <= t + n /\ Last(c) <= t + n - 0
        BY <1>b, <1>4, <2>4
      <4>3. QED
        BY <4>1, <4>2
    <3>3. /\ conn[c] = "none" <=> sst[c] = "none"
          /\ conn[c] = "none" => sent[c] = 0
          /\ conn[c] \in {"reset", "dead"} => got[c] < sent[c]
          /\ kind # "iocp" => Room(c) >= 0
      BY <1>b DEF Good
    <3>4. UNCHANGED <<conn, sst, sent, got, kind>>
      BY <1>1
    <3>5. /\ conn'[c] = "none" <=> sst'[c] = "none"
          /\ conn'[c] = "none" => sent'[c] = 0
          /\ conn'[c] \in {"reset", "dead"} => got'[c] < sent'[c]
          /\ kind' # "iocp" => Room(c)' >= 0
      BY <3>1, <3>3, <3>4
    <3>6. Len(out'[c]) + cut'[c] + held'[c] <= taken'[c] /\ Last(c)' <= taken'[c] - held'[c]
      <4>1. Len(out'[c]) + cut'[c] + held'[c] <= taken'[c]
        BY <1>6, <3>2
      <4>2. Last(c)' <= taken'[c] - held'[c]
        <5>1. Last(c) <= taken'[c] - held'[c]
          <6>1. held'[c] = 0 /\ Last(c) <= t + n /\ Last(c) \in Nat /\ t + n \in Nat
            BY <1>1, <1>2, <1>4, <1>b, <2>4
          <6>2. QED
            BY <1>6, <6>1
        <5>2. Last(c)' = Last(c)
          BY <3>1
        <5>3. QED
          BY <5>1, <5>2
      <4>3. QED
        BY <4>1, <4>2
    <3>7. QED
      BY <3>5, <3>6 DEF Good
  <2>6. QED
    BY <1>7, <1>a, <2>1, <2>3, <2>5, OneClient
<1>9. Kept
  <2>1. Common'
    <3>1. Gone(c)' <=> Gone(c)
      BY <1>1 DEF Gone
    <3>2. QED
      BY <1>1, <1>2, <1>7, <1>a, <3>1, CommonKept
  <2>2. EchoNext
    BY <1>1 DEF EchoNext, NonBlocking
  <2>3. QED
    BY <1>8, <2>1, <2>2 DEF Kept
<1>10. /\ queue' \in Seq(Completions) /\ DOMAIN queue' = 1..Len(queue) + 1
       /\ \A k \in DOMAIN queue : k \in DOMAIN queue' /\ queue'[k] = queue[k] /\ k # Len(queue) + 1
       /\ \A k \in DOMAIN queue' : k \in DOMAIN queue \/ k = Len(queue) + 1
       /\ queue'[Len(queue) + 1] = x
  BY <1>1, <1>5, PortFacts, Queued
<1>11. PortTyped'
  BY <1>1, <1>10, PortFacts DEF PortTyped
<1>12. PICK m \in DOMAIN queue' : m = Len(queue) + 1 /\ m \notin DOMAIN queue
  BY <1>10, PortFacts
<1>13. /\ \A d \in Clients : \A k \in DOMAIN queue : Reads(d, k)' <=> Reads(d, k)
       /\ \A d \in Clients : Reads(d, m)' <=> d = c
       /\ \A d \in Clients : \A v \in Port!Workers : Serves(d, v)' <=> Serves(d, v)
  BY <1>1, <1>5, <1>10, <1>12 DEF Reads, Serves
<1>w. Port!Workers' = Port!Workers
  BY DEF Port!Workers
<1>14. ASSUME NEW d \in Clients
       PROVE  OneReceive(d)' /\ OpenServed(d)' /\ UpToDate(d)'
  <2>1. OneReceive(d) /\ OpenServed(d) /\ UpToDate(d)
    BY <1>a
  <2>2. OneReceive(d)'
    <3>1. CASE d = c
      BY <1>1, <1>10, <1>12, <1>13, <1>w, <2>1, <3>1 DEF OneReceive
    <3>2. CASE d # c
      BY <1>1, <1>10, <1>12, <1>13, <1>w, <2>1, <3>2 DEF OneReceive
    <3>3. QED
      BY <3>1, <3>2
  <2>3. OpenServed(d)'
    BY <1>1, <1>10, <1>12, <1>13, <1>w, <2>1 DEF OpenServed
  <2>4. UpToDate(d)'
    <3>1. CASE d = c
      <4>1. \A v \in Port!Workers : ~(wpc[v] = "recv" /\ ioInfo[v].clnt = c)
        BY <1>1, <2>1, <3>1 DEF OneReceive, Serves
      <4>2. QED
        BY <1>1, <1>2, <1>w, <3>1, <4>1 DEF UpToDate
    <3>2. CASE d # c
      BY <1>1, <1>6, <1>w, <2>1, <3>2 DEF UpToDate, Last
    <3>3. QED
      BY <3>1, <3>2
  <2>5. QED
    BY <2>2, <2>3, <2>4
<1>15. Following'
  <2>1. Follows(x)'
    BY <1>1, <1>2, <1>3, <1>4, <1>5, <1>6 DEF Follows, Last, Gone
  <2>2. ASSUME NEW i \in Completions
        PROVE  /\ \A k \in DOMAIN queue' : queue'[k] = i /\ i.rwMode = "READ" => Follows(i)'
               /\ \A v \in Port!Workers : ioInfo'[v] = i =>
                    /\ wpc'[v] \in {"send", "close"} => Follows(i)'
                    /\ wpc'[v] = "send" => i.bytesTrans > 0
                    /\ wpc'[v] = "close" => i.bytesTrans = 0
    <3>1. Follows(i) /\ i.clnt # c => Follows(i)'
      BY <1>7, FollowsOthers
    <3>2. /\ \A k \in DOMAIN queue : queue[k] = i /\ i.rwMode = "READ" => Follows(i)
          /\ \A v \in Port!Workers : ioInfo[v] = i =>
               /\ wpc[v] \in {"send", "close"} => Follows(i)
               /\ wpc[v] = "send" => i.bytesTrans > 0
               /\ wpc[v] = "close" => i.bytesTrans = 0
      BY PortFacts, FollowingBefore
    <3>3. OneReceive(c) /\ c \in rcv
      BY <1>1, <1>a
    <3>4. \A k \in DOMAIN queue : queue[k] = i /\ i.rwMode = "READ" => i.clnt # c
      BY <3>3 DEF OneReceive, Reads
    <3>5. \A v \in Port!Workers : ioInfo[v] = i /\ wpc[v] \in {"send", "close"} => i.clnt # c
      BY <3>3 DEF OneReceive, Serves
    <3>6. ASSUME NEW k \in DOMAIN queue', queue'[k] = i, i.rwMode = "READ"
          PROVE  Follows(i)'
      <4>1. CASE k \in DOMAIN queue
        BY <1>10, <3>1, <3>2, <3>4, <3>6, <4>1
      <4>2. CASE k \notin DOMAIN queue
        <5>1. i = x
          BY <1>10, <3>6, <4>2
        <5>2. QED
          BY <2>1, <5>1
      <4>3. QED
        BY <4>1, <4>2
    <3>7. QED
      BY <1>1, <3>1, <3>2, <3>5, <3>6
  <2>3. QED
    BY <1>11, <2>2, FollowingNow
<1>16. QED
  BY <1>9, <1>11, <1>14, <1>15 DEF PortInv

\* Nothing new is to be written or closed.
LEMMA FollowingKept ==
  ASSUME Following, PortTyped',
         \A k \in DOMAIN queue' : queue'[k].rwMode = "READ" => k \in DOMAIN queue /\ queue'[k] = queue[k],
         \A w \in Port!Workers :
           wpc'[w] \in {"send", "close"} => wpc'[w] = wpc[w] /\ ioInfo'[w] = ioInfo[w],
         \A i \in Completions : Follows(i) /\ ~Follows(i)' =>
           /\ \A k \in DOMAIN queue : queue[k] = i => i.rwMode # "READ"
           /\ \A w \in Port!Workers : ioInfo[w] = i => wpc'[w] \notin {"send", "close"}
  PROVE  Following'
<1>1. ASSUME NEW i \in Completions
      PROVE  /\ \A k \in DOMAIN queue' : queue'[k] = i /\ i.rwMode = "READ" => Follows(i)'
             /\ \A v \in Port!Workers : ioInfo'[v] = i =>
                  /\ wpc'[v] \in {"send", "close"} => Follows(i)'
                  /\ wpc'[v] = "send" => i.bytesTrans > 0
                  /\ wpc'[v] = "close" => i.bytesTrans = 0
  <2>1. /\ \A k \in DOMAIN queue : queue[k] = i /\ i.rwMode = "READ" => Follows(i)
        /\ \A v \in Port!Workers : ioInfo[v] = i =>
             /\ wpc[v] \in {"send", "close"} => Follows(i)
             /\ wpc[v] = "send" => i.bytesTrans > 0
             /\ wpc[v] = "close" => i.bytesTrans = 0
    BY FollowingBefore
  <2>2. Follows(i) /\ ~Follows(i)' =>
           /\ \A k \in DOMAIN queue : queue[k] = i => i.rwMode # "READ"
           /\ \A w \in Port!Workers : ioInfo[w] = i => wpc'[w] \notin {"send", "close"}
    OBVIOUS
  <2>3. ASSUME NEW k \in DOMAIN queue', queue'[k] = i, i.rwMode = "READ"
        PROVE  Follows(i)'
    BY <2>1, <2>2, <2>3
  <2>4. ASSUME NEW v \in Port!Workers, ioInfo'[v] = i, wpc'[v] \in {"send", "close"}
        PROVE  Follows(i)' /\ (wpc'[v] = "send" => i.bytesTrans > 0) /\ (wpc'[v] = "close" => i.bytesTrans = 0)
    <3>1. wpc[v] = wpc'[v] /\ ioInfo[v] = i
      BY <2>4
    <3>2. QED
      BY <2>1, <2>2, <2>4, <3>1
  <2>5. QED
    BY <2>3, <2>4
<1>2. QED
  BY <1>1, FollowingNow

\* A send completes: what comes into the queue is nobody's receive.
LEMMA SendCompletesKeeps ==
  ASSUME IInv, kind = "iocp", alive, UNCHANGED kind, NEW c \in Clients, Port!SendCompletes(c)
  PROVE  Kept /\ PortTyped' /\ PortInv'
<1>1. /\ snd[c] > 0 /\ snd' = [snd EXCEPT ![c] = @ - 1]
      /\ queue' = Append(queue, Port!Completion(c, "WRITE", 0, 0))
      /\ UNCHANGED <<netVars, rcv, wpc, ioInfo, handles>>
  BY DEF Port!SendCompletes, Port!netVars, Port!tcp, netVars, tcp
<1>2. Port!Completion(c, "WRITE", 0, 0) \in Completions
      /\ Port!Completion(c, "WRITE", 0, 0).rwMode = "WRITE"
  BY DEF Port!Completion, Completions
<1>3. PICK x \in Completions : queue' = Append(queue, x) /\ x.rwMode = "WRITE"
  BY <1>1, <1>2
<1>4. /\ queue' \in Seq(Completions)
      /\ \A k \in DOMAIN queue : k \in DOMAIN queue' /\ queue'[k] = queue[k]
      /\ \A k \in DOMAIN queue' : k \in DOMAIN queue \/ k = Len(queue) + 1
      /\ queue'[Len(queue) + 1] = x
  BY <1>3, PortFacts, Queued
<1>5. snd' \in [Clients -> Nat]
  <2>1. snd[c] \in Nat
    BY PortFacts
  <2>2. snd[c] - 1 \in Nat
    BY <1>1, <2>1
  <2>3. QED
    BY <1>1, <2>2, PortFacts
<1>6. PortTyped'
  BY <1>1, <1>4, <1>5, PortFacts DEF PortTyped
<1>7. Kept /\ UNCHANGED <<sst, held, conn, cut, taken, out>>
  <2>1. Kept
    BY <1>1, PortFacts, Stutter
  <2>2. QED
    BY <1>1, <2>1 DEF netVars, tcp
<1>w. Port!Workers' = Port!Workers
  BY DEF Port!Workers
<1>8. /\ \A d \in Clients : \A k \in DOMAIN queue : Reads(d, k)' <=> Reads(d, k)
      /\ \A d \in Clients : \A k \in DOMAIN queue' : Reads(d, k)' => k \in DOMAIN queue
      /\ \A d \in Clients : \A v \in Port!Workers : Serves(d, v)' <=> Serves(d, v)
  BY <1>1, <1>3, <1>4 DEF Reads, Serves
<1>9. ASSUME NEW d \in Clients
      PROVE  OneReceive(d)' /\ OpenServed(d)' /\ UpToDate(d)'
  <2>1. OneReceive(d) /\ OpenServed(d) /\ UpToDate(d)
    BY PortFacts
  <2>2. OneReceive(d)'
    BY <1>1, <1>8, <1>w, <2>1 DEF OneReceive
  <2>3. OpenServed(d)'
    BY <1>1, <1>7, <1>8, <1>w, <2>1 DEF OpenServed
  <2>4. UpToDate(d)'
    BY <1>1, <1>7, <1>w, <2>1 DEF UpToDate, Last
  <2>5. QED
    BY <2>2, <2>3, <2>4
<1>10. Following'
  <2>1. \A k \in DOMAIN queue' : queue'[k].rwMode = "READ" => k \in DOMAIN queue /\ queue'[k] = queue[k]
    BY <1>3, <1>4
  <2>2. \A i \in Completions : Follows(i) => Follows(i)'
    BY <1>7, FollowsSame
  <2>3. \A w \in Port!Workers :
           wpc'[w] \in {"send", "close"} => wpc'[w] = wpc[w] /\ ioInfo'[w] = ioInfo[w]
    BY <1>1
  <2>4. Following
    BY PortFacts
  <2>5. QED
    BY <1>6, <2>1, <2>2, <2>3, <2>4, FollowingKept
<1>11. QED
  BY <1>6, <1>7, <1>9, <1>10 DEF PortInv

\* What is left of a worker that goes on or lets go.
LEMMA Going ==
  ASSUME IInv, kind = "iocp", NEW w \in Port!Workers, wpc[w] \in {"send", "recv", "close", "free"},
         NEW to \in {"get", "recv", "ended"}, Port!Goes(w, to), UNCHANGED queue,
         rcv' \subseteq Clients, handles' \subseteq Clients, snd' \in [Clients -> Nat]
  PROVE  /\ PortTyped' /\ Port!Workers' = Port!Workers /\ wpc'[w] = to
         /\ \A v \in Port!Workers \ {w} : wpc'[v] = wpc[v] /\ ioInfo'[v] = ioInfo[v]
         /\ to = "recv" => UNCHANGED ioInfo
         /\ \A d \in Clients : \A k \in DOMAIN queue : Reads(d, k)' <=> Reads(d, k)
         /\ \A d \in Clients : \A v \in Port!Workers \ {w} : Serves(d, v)' <=> Serves(d, v)
         /\ \A d \in Clients : Serves(d, w)' => to = "recv" /\ ioInfo[w].clnt = d
<1>1. Port!Workers' = Port!Workers
  BY DEF Port!Workers
<1>2. ioInfo[w] \in Completions
  BY PortFacts
<1>3. /\ wpc' = [wpc EXCEPT ![w] = to]
      /\ ioInfo' = IF to \in {"get", "ended"} THEN [ioInfo EXCEPT ![w] = Port!NoInfo] ELSE ioInfo
  BY DEF Port!Goes
<1>4. /\ wpc'[w] = to /\ wpc' \in [Port!Workers -> {"get", "send", "recv", "close", "free", "ended"}]
      /\ \A v \in Port!Workers \ {w} : wpc'[v] = wpc[v] /\ ioInfo'[v] = ioInfo[v]
      /\ ioInfo' \in [Port!Workers -> Completions \cup {Port!NoInfo}]
      /\ to = "recv" => UNCHANGED ioInfo
  BY <1>3, PortFacts
<1>5. PortTyped'
  BY <1>1, <1>2, <1>4, PortFacts DEF PortTyped
<1>6. QED
  BY <1>1, <1>4, <1>5 DEF Reads, Serves

\* A block is freed, and the worker ends.
LEMMA FreeBlockKeeps ==
  ASSUME IInv, kind = "iocp", alive, UNCHANGED kind, NEW w \in Port!Workers, Port!FreeBlock(w)
  PROVE  Kept /\ PortTyped' /\ PortInv'
<1>1. wpc[w] = "free" /\ Port!Goes(w, "ended") /\ UNCHANGED <<netVars, queue, rcv, snd, handles>>
  BY DEF Port!FreeBlock, Port!netVars, Port!tcp, netVars, tcp
<1>2. /\ PortTyped' /\ Port!Workers' = Port!Workers /\ wpc'[w] = "ended"
      /\ \A v \in Port!Workers \ {w} : wpc'[v] = wpc[v] /\ ioInfo'[v] = ioInfo[v]
      /\ \A d \in Clients : \A k \in DOMAIN queue : Reads(d, k)' <=> Reads(d, k)
      /\ \A d \in Clients : \A v \in Port!Workers \ {w} : Serves(d, v)' <=> Serves(d, v)
      /\ \A d \in Clients : ~Serves(d, w)'
  BY <1>1, Going, PortFacts
<1>3. Kept /\ UNCHANGED <<sst, held, conn, cut, taken, out>>
  <2>1. Kept
    BY <1>1, PortFacts, Stutter
  <2>2. QED
    BY <1>1, <2>1 DEF netVars, tcp
<1>4. ASSUME NEW d \in Clients
      PROVE  OneReceive(d)' /\ OpenServed(d)' /\ UpToDate(d)'
  <2>1. OneReceive(d) /\ OpenServed(d) /\ UpToDate(d)
    BY PortFacts
  <2>2. OneReceive(d)'
    BY <1>1, <1>2, <2>1 DEF OneReceive
  <2>3. OpenServed(d)'
    BY <1>1, <1>2, <1>3, <2>1 DEF OpenServed
  <2>4. UpToDate(d)'
    BY <1>1, <1>2, <1>3, <2>1 DEF UpToDate, Last
  <2>5. QED
    BY <2>2, <2>3, <2>4
<1>5. Following'
  <2>1. \A i \in Completions : Follows(i) => Follows(i)'
    BY <1>3, FollowsSame
  <2>2. Following
    BY PortFacts
  <2>3. \A v \in Port!Workers :
           wpc'[v] \in {"send", "close"} => wpc'[v] = wpc[v] /\ ioInfo'[v] = ioInfo[v]
    BY <1>2
  <2>4. QED
    BY <1>1, <1>2, <2>1, <2>2, <2>3, FollowingKept
<1>6. QED
  BY <1>2, <1>3, <1>4, <1>5 DEF PortInv

\* The worker that has answered starts the client's next receive.
LEMMA ReceiveNextKeeps ==
  ASSUME IInv, kind = "iocp", alive, UNCHANGED kind, NEW w \in Port!Workers, Port!ReceiveNext(w)
  PROVE  Kept /\ PortTyped' /\ PortInv'
<1>0. wpc[w] = "recv" /\ ioInfo[w].clnt \in Clients
  BY PortFacts DEF Port!ReceiveNext, Completions
<1>1. PICK c \in Clients : c = ioInfo[w].clnt
  BY <1>0
<1>2. /\ rcv' \subseteq rcv \cup {c} /\ rcv \subseteq rcv' /\ Port!Goes(w, "ended")
      /\ UNCHANGED <<netVars, queue, snd, handles>>
  BY <1>1 DEF Port!ReceiveNext, Port!Order, Port!AnswerThenReceive, Port!netVars, Port!tcp, netVars, tcp
<1>3. /\ PortTyped' /\ Port!Workers' = Port!Workers /\ wpc'[w] = "ended"
      /\ \A v \in Port!Workers \ {w} : wpc'[v] = wpc[v] /\ ioInfo'[v] = ioInfo[v]
      /\ \A d \in Clients : \A k \in DOMAIN queue : Reads(d, k)' <=> Reads(d, k)
      /\ \A d \in Clients : \A v \in Port!Workers \ {w} : Serves(d, v)' <=> Serves(d, v)
      /\ \A d \in Clients : ~Serves(d, w)'
  BY <1>0, <1>2, Going, PortFacts
<1>4. Kept /\ UNCHANGED <<sst, held, conn, cut, taken, out>>
  <2>1. Kept
    BY <1>2, PortFacts, Stutter
  <2>2. QED
    BY <1>2, <2>1 DEF netVars, tcp
<1>5. Serves(c, w)
  BY <1>0, <1>1 DEF Serves
<1>6. ASSUME NEW d \in Clients
      PROVE  OneReceive(d)' /\ OpenServed(d)' /\ UpToDate(d)'
  <2>1. OneReceive(d) /\ OpenServed(d) /\ UpToDate(d)
    BY PortFacts
  <2>2. d # c => (d \in rcv' <=> d \in rcv)
    BY <1>2
  <2>3. OneReceive(d)'
    <3>1. CASE d = c
      <4>1. /\ \A k \in DOMAIN queue : ~Reads(d, k)'
            /\ \A v \in Port!Workers : ~Serves(d, v)'
        BY <1>3, <1>5, <2>1, <3>1 DEF OneReceive
      <4>2. QED
        BY <1>2, <1>3, <4>1 DEF OneReceive
    <3>2. CASE d # c
      BY <1>2, <1>3, <2>1, <2>2, <3>2 DEF OneReceive
    <3>3. QED
      BY <3>1, <3>2
  <2>4. OpenServed(d)'
    <3>1. CASE d = c
      BY <1>2, <1>4, <1>5, <2>1, <3>1 DEF OpenServed
    <3>2. CASE d # c
      BY <1>2, <1>3, <1>4, <2>1, <2>2, <3>2 DEF OpenServed
    <3>3. QED
      BY <3>1, <3>2
  <2>5. UpToDate(d)'
    <3>1. CASE d = c
      <4>1. held[c] = 0 /\ cut[c] = 0 /\ (conn[c] = "open" => Last(c) = taken[c])
        BY <1>0, <1>1, <2>1, <3>1 DEF UpToDate
      <4>2. QED
        BY <1>4, <3>1, <4>1 DEF UpToDate, Last
    <3>2. CASE d # c
      BY <1>2, <1>3, <1>4, <2>1, <2>2, <3>2 DEF UpToDate, Last
    <3>3. QED
      BY <3>1, <3>2
  <2>6. QED
    BY <2>3, <2>4, <2>5
<1>7. Following'
  <2>1. \A i \in Completions : Follows(i) => Follows(i)'
    BY <1>4, FollowsSame
  <2>2. Following
    BY PortFacts
  <2>3. \A v \in Port!Workers :
           wpc'[v] \in {"send", "close"} => wpc'[v] = wpc[v] /\ ioInfo'[v] = ioInfo[v]
    BY <1>3
  <2>4. QED
    BY <1>2, <1>3, <2>1, <2>2, <2>3, FollowingKept
<1>8. QED
  BY <1>3, <1>4, <1>6, <1>7 DEF PortInv

\* The end of file of a client that has gone: nobody else has that client.
LEMMA CloseClientKeeps ==
  ASSUME IInv, kind = "iocp", alive, UNCHANGED kind, NEW w \in Port!Workers, Port!CloseClient(w)
  PROVE  Kept /\ PortTyped' /\ PortInv'
<1>0. wpc[w] = "close" /\ ioInfo[w] \in Completions
  BY PortFacts DEF Port!CloseClient
<1>1. PICK c \in Clients : c = ioInfo[w].clnt
  BY <1>0 DEF Completions
<1>2. /\ Close(c) /\ handles' = handles \ {c} /\ Port!Goes(w, "get")
      /\ UNCHANGED <<queue, rcv, snd>>
  BY <1>1, PortNet DEF Port!CloseClient
<1>a. NetInv /\ Common /\ \A d \in Clients : OneReceive(d) /\ OpenServed(d) /\ UpToDate(d)
  BY PortFacts
<1>3. Serves(c, w) /\ Gone(c) /\ sst[c] = "open"
  <2>1. Serves(c, w)
    BY <1>0, <1>1 DEF Serves
  <2>2. sst[c] = "open"
    BY <1>a, <2>1 DEF OpenServed
  <2>3. Follows(ioInfo[w]) /\ ioInfo[w].bytesTrans = 0
    BY <1>0, PortFacts DEF Following
  <2>4. QED
    BY <1>1, <2>1, <2>2, <2>3 DEF Follows
<1>4. /\ NetInv' /\ SameBut(c) /\ sst'[c] = "closed"
      /\ UNCHANGED <<alive, conn, sent, taken, held, out, got, cut>>
  <2>1. sst' = [sst EXCEPT ![c] = "closed"] /\ UNCHANGED <<alive, tcp>>
    BY <1>2 DEF Close
  <2>2. NetInv' /\ SameBut(c)
    BY <1>3, <1>a, <2>1, SocketKeeps
  <2>3. QED
    BY <1>a, <2>1, <2>2, Typed DEF tcp
<1>5. Kept
  <2>1. Gone(c)'
    BY <1>3, <1>4 DEF Gone
  <2>2. Common'
    BY <1>4, <1>a, <2>1, CommonKept
  <2>3. EchoNext
    BY <1>4 DEF EchoNext, NonBlocking
  <2>4. QED
    BY <1>4, <2>2, <2>3 DEF Kept
<1>6. /\ PortTyped' /\ Port!Workers' = Port!Workers /\ wpc'[w] = "get"
      /\ \A v \in Port!Workers \ {w} : wpc'[v] = wpc[v] /\ ioInfo'[v] = ioInfo[v]
      /\ \A d \in Clients : \A k \in DOMAIN queue : Reads(d, k)' <=> Reads(d, k)
      /\ \A d \in Clients : \A v \in Port!Workers \ {w} : Serves(d, v)' <=> Serves(d, v)
      /\ \A d \in Clients : ~Serves(d, w)'
  <2>1. rcv' \subseteq Clients /\ handles' \subseteq Clients /\ snd' \in [Clients -> Nat]
    BY <1>2, PortFacts
  <2>2. QED
    BY <1>0, <1>2, <2>1, Going
<1>7. ASSUME NEW d \in Clients
      PROVE  OneReceive(d)' /\ OpenServed(d)' /\ UpToDate(d)'
  <2>1. OneReceive(d) /\ OpenServed(d) /\ UpToDate(d)
    BY <1>a
  <2>2. OneReceive(d)'
    BY <1>2, <1>6, <2>1 DEF OneReceive
  <2>3. OpenServed(d)'
    <3>1. CASE d = c
      <4>1. /\ d \notin rcv /\ \A k \in DOMAIN queue : ~Reads(d, k)'
            /\ \A v \in Port!Workers : ~Serves(d, v)'
        BY <1>3, <1>6, <2>1, <3>1 DEF OneReceive
      <4>2. QED
        BY <1>2, <1>6, <4>1 DEF OpenServed
    <3>2. CASE d # c
      <4>1. sst'[d] = sst[d]
        BY <1>4, <3>2 DEF SameBut, Same
      <4>2. QED
        BY <1>2, <1>6, <2>1, <3>2, <4>1 DEF OpenServed
    <3>3. QED
      BY <3>1, <3>2
  <2>4. UpToDate(d)'
    <3>1. sst'[d] = "queued" => sst[d] = "queued"
      BY <1>4 DEF SameBut, Same
    <3>2. QED
      BY <1>2, <1>4, <1>6, <2>1, <3>1 DEF UpToDate, Last
  <2>5. QED
    BY <2>2, <2>3, <2>4
<1>8. Following'
  <2>1. \A i \in Completions : Follows(i) => Follows(i)'
    BY <1>4, FollowsSame
  <2>2. Following
    BY PortFacts
  <2>3. \A v \in Port!Workers :
           wpc'[v] \in {"send", "close"} => wpc'[v] = wpc[v] /\ ioInfo'[v] = ioInfo[v]
    BY <1>6
  <2>4. QED
    BY <1>2, <1>6, <2>1, <2>2, <2>3, FollowingKept
<1>9. QED
  BY <1>5, <1>6, <1>7, <1>8 DEF PortInv

\* main accepts a client nothing is in flight for.
LEMMA PortMainKeeps ==
  ASSUME IInv, PortMain
  PROVE  Kept /\ TypePort' /\ Port!TypeOK' /\ PortInv'
<1>0. kind = "iocp" /\ alive /\ UNCHANGED kind /\ Port!AcceptOne
  BY DEF PortMain, OthersThanPort
<1>1. NextQueued \in Clients
  BY <1>0, PortNet DEF Port!AcceptOne, Accept, Backlog
<1>2. PICK c \in Clients : c = NextQueued
  BY <1>1
<1>3. /\ Accept(c) /\ handles' = handles \cup {c} /\ rcv' = rcv \cup {c}
      /\ UNCHANGED <<queue, snd, wpc, ioInfo>>
  BY <1>0, <1>2, PortNet DEF Port!AcceptOne
<1>a. NetInv /\ Common /\ \A d \in Clients : OneReceive(d) /\ OpenServed(d) /\ UpToDate(d)
  BY <1>0, PortFacts
<1>4. /\ NetInv' /\ SameBut(c) /\ sst[c] = "queued" /\ sst'[c] = "open"
      /\ UNCHANGED <<alive, conn, sent, taken, held, out, got, cut>>
  <2>1. sst' = [sst EXCEPT ![c] = "open"] /\ UNCHANGED <<alive, tcp>> /\ sst[c] = "queued"
    BY <1>3 DEF Accept, Backlog
  <2>2. NetInv' /\ SameBut(c)
    BY <1>0, <1>a, <2>1, SocketKeeps
  <2>3. QED
    BY <1>a, <2>1, <2>2, Typed DEF tcp
<1>5. Kept
  <2>1. Common'
    BY <1>0, <1>4, <1>a, CommonKept
  <2>2. EchoNext
    BY <1>0, <1>4 DEF EchoNext, NonBlocking
  <2>3. QED
    BY <1>4, <2>1, <2>2 DEF Kept
<1>w. Port!Workers' = Port!Workers
  BY DEF Port!Workers
<1>6. PortTyped'
  BY <1>0, <1>3, PortFacts DEF PortTyped
<1>7. /\ \A d \in Clients : \A k \in DOMAIN queue : Reads(d, k)' <=> Reads(d, k)
      /\ \A d \in Clients : \A v \in Port!Workers : Serves(d, v)' <=> Serves(d, v)
  BY <1>3 DEF Reads, Serves
<1>8. ASSUME NEW d \in Clients
      PROVE  OneReceive(d)' /\ OpenServed(d)' /\ UpToDate(d)'
  <2>1. OneReceive(d) /\ OpenServed(d) /\ UpToDate(d)
    BY <1>a
  <2>2. CASE d = c
    <3>1. /\ d \notin rcv /\ \A k \in DOMAIN queue : ~Reads(d, k)
          /\ \A v \in Port!Workers : ~Serves(d, v)
      BY <1>4, <2>1, <2>2 DEF OpenServed
    <3>2. OneReceive(d)'
      BY <1>3, <1>7, <1>w, <3>1 DEF OneReceive
    <3>3. OpenServed(d)'
      BY <1>3, <1>4, <2>2 DEF OpenServed
    <3>4. UpToDate(d)'
      BY <1>4, <2>1, <2>2 DEF UpToDate, Last
    <3>5. QED
      BY <3>2, <3>3, <3>4
  <2>3. CASE d # c
    <3>1. (d \in rcv' <=> d \in rcv) /\ (d \in handles' <=> d \in handles) /\ sst'[d] = sst[d]
      BY <1>3, <1>4, <2>3 DEF SameBut, Same
    <3>2. OneReceive(d)'
      BY <1>3, <1>7, <1>w, <2>1, <3>1 DEF OneReceive
    <3>3. OpenServed(d)'
      BY <1>3, <1>7, <1>w, <2>1, <3>1 DEF OpenServed
    <3>4. UpToDate(d)'
      BY <1>3, <1>4, <1>w, <2>1, <3>1 DEF UpToDate, Last
    <3>5. QED
      BY <3>2, <3>3, <3>4
  <2>4. QED
    BY <2>2, <2>3
<1>9. Following'
  <2>1. \A i \in Completions : Follows(i) => Follows(i)'
    BY <1>4, FollowsSame
  <2>2. Following
    BY <1>0, PortFacts
  <2>3. QED
    BY <1>3, <1>6, <2>1, <2>2, FollowingKept
<1>10. QED
  BY <1>5, <1>6, <1>8, <1>9, PortTypes DEF PortInv

\* WSASend of what the receive has brought: it follows all that was written, or
\* the connection is gone and a client that closed may answer with a reset.
LEMMA SendBackNet ==
  ASSUME NetInv, Common, alive, UNCHANGED kind, kind = "iocp", NEW c \in Clients,
         NEW k \in Nat, NEW n \in Nat, n > 0, k + n = taken[c], Len(out[c]) <= k, Last(c) <= k,
         conn[c] = "open" => Last(c) = k, held[c] = 0, cut[c] = 0, sst[c] = "open",
         IF conn[c] = "open" THEN out' = [out EXCEPT ![c] = @ \o Units(k, n)] ELSE UNCHANGED out,
         conn' \in IF conn[c] = "fin" THEN {conn, [conn EXCEPT ![c] = "reset"]} ELSE {conn},
         UNCHANGED <<alive, sst, sent, taken, held, got, cut>>
  PROVE  /\ Kept /\ SameBut(c) /\ (conn'[c] = "open" => Last(c)' = taken[c])
<1>a. /\ taken[c] \in Nat /\ sent[c] \in Nat /\ taken[c] <= sent[c] /\ NetBounds(c) /\ Good(c)
      /\ Len(out[c]) \in Nat /\ got[c] \in Nat /\ got[c] <= Len(out[c]) /\ Last(c) \in Nat
  BY Numbers
<1>b. /\ conn \in [Clients -> {"none", "open", "fin", "reset", "dead"}]
      /\ taken \in [Clients -> Nat] /\ held \in [Clients -> Nat] /\ cut \in [Clients -> Nat]
  BY Typed
<1>1. CASE conn[c] = "open"
  <2>1. UNCHANGED conn /\ out' = [out EXCEPT ![c] = @ \o Units(k, n)] /\ Last(c) = k
    BY <1>1
  <2>2. Puts(c, k, n)
    BY <1>b, <2>1 DEF Puts
  <2>3. MayPut(c, k, n)
    <3>1. /\ taken[c] <= sent[c] /\ 0 <= Buf /\ k <= k /\ k + n <= taken[c] - 0
          /\ k <= taken[c] - 0 /\ Len(out[c]) + n + 0 + 0 <= taken[c]
      <4> DEFINE t == taken[c]
                 L == Len(out[c])
      <4>1. t \in Nat /\ L \in Nat /\ k + n = t /\ L <= k /\ t <= sent[c] /\ sent[c] \in Nat
        BY <1>a
      <4> HIDE DEF t, L
      <4>2. t <= sent[c] /\ 0 <= Buf /\ k <= k /\ k + n <= t - 0 /\ k <= t - 0 /\ L + n + 0 + 0 <= t
        BY <4>1, NetConstants
      <4>3. QED
        BY <4>2 DEF t, L
    <3>2. taken'[c] = taken[c] /\ held'[c] = 0 /\ cut'[c] = 0 /\ taken[c] <= taken[c]
      BY <1>a
    <3>3. QED
      BY <2>1, <3>1, <3>2 DEF MayPut
  <2>4. NetInv' /\ SameBut(c) /\ Last(c)' = k + n
    BY <2>2, <2>3, WriteKeeps
  <2>5. Common'
    <3>1. Gone(c)' <=> Gone(c)
      BY <2>1 DEF Gone
    <3>2. QED
      BY <2>4, <3>1, CommonKept
  <2>6. EchoNext
    BY <1>a, <2>1, EchoStep
  <2>7. QED
    BY <2>4, <2>5, <2>6 DEF Kept
<1>2. CASE conn[c] # "open"
  <2>1. UNCHANGED out /\ \/ UNCHANGED conn
                         \/ conn[c] = "fin" /\ conn' = [conn EXCEPT ![c] = "reset"]
    BY <1>2
  <2>2. Last(c)' = Last(c) /\ Room(c)' = Room(c)
    BY <2>1 DEF Last, Room
  <2>3. SameBut(c)
    BY <1>b, <2>1 DEF SameBut, Same
  <2>4. NetFunctions'
    BY <2>1 DEF NetInv, TypeNet, NetFunctions
  <2>5. NetBounds(c)'
    BY <1>a, <2>1 DEF NetBounds
  <2>6. /\ conn'[c] \in {conn[c], "reset"} /\ conn'[c] \notin {"none", "open"}
    BY <1>2, <1>a, <1>b, <2>1 DEF Good
  <2>7. Good(c)'
    <3>1. got[c] < sent[c]
      <4> DEFINE t == taken[c]
                 L == Len(out[c])
                 g == got[c]
      <4>1. /\ t \in Nat /\ L \in Nat /\ g \in Nat /\ k + n = t /\ L <= k /\ g <= L
            /\ t <= sent[c] /\ sent[c] \in Nat
        BY <1>a
      <4> HIDE DEF t, L, g
      <4>2. g < sent[c]
        BY <4>1
      <4>3. QED
        BY <4>2 DEF g
    <3>2. /\ Len(out[c]) + cut[c] + held[c] <= taken[c] /\ Last(c) <= taken[c] - held[c]
      BY <1>a DEF Good
    <3>3. /\ Len(out'[c]) + cut'[c] + held'[c] <= taken'[c] /\ Last(c)' <= taken'[c] - held'[c]
      BY <2>1, <2>2, <3>2
    <3>4. sst'[c] = "open" /\ got'[c] < sent'[c]
      BY <3>1
    <3>5. QED
      BY <2>6, <3>3, <3>4 DEF Good
  <2>8. NetInv'
    BY <2>3, <2>4, <2>5, <2>7, OneClient
  <2>9. Common'
    BY <2>3, <2>6, CommonKept
  <2>10. EchoNext
    BY <2>1 DEF EchoNext, NonBlocking
  <2>11. QED
    BY <2>3, <2>6, <2>8, <2>9, <2>10 DEF Kept
<1>3. QED
  BY <1>1, <1>2

LEMMA SendBackKeeps ==
  ASSUME IInv, kind = "iocp", alive, UNCHANGED kind, NEW w \in Port!Workers, Port!SendBack(w)
  PROVE  Kept /\ PortTyped' /\ PortInv'
<1>0. wpc[w] = "send" /\ ioInfo[w] \in Completions
  BY PortFacts DEF Port!SendBack
<1>1. PICK x \in Completions : x = ioInfo[w]
  BY <1>0
<1>2. PICK c \in Clients : c = x.clnt
  BY DEF Completions
<1>3. PICK k \in Nat : k = x.from
  BY DEF Completions
<1>4. PICK n \in Nat : n = x.bytesTrans
  BY DEF Completions
<1>a. /\ NetInv /\ Common /\ Following
      /\ \A d \in Clients : OneReceive(d) /\ OpenServed(d) /\ UpToDate(d)
  BY PortFacts
<1>5. /\ IF conn[c] = "open" THEN out' = [out EXCEPT ![c] = @ \o Units(k, n)] ELSE UNCHANGED out
      /\ IF conn[c] = "reset" THEN UNCHANGED snd ELSE snd' = [snd EXCEPT ![c] = @ + 1]
      /\ conn' \in IF conn[c] = "fin" THEN {conn, [conn EXCEPT ![c] = "reset"]} ELSE {conn}
      /\ Port!Goes(w, "recv")
      /\ UNCHANGED <<alive, sst, sent, taken, held, got, cut, queue, rcv, handles>>
  BY <1>1, <1>2, <1>3, <1>4, PortNet DEF Port!SendBack, Port!Order, Port!AnswerThenReceive
<1>6. Serves(c, w)
  BY <1>0, <1>1, <1>2 DEF Serves
<1>7. Follows(x) /\ n > 0
  BY <1>0, <1>1, <1>4, <1>a, FollowingBefore
<1>8. /\ k + n = taken[c] /\ Len(out[c]) <= k /\ Last(c) <= k /\ (conn[c] = "open" => Last(c) = k)
  BY <1>2, <1>3, <1>4, <1>7 DEF Follows
<1>9. held[c] = 0 /\ cut[c] = 0 /\ sst[c] = "open"
  BY <1>6, <1>a DEF UpToDate, OpenServed
<1>10. Kept /\ SameBut(c) /\ (conn'[c] = "open" => Last(c)' = taken[c])
  BY <1>5, <1>7, <1>8, <1>9, <1>a, SendBackNet
<1>11. /\ PortTyped' /\ Port!Workers' = Port!Workers /\ wpc'[w] = "recv" /\ UNCHANGED ioInfo
       /\ \A v \in Port!Workers \ {w} : wpc'[v] = wpc[v] /\ ioInfo'[v] = ioInfo[v]
       /\ \A d \in Clients : \A m \in DOMAIN queue : Reads(d, m)' <=> Reads(d, m)
       /\ \A d \in Clients : \A v \in Port!Workers \ {w} : Serves(d, v)' <=> Serves(d, v)
       /\ \A d \in Clients : Serves(d, w)' => ioInfo[w].clnt = d
  <2>1. rcv' \subseteq Clients /\ handles' \subseteq Clients /\ snd' \in [Clients -> Nat]
    BY <1>5, PortFacts
  <2>2. QED
    BY <1>0, <1>5, <2>1, Going
<1>12. \A d \in Clients : \A v \in Port!Workers : Serves(d, v)' => Serves(d, v)
  BY <1>0, <1>11 DEF Serves
<1>13. ASSUME NEW d \in Clients
       PROVE  OneReceive(d)' /\ OpenServed(d)' /\ UpToDate(d)'
  <2>1. OneReceive(d) /\ OpenServed(d) /\ UpToDate(d)
    BY <1>a
  <2>2. OneReceive(d)'
    BY <1>5, <1>11, <1>12, <2>1 DEF OneReceive
  <2>3. OpenServed(d)'
    BY <1>5, <1>11, <1>12, <2>1 DEF OpenServed
  <2>4. UpToDate(d)'
    <3>1. CASE d = c
      BY <1>5, <1>10, <2>1, <3>1 DEF UpToDate
    <3>2. CASE d # c
      <4>1. Same(d)
        BY <1>10, <3>2 DEF SameBut
      <4>2. \A v \in Port!Workers : wpc'[v] = "recv" /\ ioInfo'[v].clnt = d =>
                                      wpc[v] = "recv" /\ ioInfo[v].clnt = d
        BY <1>1, <1>2, <1>11, <3>2
      <4>3. QED
        BY <1>5, <1>11, <2>1, <4>1, <4>2 DEF UpToDate, Same, Last
    <3>3. QED
      BY <3>1, <3>2
  <2>5. QED
    BY <2>2, <2>3, <2>4
<1>14. Following'
  <2>1. ASSUME NEW i \in Completions, Follows(i), ~Follows(i)'
        PROVE  /\ \A m \in DOMAIN queue : queue[m] = i => i.rwMode # "READ"
               /\ \A v \in Port!Workers : ioInfo[v] = i => wpc'[v] \notin {"send", "close"}
    <3>1. i.clnt = c
      BY <1>10, <2>1, FollowsOthers
    <3>2. /\ \A m \in DOMAIN queue : ~Reads(c, m)
          /\ \A v \in Port!Workers \ {w} : ~Serves(c, v)
      BY <1>6, <1>a DEF OneReceive
    <3>3. QED
      BY <1>11, <3>1, <3>2 DEF Reads, Serves
  <2>2. \A v \in Port!Workers :
           wpc'[v] \in {"send", "close"} => wpc'[v] = wpc[v] /\ ioInfo'[v] = ioInfo[v]
    BY <1>11
  <2>3. \A m \in DOMAIN queue' : queue'[m].rwMode = "READ" => m \in DOMAIN queue /\ queue'[m] = queue[m]
    BY <1>5
  <2>4. QED
    BY <1>11, <1>a, <2>1, <2>2, <2>3, FollowingKept
<1>15. QED
  BY <1>10, <1>11, <1>13, <1>14 DEF PortInv

LEMMA PortWorkerKeeps ==
  ASSUME IInv, NEW w \in Port!Workers, PortWorker(w)
  PROVE  Kept /\ TypePort' /\ Port!TypeOK' /\ PortInv'
<1>1. kind = "iocp" /\ alive /\ UNCHANGED kind /\ Port!Worker(w)
  BY DEF PortWorker, OthersThanPort
<1>2. Kept /\ PortTyped' /\ PortInv'
  BY <1>1, GetKeeps, CloseClientKeeps, SendBackKeeps, ReceiveNextKeeps, FreeBlockKeeps DEF Port!Worker
<1>3. QED
  BY <1>2, PortTypes

LEMMA PortSystemKeeps ==
  ASSUME IInv, NEW c \in Clients, PortSystem(c)
  PROVE  Kept /\ TypePort' /\ Port!TypeOK' /\ PortInv'
<1>1. kind = "iocp" /\ alive /\ UNCHANGED kind /\ Port!System(c)
  BY DEF PortSystem, OthersThanPort
<1>2. Kept /\ PortTyped' /\ PortInv'
  BY <1>1, RecvCompletesKeeps, SendCompletesKeeps DEF Port!System
<1>3. QED
  BY <1>2, PortTypes

LEMMA PortClientKeeps ==
  ASSUME IInv, kind = "iocp", NEW c \in Clients, Client(c)
  PROVE  PortInv'
<1>1. alive /\ ClientStep(c) /\ UNCHANGED <<kind, queue, rcv, snd, wpc, ioInfo, handles>>
  BY DEF Client, serverVars, portVars
<1>a. /\ NetInv /\ Common /\ Following
      /\ \A d \in Clients : OneReceive(d) /\ OpenServed(d) /\ UpToDate(d)
  BY PortFacts
<1>2. /\ UNCHANGED <<held, taken, out>> /\ SameBut(c)
      /\ \A d \in Clients : /\ Gone(d) => Gone(d)'
                            /\ sst[d] # "none" => sst'[d] = sst[d] /\ (conn'[d] = "open" => conn[d] = "open")
  BY <1>1, <1>a, ClientsGive DEF MoreToDo
<1>3. UNCHANGED cut
  BY <1>1 DEF ClientStep, Connect, Send, Receive, Leave
<1>4. \A d \in Clients : sst[d] = "none" /\ sst'[d] # "none" => d = c /\ Connect(c)
  BY <1>1, <1>2, <1>a, Typed DEF ClientStep, Send, Receive, Leave, SameBut, Same
<1>w. Port!Workers' = Port!Workers
  BY DEF Port!Workers
<1>5. /\ \A d \in Clients : \A k \in DOMAIN queue : Reads(d, k)' <=> Reads(d, k)
      /\ \A d \in Clients : \A v \in Port!Workers : Serves(d, v)' <=> Serves(d, v)
  BY <1>1 DEF Reads, Serves
<1>6. ASSUME NEW d \in Clients
      PROVE  OneReceive(d)' /\ OpenServed(d)' /\ UpToDate(d)'
  <2>1. OneReceive(d) /\ OpenServed(d) /\ UpToDate(d)
    BY <1>a
  <2>2. OneReceive(d)'
    BY <1>1, <1>5, <1>w, <2>1 DEF OneReceive
  <2>3. OpenServed(d)'
    BY <1>1, <1>2, <1>5, <1>w, <2>1 DEF OpenServed
  <2>4. UpToDate(d)'
    <3>1. CASE sst[d] # "none"
      BY <1>1, <1>2, <1>3, <1>w, <2>1, <3>1 DEF UpToDate, Last
    <3>2. CASE sst[d] = "none" /\ sst'[d] # "none"
      <4>1. Last(c)' = 0 /\ taken'[c] = 0 /\ d = c
        BY <1>1, <1>4, <1>a, <3>2, ConnectKeeps
      <4>2. QED
        BY <1>2, <1>3, <2>1, <4>1 DEF UpToDate
    <3>3. CASE sst[d] = "none" /\ sst'[d] = "none"
      <4>1. d \notin rcv /\ \A v \in Port!Workers : ~Serves(d, v)
        BY <2>1, <3>3 DEF OpenServed
      <4>2. QED
        BY <1>1, <1>2, <1>3, <1>w, <2>1, <3>3, <4>1 DEF UpToDate, Serves
    <3>4. QED
      BY <3>1, <3>2, <3>3
  <2>5. QED
    BY <2>2, <2>3, <2>4
<1>7. Following'
  <2>1. PortTyped'
    BY <1>1, <1>w, PortFacts DEF PortTyped
  <2>2. ASSUME NEW i \in Completions, Follows(i), ~Follows(i)'
        PROVE  /\ \A k \in DOMAIN queue : queue[k] = i => i.rwMode # "READ"
               /\ \A v \in Port!Workers : ioInfo[v] = i => wpc'[v] \notin {"send", "close"}
    <3>1. PICK d \in Clients : d = i.clnt
      BY DEF Completions
    <3>2. sst[d] = "none"
      BY <1>2, <2>2, <3>1 DEF Follows, Last
    <3>3. (\A k \in DOMAIN queue : ~Reads(d, k)) /\ \A v \in Port!Workers : ~Serves(d, v)
      BY <1>a, <3>2 DEF OpenServed
    <3>4. QED
      BY <1>1, <3>1, <3>3 DEF Reads, Serves
  <2>3. QED
    BY <1>1, <1>a, <2>1, <2>2, FollowingKept
<1>8. QED
  BY <1>6, <1>7 DEF PortInv

-----------------------------------------------------------------------------
(* All seven together. *)

\* A server that is not running does not change.
LEMMA Stays ==
  ASSUME IInv
  PROVE  /\ UNCHANGED selectVars => Sel!TypeOK'
         /\ UNCHANGED selectWinVars => Win!TypeOK'
         /\ UNCHANGED levelVars => Lev!TypeOK'
         /\ UNCHANGED edgeVars => Edge!TypeOK'
         /\ UNCHANGED eventVars => Evt!TypeOK' /\ ArraysAgree'
         /\ UNCHANGED completionVars => Cmp!TypeOK'
         /\ UNCHANGED portVars => Port!TypeOK' /\ TypePort'
         /\ UNCHANGED <<kind, portVars>> => NoneServing'
<1>1. UNCHANGED selectVars => Sel!TypeOK'
  BY Servers DEF selectVars, Sel!TypeOK, Sel!Fds, Sel!Clients
<1>2. UNCHANGED selectWinVars => Win!TypeOK'
  BY Servers DEF selectWinVars, Win!TypeOK, Win!Clients
<1>3. UNCHANGED levelVars => Lev!TypeOK'
  BY Servers DEF levelVars, Lev!TypeOK, Lev!Clients
<1>4. UNCHANGED edgeVars => Edge!TypeOK'
  BY Servers DEF edgeVars, Edge!TypeOK, Edge!Clients
<1>5. UNCHANGED eventVars => Evt!TypeOK' /\ ArraysAgree'
  BY Servers DEF eventVars, Evt!TypeOK, Evt!Clients, ArraysAgree, Evt!ArraysAgree
<1>6. UNCHANGED completionVars => Cmp!TypeOK'
  BY Servers DEF completionVars, Cmp!TypeOK, Cmp!Clients
<1>7. ASSUME UNCHANGED portVars
      PROVE  Port!TypeOK' /\ TypePort' /\ (UNCHANGED kind => NoneServing')
  <2>1. UNCHANGED <<queue, rcv, snd, wpc, ioInfo, handles>>
    BY <1>7 DEF portVars
  <2>2. Port!Workers' = Port!Workers /\ Port!Clients' = Port!Clients
    BY DEF Port!Workers, Port!Clients
  <2>3. Port!TypeOK'
    BY <2>1, <2>2, Servers DEF Port!TypeOK
  <2>4. TypePort'
    BY <2>1, <2>2, Servers DEF TypePort
  <2>5. UNCHANGED kind => NoneServing'
    BY <2>1, <2>2 DEF IInv, NoneServing
  <2>6. QED
    BY <2>3, <2>4, <2>5
<1>8. QED
  BY <1>1, <1>2, <1>3, <1>4, <1>5, <1>6, <1>7

\* What says something of one server only.
AllServers == SelInv /\ WinInv /\ LevInv /\ EdgeInv /\ EvtInv /\ CmpInv /\ PortInv

LEMMA Together ==
  ASSUME IInv, Kept, UNCHANGED kind, AllServers', NoneServing',
         Sel!TypeOK', Win!TypeOK', Lev!TypeOK', Edge!TypeOK', Evt!TypeOK', ArraysAgree',
         Cmp!TypeOK', Port!TypeOK', TypePort'
  PROVE  IInv' /\ EchoNext
<1>1. NetInv' /\ Common' /\ EchoNext
  BY DEF Kept
<1>2. TypeOK'
  BY <1>1 DEF TypeOK, NetInv
<1>3. kind' \in Kinds
  BY DEF IInv
<1>4. QED
  BY <1>1, <1>2, <1>3 DEF IInv, AllServers

LEMMA SelectStepKeeps ==
  ASSUME IInv, SelectStep
  PROVE  IInv' /\ EchoNext
<1>1. /\ kind' = "select" /\ UNCHANGED kind
      /\ UNCHANGED selectWinVars /\ UNCHANGED levelVars /\ UNCHANGED edgeVars
      /\ UNCHANGED eventVars /\ UNCHANGED completionVars /\ UNCHANGED portVars
  BY DEF SelectStep
<1>2. Kept /\ Sel!TypeOK' /\ SelInv'
  BY SelStepKeeps
<1>3. AllServers'
  BY <1>1, <1>2 DEF AllServers, WinInv, LevInv, EdgeInv, EvtInv, CmpInv, PortInv
<1>4. QED
  BY <1>1, <1>2, <1>3, Stays, Together

LEMMA SelectWinStepKeeps ==
  ASSUME IInv, SelectWinStep
  PROVE  IInv' /\ EchoNext
<1>1. /\ kind' = "select_win" /\ UNCHANGED kind
      /\ UNCHANGED selectVars /\ UNCHANGED levelVars /\ UNCHANGED edgeVars
      /\ UNCHANGED eventVars /\ UNCHANGED completionVars /\ UNCHANGED portVars
  BY DEF SelectWinStep
<1>2. Kept /\ Win!TypeOK' /\ WinInv'
  BY WinStepKeeps
<1>3. AllServers'
  BY <1>1, <1>2 DEF AllServers, SelInv, LevInv, EdgeInv, EvtInv, CmpInv, PortInv
<1>4. QED
  BY <1>1, <1>2, <1>3, Stays, Together

LEMMA LevelStepKeeps ==
  ASSUME IInv, LevelStep
  PROVE  IInv' /\ EchoNext
<1>1. /\ kind' = "epoll" /\ UNCHANGED kind
      /\ UNCHANGED selectVars /\ UNCHANGED selectWinVars /\ UNCHANGED edgeVars
      /\ UNCHANGED eventVars /\ UNCHANGED completionVars /\ UNCHANGED portVars
  BY DEF LevelStep
<1>2. Kept /\ Lev!TypeOK' /\ LevInv'
  BY LevStepKeeps
<1>3. AllServers'
  BY <1>1, <1>2 DEF AllServers, SelInv, WinInv, EdgeInv, EvtInv, CmpInv, PortInv
<1>4. QED
  BY <1>1, <1>2, <1>3, Stays, Together

LEMMA EdgeServerKeeps ==
  ASSUME IInv, EdgeStep
  PROVE  IInv' /\ EchoNext
<1>1. /\ kind' = "edge" /\ UNCHANGED kind
      /\ UNCHANGED selectVars /\ UNCHANGED selectWinVars /\ UNCHANGED levelVars
      /\ UNCHANGED eventVars /\ UNCHANGED completionVars /\ UNCHANGED portVars
  BY DEF EdgeStep
<1>2. Kept /\ Edge!TypeOK' /\ EdgeInv'
  BY EdgeStepKeeps
<1>3. AllServers'
  BY <1>1, <1>2 DEF AllServers, SelInv, WinInv, LevInv, EvtInv, CmpInv, PortInv
<1>4. QED
  BY <1>1, <1>2, <1>3, Stays, Together

LEMMA EventStepKeeps ==
  ASSUME IInv, EventStep
  PROVE  IInv' /\ EchoNext
<1>1. /\ kind' = "async" /\ UNCHANGED kind
      /\ UNCHANGED selectVars /\ UNCHANGED selectWinVars /\ UNCHANGED levelVars
      /\ UNCHANGED edgeVars /\ UNCHANGED completionVars /\ UNCHANGED portVars
  BY DEF EventStep
<1>2. Kept /\ Evt!TypeOK' /\ EvtInv' /\ ArraysAgree'
  BY EvtStepKeeps DEF ArraysAgree
<1>3. AllServers'
  BY <1>1, <1>2 DEF AllServers, SelInv, WinInv, LevInv, EdgeInv, CmpInv, PortInv
<1>4. QED
  BY <1>1, <1>2, <1>3, Stays, Together

LEMMA CompletionStepKeeps ==
  ASSUME IInv, CompletionMain \/ \E c \in Clients : CompletionOf(c)
  PROVE  IInv' /\ EchoNext
<1>1. /\ kind' = "cmplrou" /\ UNCHANGED kind
      /\ UNCHANGED selectVars /\ UNCHANGED selectWinVars /\ UNCHANGED levelVars
      /\ UNCHANGED edgeVars /\ UNCHANGED eventVars /\ UNCHANGED portVars
  BY DEF CompletionMain, CompletionOf, OthersThanCompletion
<1>2. Kept /\ Cmp!TypeOK' /\ CmpInv'
  BY CmpMainKeeps, CmpOfKeeps
<1>3. AllServers'
  BY <1>1, <1>2 DEF AllServers, SelInv, WinInv, LevInv, EdgeInv, EvtInv, PortInv
<1>4. QED
  BY <1>1, <1>2, <1>3, Stays, Together

LEMMA PortStepKeeps ==
  ASSUME IInv,
         PortMain \/ (\E c \in Clients : PortSystem(c)) \/ \E w \in Port!Workers : PortWorker(w)
  PROVE  IInv' /\ EchoNext
<1>1. /\ kind' = "iocp" /\ UNCHANGED kind
      /\ UNCHANGED selectVars /\ UNCHANGED selectWinVars /\ UNCHANGED levelVars
      /\ UNCHANGED edgeVars /\ UNCHANGED eventVars /\ UNCHANGED completionVars
  BY DEF PortMain, PortSystem, PortWorker, OthersThanPort
<1>2. Kept /\ TypePort' /\ Port!TypeOK' /\ PortInv'
  BY PortMainKeeps, PortSystemKeeps, PortWorkerKeeps
<1>3. AllServers' /\ NoneServing'
  BY <1>1, <1>2 DEF AllServers, SelInv, WinInv, LevInv, EdgeInv, EvtInv, CmpInv, NoneServing
<1>4. QED
  BY <1>1, <1>2, <1>3, Stays, Together

LEMMA ClientStepKeeps ==
  ASSUME IInv, NEW c \in Clients, Client(c)
  PROVE  IInv' /\ EchoNext
<1>1. /\ alive /\ ClientStep(c) /\ UNCHANGED kind
      /\ UNCHANGED selectVars /\ UNCHANGED selectWinVars /\ UNCHANGED levelVars
      /\ UNCHANGED edgeVars /\ UNCHANGED eventVars /\ UNCHANGED completionVars /\ UNCHANGED portVars
  BY DEF Client, serverVars
<1>2. Kept
  BY <1>1, Servers, ClientKept
<1>3. SelInv'
  BY <1>1, SelClientKeeps DEF SelInv
<1>4. WinInv'
  BY <1>1, WinClientKeeps DEF WinInv
<1>5. LevInv'
  BY <1>1, LevClientKeeps DEF LevInv
<1>6. EdgeInv'
  BY <1>1, EdgeClientKeeps DEF EdgeInv
<1>7. EvtInv'
  BY <1>1, EvtClientKeeps DEF EvtInv
<1>8. CmpInv'
  BY <1>1, CmpClientKeeps DEF CmpInv
<1>9. PortInv'
  BY <1>1, PortClientKeeps DEF PortInv
<1>10. AllServers'
  BY <1>3, <1>4, <1>5, <1>6, <1>7, <1>8, <1>9 DEF AllServers
<1>11. QED
  BY <1>1, <1>2, <1>10, Stays, Together

\* Nothing changes.
LEMMA NothingKeeps ==
  ASSUME IInv, UNCHANGED vars
  PROVE  IInv' /\ EchoNext
<1>1. /\ UNCHANGED kind /\ UNCHANGED netVars
      /\ UNCHANGED selectVars /\ UNCHANGED selectWinVars /\ UNCHANGED levelVars
      /\ UNCHANGED edgeVars /\ UNCHANGED eventVars /\ UNCHANGED completionVars /\ UNCHANGED portVars
  BY DEF vars, serverVars
<1>2. /\ Kept /\ UNCHANGED <<sst, held, conn>> /\ Backlog' = Backlog
      /\ \A d : (Readable(d)' <=> Readable(d)) /\ (NothingToRead(d)' <=> NothingToRead(d))
  BY <1>1, Servers, Stutter
<1>3. SelInv'
  BY <1>1, <1>2 DEF IInv, SelInv, SelTable, SelScan, SelHolds, Sel!Fds, selectVars
<1>4. WinInv'
  BY <1>1, <1>2 DEF IInv, WinInv, WinSets, WinScan, WinHolds, InCopy, selectWinVars
<1>5. LevInv'
  BY <1>1, <1>2 DEF IInv, LevInv, LevEvents, LevHolds, levelVars
<1>6. EdgeInv'
  BY <1>1, <1>2 DEF IInv, EdgeInv, EdgeHolds, edgeVars
<1>7. EvtInv'
  BY <1>1, <1>2 DEF IInv, EvtInv, EvtSockets, eventVars
<1>8. CmpInv'
  <2>1. CmpInv
    BY DEF IInv
  <2>2. UNCHANGED <<op, len, failed, blocks>>
    BY <1>1 DEF completionVars
  <2>3. QED
    BY <1>1, <1>2, <2>1, <2>2 DEF CmpInv, CmpClient, Gone
<1>9. PortInv'
  <2>1. UNCHANGED <<queue, rcv, snd, wpc, ioInfo, handles>> /\ UNCHANGED <<taken, out, cut>>
    BY <1>1 DEF portVars, netVars, tcp
  <2>2. PortInv
    BY DEF IInv
  <2>3. ASSUME kind = "iocp"
        PROVE  Following' /\ \A c \in Clients : OneReceive(c)' /\ OpenServed(c)' /\ UpToDate(c)'
    <3>1. Following /\ \A c \in Clients : OneReceive(c) /\ OpenServed(c) /\ UpToDate(c)
      BY <2>2, <2>3 DEF PortInv
    <3>2. Port!Workers' = Port!Workers
      BY DEF Port!Workers
    <3>3. Following'
      BY <1>2, <2>1, <3>1, <3>2 DEF Following, Follows, Last, Gone
    <3>4. ASSUME NEW c \in Clients
          PROVE  OneReceive(c)' /\ OpenServed(c)' /\ UpToDate(c)'
      <4>1. OneReceive(c) /\ OpenServed(c) /\ UpToDate(c)
        BY <3>1
      <4>2. OneReceive(c)'
        BY <2>1, <3>2, <4>1 DEF OneReceive, Reads, Serves
      <4>3. OpenServed(c)'
        BY <1>2, <2>1, <3>2, <4>1 DEF OpenServed, Reads, Serves
      <4>4. UpToDate(c)'
        BY <1>2, <2>1, <3>2, <4>1 DEF UpToDate, Last
      <4>5. QED
        BY <4>2, <4>3, <4>4
    <3>5. QED
      BY <3>3, <3>4
  <2>4. QED
    BY <1>1, <2>3 DEF PortInv
<1>10. AllServers'
  BY <1>3, <1>4, <1>5, <1>6, <1>7, <1>8, <1>9 DEF AllServers
<1>11. QED
  BY <1>1, <1>2, <1>10, Stays, Together

LEMMA StepInv == IInv /\ [Next]_vars => IInv' /\ EchoNext
<1> SUFFICES ASSUME IInv, [Next]_vars PROVE IInv' /\ EchoNext
  OBVIOUS
<1>1. CASE MainLoop
  BY <1>1, SelectStepKeeps, SelectWinStepKeeps, LevelStepKeeps, EdgeServerKeeps, EventStepKeeps,
     CompletionStepKeeps, PortStepKeeps DEF MainLoop
<1>2. CASE \E c \in Clients : InFlight(c) \/ Client(c)
  BY <1>2, CompletionStepKeeps, PortStepKeeps, ClientStepKeeps DEF InFlight
<1>3. CASE \E w \in Port!Workers : PortWorker(w)
  BY <1>3, PortStepKeeps
<1>4. CASE UNCHANGED vars
  BY <1>4, NothingKeeps
<1>5. QED
  BY <1>1, <1>2, <1>3, <1>4 DEF Next

LEMMA InitInv == Init => IInv
<1> SUFFICES ASSUME Init PROVE IInv
  OBVIOUS
<1>0. /\ kind \in Kinds /\ NetInit
      /\ Sel!Init /\ Win!Init /\ Lev!Init /\ Edge!Init /\ Evt!Init /\ Cmp!Init /\ Port!Init
  BY DEF Init
<1>1. NetInv
  BY <1>0, NetStarts
<1>2. /\ 0 \notin Clients /\ Clients \subseteq Nat /\ Len(MaxUnits) \in Nat /\ Buf \in Nat
      /\ Clients = 1..Len(MaxUnits)
  BY NetConstants, EchoNetAssumption, LenProperties DEF Clients
<1>3. /\ alive = TRUE
      /\ \A c \in Clients : /\ conn[c] = "none" /\ sst[c] = "none" /\ taken[c] = 0 /\ held[c] = 0
                            /\ out[c] = << >> /\ cut[c] = 0 /\ Last(c) = 0
  BY <1>0 DEF NetInit, Last
<1>4. Common
  BY <1>3 DEF Common, Straight, ClosesOnlyTheGone, PoliteClientsAreSafe
<1>s. Sel!TypeOK /\ SelInv
  <2>1. /\ pcSel = "select" /\ fdtab = [f \in Sel!Fds |-> 0] /\ reads = {0} /\ cpy_reads = {}
        /\ fd_max = 0 /\ iSel = 0
    BY <1>0 DEF Sel!Init, Sel!serv_sock, Sel!Nobody
  <2>2. Sel!Fds = 0..Len(MaxUnits)
    BY DEF Sel!Fds
  <2>3. Sel!TypeOK
    BY <1>2, <2>1, <2>2 DEF Sel!TypeOK, Sel!Nobody
  <2>4. SelTable /\ SelScan /\ SelHolds
    BY <1>3, <2>1, <2>2 DEF SelTable, SelScan, SelHolds
  <2>5. QED
    BY <2>3, <2>4 DEF SelInv
<1>w. Win!TypeOK /\ WinInv
  <2>1. /\ pcWin = "select" /\ readArr = <<0>> /\ cpyArr = << >> /\ ready = 0 /\ iWin = 1
    BY <1>0 DEF Win!Init, Win!hServSock
  <2>2. /\ readArr \in Seq(Clients \cup {0}) /\ DOMAIN readArr = {1} /\ readArr[1] = 0
        /\ cpyArr \in Seq(Clients \cup {0}) /\ DOMAIN cpyArr = {} /\ Len(cpyArr) = 0
    BY <2>1
  <2>3. Win!TypeOK
    BY <1>2, <2>1, <2>2, WinNet DEF Win!TypeOK, Win!hServSock
  <2>4. \A j : ~InCopy(j)
    BY <2>1 DEF InCopy
  <2>5. WinSets /\ WinScan /\ WinHolds
    BY <1>3, <2>1, <2>2, <2>4 DEF WinSets, WinScan, WinHolds, Distinct
  <2>6. QED
    BY <2>3, <2>5 DEF WinInv
<1>l. Lev!TypeOK /\ LevInv
  <2>1. pcLev = "wait" /\ epLev = {0} /\ evLev = {} /\ curLev = 0
    BY <1>0 DEF Lev!Init, Lev!serv_sock
  <2>2. Lev!TypeOK
    BY <2>1, LevNet DEF Lev!TypeOK, Lev!serv_sock
  <2>3. LevEvents /\ LevHolds
    BY <1>3, <2>1 DEF LevEvents, LevHolds
  <2>4. QED
    BY <2>2, <2>3 DEF LevInv
<1>d. Edge!TypeOK /\ EdgeInv
  <2>1. /\ pcEdge = "wait" /\ epEdge = {0} /\ evEdge = {} /\ curEdge = 0
        /\ told = [c \in Clients |-> <<0, FALSE>>]
    BY <1>0, EdgeNet DEF Edge!Init, Edge!serv_sock
  <2>2. Edge!TypeOK
    BY <2>1, EdgeNet DEF Edge!TypeOK, Edge!serv_sock
  <2>3. EdgeHolds
    BY <1>3, <2>1 DEF EdgeHolds
  <2>4. QED
    BY <2>2, <2>3 DEF EdgeInv
<1>e. Evt!TypeOK /\ EvtInv /\ ArraysAgree
  <2>1. pcEvt = "wait" /\ hSockArr = <<0>> /\ hEventArr = <<0>> /\ iEvt = 1 /\ closeSeen = {}
    BY <1>0 DEF Evt!Init, Evt!hServSock
  <2>2. hSockArr \in Seq(Clients \cup {0}) /\ DOMAIN hSockArr = {1} /\ hSockArr[1] = 0
    BY <2>1
  <2>3. Evt!TypeOK /\ ArraysAgree
    BY <1>2, <2>1, <2>2, EvtNet DEF Evt!TypeOK, Evt!hServSock, ArraysAgree, Evt!ArraysAgree
  <2>4. EvtSockets
    BY <2>2 DEF EvtSockets, Distinct
  <2>5. QED
    BY <1>3, <2>3, <2>4 DEF EvtInv
<1>c. Cmp!TypeOK /\ CmpInv
  <2>1. /\ pcCmp = "sleep" /\ op = [c \in Clients |-> "none"] /\ len = [c \in Clients |-> 0]
        /\ failed = [c \in Clients |-> FALSE] /\ blocks = {}
    BY <1>0, CmpNet DEF Cmp!Init
  <2>2. Cmp!TypeOK
    BY <1>2, <2>1, CmpNet DEF Cmp!TypeOK
  <2>3. \A c \in Clients : CmpClient(c)
    BY <1>3, <2>1 DEF CmpClient
  <2>4. QED
    BY <2>2, <2>3 DEF CmpInv
<1>p. Port!TypeOK /\ TypePort /\ NoneServing /\ PortInv
  <2>1. /\ queue = << >> /\ rcv = {} /\ snd = [c \in Clients |-> 0]
        /\ wpc = [w \in Port!Workers |-> "get"]
        /\ ioInfo = [w \in Port!Workers |-> Port!NoInfo] /\ handles = {}
    BY <1>0, PortNet DEF Port!Init
  <2>2. Port!TypeOK /\ NoneServing
    BY <2>1, PortNet DEF Port!TypeOK, NoneServing
  <2>3. queue \in Seq(Completions) /\ DOMAIN queue = {}
    BY <2>1
  <2>4. TypePort
    BY <2>1, <2>3 DEF TypePort
  <2>5. Following
    BY <2>1, <2>3 DEF Following
  <2>6. ASSUME NEW c \in Clients
        PROVE  OneReceive(c) /\ OpenServed(c) /\ UpToDate(c)
    <3>1. \A w \in Port!Workers : ~Serves(c, w)
      BY <2>1 DEF Serves
    <3>2. QED
      BY <1>3, <2>1, <2>3, <3>1 DEF OneReceive, OpenServed, UpToDate
  <2>7. QED
    BY <2>2, <2>4, <2>5, <2>6 DEF PortInv
<1>5. TypeOK
  BY <1>1, <1>s, <1>w, <1>l, <1>d, <1>e, <1>c, <1>p DEF TypeOK, NetInv
<1>6. QED
  BY <1>0, <1>1, <1>4, <1>5, <1>s, <1>w, <1>l, <1>d, <1>e, <1>c, <1>p DEF IInv

\* All that follows rests on this invariant.
LEMMA Invariant == Spec => []IInv
<1>1. IInv /\ [Next]_vars => IInv'
  BY StepInv
<1>2. QED
  BY InitInv, <1>1, PTL DEF Spec

-----------------------------------------------------------------------------
(* The properties of EchoServers. *)

\* The net and every server stay within their types: descriptors, array lengths
\* and buffers included.
THEOREM TypeCorrect == Spec => []TypeOK
<1>1. IInv => TypeOK
  BY DEF IInv
<1>2. QED
  BY Invariant, <1>1, PTL

\* The three servers that block call accept and read only when there is something
\* (echo_selectserv.c:71, echo_selectserv_win.c:55, echo_EPLTserv.c): what the
\* last select or epoll_wait found is still true when the loop comes to it.
THEOREM OneSilentClientStopsNobody == Spec => []NeverWaits
<1>1. ASSUME IInv, kind = "select"
      PROVE  ~Sel!Waits
  <2>1. SelScan /\ Sel!TypeOK
    BY <1>1, Servers DEF IInv, SelInv
  <2>2. \A c : (Sel!NothingToRead(c) <=> NothingToRead(c)) /\ Sel!Backlog = Backlog
    BY SelNet
  <2>3. ASSUME pcSel = "scan", iSel \in cpy_reads
        PROVE  IF iSel = 0 THEN Backlog # {} ELSE ~NothingToRead(fdtab[iSel])
    BY <2>1, <2>3 DEF SelScan, Readable, NothingToRead
  <2>4. QED
    BY <2>2, <2>3 DEF Sel!Waits, Sel!AtClient, Sel!serv_sock
<1>2. ASSUME IInv, kind = "select_win"
      PROVE  ~Win!Waits
  <2>1. /\ WinScan /\ DOMAIN readArr = 1..Len(readArr) /\ iWin \in 1..Len(MaxUnits) + 2
        /\ Len(readArr) \in Nat /\ Len(MaxUnits) \in Nat /\ Win!Backlog = Backlog
        /\ \A c : Win!NothingToRead(c) <=> NothingToRead(c)
    BY <1>2, WinFacts, WinNet
  <2>2. Win!IsSet <=> InCopy(iWin)
    BY DEF Win!IsSet, InCopy
  <2>3. QED
    BY <2>1, <2>2 DEF Win!Waits, WinScan, Win!hServSock
<1>3. ASSUME IInv, kind = "epoll"
      PROVE  ~Lev!Waits
  <2>1. LevEvents
    BY <1>3 DEF IInv, LevInv
  <2>2. QED
    BY <2>1, LevNet DEF Lev!Waits, LevEvents, Readable, NothingToRead, Lev!serv_sock
<1>4. IInv => NeverWaits
  BY <1>1, <1>2, <1>3 DEF NeverWaits
<1>5. QED
  BY Invariant, <1>4, PTL

\* No server but echo_selectserv_win.c, which indexes the copy, closes a client
\* that has not left.
THEOREM ClosesNobodyElse == Spec => []ClosesOnlyTheGone
<1>1. IInv => ClosesOnlyTheGone
  BY DEF IInv, Common
<1>2. QED
  BY Invariant, <1>1, PTL

\* However many workers take completions, the socket one of them sends to,
\* receives from or closes is open: a client's receive is in one place at a time.
THEOREM WorkersUseOpenSockets == Spec => []UsesOnlyOpenSockets
<1>1. ASSUME IInv, NEW c \in Port!Serving
      PROVE  sst[c] = "open" /\ c \in handles
  <2>1. PICK w \in Port!Workers : wpc[w] \in {"send", "recv", "close"} /\ c = ioInfo[w].clnt
    BY DEF Port!Serving
  <2>2. kind = "iocp"
    BY <1>1, <2>1 DEF IInv, NoneServing
  <2>3. ioInfo[w] \in Completions
    BY <1>1, <2>1, <2>2, PortFacts
  <2>4. c \in Clients /\ Serves(c, w)
    BY <2>1, <2>3 DEF Completions, Serves
  <2>5. OpenServed(c)
    BY <1>1, <2>2, <2>4, PortFacts
  <2>6. QED
    BY <2>4, <2>5 DEF OpenServed
<1>2. IInv => UsesOnlyOpenSockets
  BY <1>1 DEF UsesOnlyOpenSockets
<1>3. QED
  BY Invariant, <1>2, PTL

\* CompressSockets and CompressEvents keep the arrays entry by entry the same.
THEOREM EventsStayWithSockets == Spec => []ArraysAgree
<1>1. IInv => ArraysAgree
  BY DEF IInv
<1>2. QED
  BY Invariant, <1>1, PTL

\* The blocks a completion routine is given live exactly as long as the socket.
THEOREM BlocksLiveWithSockets == Spec => []BlocksLive
<1>1. IInv => BlocksLive
  BY CmpNet DEF IInv, CmpInv, CmpClient, BlocksLive, Cmp!BlocksLive
<1>2. QED
  BY Invariant, <1>1, PTL

\* A server ends only if some client left without having read all its units back.
THEOREM PoliteClientsEndNobody == Spec => []PoliteClientsAreSafe
<1>1. IInv => PoliteClientsAreSafe
  BY DEF IInv, Common
<1>2. QED
  BY Invariant, <1>1, PTL

\* Every step of every server is a step of EchoService or changes nothing that a
\* client sees: it gets its own units, in order, each once.
THEOREM ImplementsEchoService == Spec => PromiseKept
<1>1. Init => Promise!Init
  BY DEF Init, NetInit, Promise!Init, NonBlocking
<1>2. IInv /\ [Next]_vars => [Promise!Next]_<<sent, out, NonBlocking>>
  BY StepInv DEF EchoNext
<1>3. QED
  BY Invariant, <1>1, <1>2, PTL DEF Spec, PromiseKept, Promise!Spec
=============================================================================
