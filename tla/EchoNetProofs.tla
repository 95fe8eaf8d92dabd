---------------------------- MODULE EchoNetProofs ----------------------------
(***************************************************************************)
(* What the calls of the echo servers and the steps of their clients do to *)
(* the connections, whichever server makes them: an invariant of the net,  *)
(* and a lemma for each call that keeps it.                                *)
(***************************************************************************)
EXTENDS EchoNet, SequenceTheorems, TLAPS

\* The last unit written to c.
Last(c) == IF out[c] = << >> THEN 0 ELSE out[c][Len(out[c])]

\* Units are accounted for, no unit is written that is still held, and a client
\* whose connection ended in a reset has not read all it sent.
Good(c) ==
  /\ conn[c] = "none" <=> sst[c] = "none"
  /\ conn[c] = "none" => sent[c] = 0
  /\ Len(out[c]) + cut[c] + held[c] <= taken[c]
  /\ Last(c) <= taken[c] - held[c]
  /\ conn[c] \in {"reset", "dead"} => got[c] < sent[c]
  /\ kind # "iocp" => Room(c) >= 0

NetInv == TypeNet /\ \A c \in Clients : Good(c)

\* Nothing happens to d.
Same(d) ==
  /\ conn'[d] = conn[d] /\ sst'[d] = sst[d] /\ sent'[d] = sent[d] /\ taken'[d] = taken[d]
  /\ held'[d] = held[d] /\ out'[d] = out[d] /\ got'[d] = got[d] /\ cut'[d] = cut[d]

SameBut(c) == \A d \in Clients \ {c} : Same(d)

-----------------------------------------------------------------------------
(* Sequences of units. *)

LEMMA NetConstants ==
  /\ Clients \subseteq Nat \ {0} /\ MaxUnits \in [Clients -> Nat]
  /\ SndBuf \in Nat \ {0} /\ Buf \in Nat \ {0}
  BY EchoNetAssumption DEF Clients

\* t is s with n units after the first k at its end.
Extended(t, s, k, n) ==
  /\ t \in Seq(Nat) /\ Len(t) = Len(s) + n
  /\ \A j \in DOMAIN t : (j \in DOMAIN s /\ t[j] = s[j]) \/ t[j] \in k + 1..k + n
  /\ n > 0 => t # << >> /\ t[Len(t)] = k + n
  /\ n = 0 => t = s

LEMMA AppendUnits ==
  ASSUME NEW s \in Seq(Nat), NEW k \in Nat, NEW n \in Nat
  PROVE  Extended(s \o Units(k, n), s, k, n)
<1> DEFINE t == s \o Units(k, n)
<1>1. Units(k, n) \in Seq(Nat) /\ Len(Units(k, n)) = n /\ Len(s) \in Nat
      /\ \A j \in 1..n : Units(k, n)[j] = k + j
  BY LenProperties DEF Units
<1>2. /\ t \in Seq(Nat) /\ Len(t) = Len(s) + n
      /\ \A j \in 1..Len(s) + n :
           t[j] = IF j <= Len(s) THEN s[j] ELSE Units(k, n)[j - Len(s)]
  <2> DEFINE u == Units(k, n)
  <2>1. u \in Seq(Nat) /\ Len(u) = n /\ t = s \o u
    BY <1>1
  <2> HIDE DEF u
  <2>2. /\ s \o u \in Seq(Nat) /\ Len(s \o u) = Len(s) + Len(u)
        /\ \A j \in 1..Len(s) + Len(u) :
             (s \o u)[j] = IF j <= Len(s) THEN s[j] ELSE u[j - Len(s)]
    BY <2>1, ConcatProperties
  <2>3. QED
    BY <2>1, <2>2 DEF u
<1>3. DOMAIN t = 1..Len(s) + n /\ DOMAIN s = 1..Len(s)
  BY <1>2, LenProperties
<1>4. ASSUME NEW j \in DOMAIN t
      PROVE  (j \in DOMAIN s /\ t[j] = s[j]) \/ t[j] \in k + 1..k + n
  <2>1. CASE j <= Len(s)
    BY <1>1, <1>2, <1>3, <2>1
  <2>2. CASE ~(j <= Len(s))
    <3>1. j \in 1..Len(s) + n /\ j - Len(s) \in 1..n
      BY <1>1, <1>3, <2>2
    <3>2. t[j] = k + (j - Len(s))
      BY <1>1, <1>2, <2>2, <3>1
    <3>3. QED
      BY <1>1, <3>1, <3>2
  <2>3. QED
    BY <2>1, <2>2
<1>5. ASSUME n > 0
      PROVE  t # << >> /\ t[Len(t)] = k + n
  <2>1. Len(t) \in 1..Len(s) + n /\ ~(Len(t) <= Len(s)) /\ Len(t) - Len(s) = n
    BY <1>1, <1>2, <1>5
  <2>2. t[Len(t)] = Units(k, n)[n]
    BY <1>2, <2>1
  <2>3. t # << >>
    BY <2>1, <1>3
  <2>4. QED
    BY <1>1, <1>5, <2>2, <2>3
<1>6. ASSUME n = 0
      PROVE  t = s
  <2>1. Units(k, n) = << >>
    BY <1>1, <1>6, EmptySeq
  <2>2. QED
    BY <2>1, ConcatEmptySeq
<1> HIDE DEF t
<1>7. Extended(t, s, k, n)
  BY <1>1, <1>2, <1>4, <1>5, <1>6 DEF Extended
<1>8. QED
  BY <1>7 DEF t

LEMMA AppendOne ==
  ASSUME NEW s \in Seq(Nat), NEW k \in Nat
  PROVE  Append(s, k + 1) = s \o Units(k, 1)
<1>1. Units(k, 1) = <<k + 1>>
  BY DEF Units
<1>2. Append(s, k + 1) = s \o <<k + 1>>
  <2>1. k + 1 \in Nat
    OBVIOUS
  <2>2. QED
    BY <2>1, AppendIsConcat
<1>3. QED
  BY <1>1, <1>2

-----------------------------------------------------------------------------
(* Each call changes one client. *)

LEMMA OneClient ==
  ASSUME NetInv, NetFunctions', kind' = kind, NEW c \in Clients, SameBut(c),
         NetBounds(c)', Good(c)'
  PROVE  NetInv'
<1>1. ASSUME NEW d \in Clients \ {c}
      PROVE  NetBounds(d)' /\ Good(d)'
  <2>1. NetBounds(d) /\ Good(d) /\ Same(d)
    BY DEF NetInv, TypeNet, SameBut
  <2>2. NetBounds(d)'
    BY <2>1 DEF NetBounds, Same
  <2>3. Good(d)'
    BY <2>1 DEF Good, Same, Last, Room
  <2>4. QED
    BY <2>2, <2>3
<1>2. QED
  BY <1>1 DEF NetInv, TypeNet

LEMMA Typed ==
  ASSUME NetInv
  PROVE  /\ conn \in [Clients -> {"none", "open", "fin", "reset", "dead"}]
         /\ sst \in [Clients -> {"none", "queued", "open", "closed"}]
         /\ sent \in [Clients -> Nat] /\ taken \in [Clients -> Nat] /\ held \in [Clients -> Nat]
         /\ out \in [Clients -> Seq(Nat)] /\ got \in [Clients -> Nat] /\ cut \in [Clients -> Nat]
  BY DEF NetInv, TypeNet, NetFunctions

\* The numbers of one client.
LEMMA Numbers ==
  ASSUME NetInv, NEW c \in Clients
  PROVE  /\ sent[c] \in Nat /\ taken[c] \in Nat /\ held[c] \in Nat /\ got[c] \in Nat
         /\ cut[c] \in Nat /\ out[c] \in Seq(Nat) /\ Len(out[c]) \in Nat
         /\ taken[c] - held[c] \in Nat /\ Last(c) \in Nat
         /\ Len(out[c]) + cut[c] + held[c] <= taken[c] /\ Last(c) <= taken[c] - held[c]
         /\ taken[c] <= sent[c] /\ got[c] <= Len(out[c]) /\ held[c] <= Buf
         /\ NetBounds(c) /\ Good(c)
<1>1. NetBounds(c) /\ Good(c) /\ NetFunctions
  BY DEF NetInv, TypeNet
<1>2. /\ sent[c] \in Nat /\ taken[c] \in Nat /\ held[c] \in Nat /\ got[c] \in Nat
      /\ cut[c] \in Nat /\ out[c] \in Seq(Nat) /\ Len(out[c]) \in Nat
  BY <1>1, LenProperties DEF NetFunctions
<1>3. Last(c) \in Nat
  <2>1. CASE out[c] # << >>
    <3>1. Len(out[c]) \in DOMAIN out[c]
      BY <1>2, <2>1, LenProperties, EmptySeq
    <3>2. QED
      BY <1>2, <3>1, ElementOfSeq, LenProperties DEF Last
  <2>2. QED
    BY <2>1 DEF Last
<1>4. taken[c] - held[c] \in Nat
  BY <1>1, <1>2 DEF Good
<1>5. held[c] <= Buf
  BY <1>1, <1>2, NetConstants DEF NetBounds, Least
<1>6. QED
  BY <1>1, <1>2, <1>3, <1>4, <1>5 DEF Good, NetBounds

\* accept and close change only the server's socket.
LEMMA SocketKeeps ==
  ASSUME NetInv, kind' = kind, NEW c \in Clients, sst[c] # "none",
         NEW to \in {"open", "closed"}, sst' = [sst EXCEPT ![c] = to],
         UNCHANGED <<alive, tcp>>
  PROVE  NetInv' /\ SameBut(c)
<1> USE DEF tcp
<1>1. NetFunctions' /\ SameBut(c) /\ sst'[c] = to
  BY DEF NetInv, TypeNet, NetFunctions, SameBut, Same
<1>2. NetBounds(c)' /\ Good(c)'
  <2>1. NetBounds(c) /\ Good(c)
    BY Numbers
  <2>2. NetBounds(c)'
    BY <2>1 DEF NetBounds
  <2>3. Good(c)'
    BY <1>1, <2>1 DEF Good, Last, Room
  <2>4. QED
    BY <2>2, <2>3
<1>3. QED
  BY <1>1, <1>2, OneClient

\* What a read brings is now held.
LEMMA ReadKeeps ==
  ASSUME NetInv, kind' = kind, NEW c \in Clients,
         NEW size \in Nat, 0 < size, size <= Buf, ReadUpTo(c, size)
  PROVE  /\ NetInv' /\ SameBut(c) /\ held'[c] \in Nat /\ 0 < held'[c] /\ held'[c] <= size
         /\ taken'[c] - held'[c] = taken[c] /\ Last(c)' = Last(c)
         /\ UNCHANGED <<alive, sst, conn, sent, out, got, cut>>
<1> DEFINE n == Least(size, Unread(c))
           s == sent[c]
           t == taken[c]
           h == held[c]
           L == Len(out[c]) + cut[c]
<1>0. /\ s \in Nat /\ t \in Nat /\ h \in Nat /\ L \in Nat /\ Last(c) \in Nat
      /\ L + h <= t /\ Last(c) <= t - h
  BY Numbers
<1>a. NetBounds(c) /\ Good(c)
  BY Numbers
<1>b. Unread(c) > 0 /\ (Unread(c) = 0 \/ Unread(c) = s - t)
  BY DEF ReadUpTo, Unread
<1> HIDE DEF s, t, h, L
<1>1. n \in Nat /\ 0 < n /\ n <= size /\ n <= Buf /\ t + n <= s
  BY <1>0, <1>b, NetConstants DEF Least
<1> HIDE DEF n
<1>2. taken' = [taken EXCEPT ![c] = t + n] /\ held' = [held EXCEPT ![c] = n]
  BY DEF ReadUpTo, n, t
<1>3. UNCHANGED <<alive, sst, conn, sent, out, got, cut>>
  BY DEF ReadUpTo
<1>c. t + n \in Nat
  BY <1>0, <1>1
<1>4. NetFunctions' /\ SameBut(c) /\ taken'[c] = t + n /\ held'[c] = n
  BY <1>1, <1>2, <1>3, <1>c DEF NetInv, TypeNet, NetFunctions, SameBut, Same
<1>5. NetBounds(c)'
  <2>1. \A k \in DOMAIN out[c] : out[c][k] \in 1..t + n
    <3>1. \A k \in DOMAIN out[c] : out[c][k] \in 1..t
      BY <1>a DEF NetBounds, t
    <3>2. QED
      BY <1>0, <1>1, <3>1
  <2>2. n <= Least(Buf, t + n)
    BY <1>0, <1>1, NetConstants DEF Least
  <2>3. cut[c] <= t + n
    <3>1. cut[c] <= t /\ cut[c] \in Nat
      BY <1>a, Numbers DEF NetBounds, t
    <3>2. QED
      BY <1>0, <1>1, <3>1
  <2>4. sent[c] <= MaxUnits[c] /\ got[c] <= Len(out[c]) /\ t + n <= sent[c]
    BY <1>a, <1>1 DEF NetBounds, s
  <2>5. QED
    BY <1>3, <1>4, <2>1, <2>2, <2>3, <2>4 DEF NetBounds
<1>6. Good(c)' /\ Last(c)' = Last(c)
  <2>1. Last(c)' = Last(c) /\ Room(c)' = Room(c)
    BY <1>3 DEF Last, Room
  <2>2. L + n <= t + n /\ Last(c) <= t + n - n
    BY <1>0, <1>1
  <2>3. QED
    <3>1. /\ Len(out'[c]) + cut'[c] + held'[c] <= taken'[c]
          /\ Last(c)' <= taken'[c] - held'[c]
      <4>1. Len(out'[c]) + cut'[c] = L
        BY <1>3 DEF L
      <4>2. taken'[c] = t + n /\ held'[c] = n
        BY <1>4
      <4>3. Len(out'[c]) + cut'[c] + held'[c] = L + n
        BY <4>1, <4>2
      <4>4. Last(c)' <= taken'[c] - held'[c]
        <5>1. taken'[c] - held'[c] = t
          BY <1>0, <1>1, <1>4
        <5>2. Last(c)' <= t
          BY <1>0, <2>1
        <5>3. QED
          BY <5>1, <5>2
      <4>5. QED
        BY <2>2, <4>2, <4>3, <4>4
    <3>2. QED
      BY <1>3, <1>a, <2>1, <3>1 DEF Good
<1>7. taken'[c] - held'[c] = t
  BY <1>0, <1>1, <1>4
<1>8. QED
  BY <1>1, <1>3, <1>4, <1>5, <1>6, <1>7, OneClient DEF t

\* A read reports a reset.
LEMMA ResetKeeps ==
  ASSUME NetInv, kind' = kind, NEW c \in Clients, ReadReset(c)
  PROVE  /\ NetInv' /\ SameBut(c) /\ conn'[c] \in {"reset", "dead"} /\ conn[c] = "reset"
         /\ UNCHANGED <<alive, sst, sent, taken, held, out, got, cut>>
<1>0. NetBounds(c) /\ Good(c)
  BY Numbers
<1>1. /\ NetFunctions' /\ SameBut(c) /\ conn'[c] \in {"reset", "dead"} /\ conn[c] = "reset"
      /\ UNCHANGED <<alive, sst, sent, taken, held, out, got, cut>>
  BY DEF ReadReset, AfterReset, NetInv, TypeNet, NetFunctions, SameBut, Same
<1>2. NetBounds(c)' /\ Good(c)'
  BY <1>0, <1>1 DEF NetBounds, Good, Last, Room
<1>3. QED
  BY <1>1, <1>2, OneClient
\* Units go out: n of those after the first k, which leave out none written before.
Puts(c, k, n) ==
  /\ kind' = kind
  /\ out' = [out EXCEPT ![c] = @ \o Units(k, n)]
  /\ held' \in [Clients -> Nat] /\ cut' \in [Clients -> Nat] /\ taken' \in [Clients -> Nat]
  /\ UNCHANGED <<alive, conn, sent, got>>
  /\ \/ UNCHANGED sst
     \/ sst[c] # "none" /\ sst' = [sst EXCEPT ![c] = "closed"]
  /\ \A d \in Clients \ {c} : held'[d] = held[d] /\ cut'[d] = cut[d] /\ taken'[d] = taken[d]

\* They have been read and have a place in the send buffer.
MayPut(c, k, n) ==
  /\ taken[c] <= taken'[c] /\ taken'[c] <= sent[c] /\ held'[c] <= Buf
  /\ Last(c) <= k
  /\ n > 0 => k + n <= taken'[c] - held'[c]
  /\ Last(c) <= taken'[c] - held'[c]
  /\ Len(out[c]) + n + cut'[c] + held'[c] <= taken'[c]
  /\ kind # "iocp" => n <= Room(c)

LEMMA PutsWell ==
  ASSUME NEW k \in Nat, NEW n \in Nat, NEW t \in Nat, NEW h \in Nat,
         n > 0 => k + n <= t - h, NEW x \in k + 1..k + n
  PROVE  x \in 1..t
<1>1. CASE n > 0
  BY <1>1
<1>2. CASE n = 0
  BY <1>2
<1>3. QED
  BY <1>1, <1>2

LEMMA WriteKeeps ==
  ASSUME NetInv, NEW c \in Clients, NEW k \in Nat, NEW n \in Nat, Puts(c, k, n), MayPut(c, k, n)
  PROVE  /\ NetInv' /\ SameBut(c)
         /\ Last(c)' = IF n > 0 THEN k + n ELSE Last(c)
<1> DEFINE s  == sent[c]
           t  == taken[c]
           L  == Len(out[c])
           g  == got[c]
           l  == Last(c)
           t1 == taken'[c]
           h1 == held'[c]
           u1 == cut'[c]
<1>0. s \in Nat /\ t \in Nat /\ L \in Nat /\ g \in Nat /\ l \in Nat /\ g <= L
  BY Numbers
<1>a. NetBounds(c) /\ Good(c) /\ out[c] \in Seq(Nat)
  BY Numbers
<1>1. h1 \in Nat /\ u1 \in Nat /\ t1 \in Nat
  BY DEF Puts
<1>b. /\ t <= t1 /\ t1 <= s /\ h1 <= Buf /\ l <= k
      /\ n > 0 => k + n <= t1 - h1
      /\ l <= t1 - h1 /\ L + n + u1 + h1 <= t1
      /\ kind # "iocp" => n <= Room(c)
  BY DEF MayPut
<1>2. out'[c] = out[c] \o Units(k, n)
  BY DEF Puts, NetInv, TypeNet, NetFunctions
<1>3. /\ out'[c] \in Seq(Nat) /\ Len(out'[c]) = L + n
      /\ \A j \in DOMAIN out'[c] :
           (j \in DOMAIN out[c] /\ out'[c][j] = out[c][j]) \/ out'[c][j] \in k + 1..k + n
      /\ n > 0 => out'[c] # << >> /\ out'[c][Len(out'[c])] = k + n
      /\ n = 0 => out'[c] = out[c]
  <2>1. Extended(out[c] \o Units(k, n), out[c], k, n)
    BY <1>a, AppendUnits
  <2>2. Extended(out'[c], out[c], k, n)
    BY <1>2, <2>1
  <2>3. QED
    BY <2>2 DEF Extended
<1>5. Last(c)' = IF n > 0 THEN k + n ELSE l
  <2>1. CASE n > 0
    BY <1>3, <2>1 DEF Last
  <2>2. CASE ~(n > 0)
    <3>1. n = 0
      BY <2>2
    <3>2. out'[c] = out[c]
      BY <1>3, <3>1
    <3>3. Last(c)' = Last(c)
      BY <3>2 DEF Last
    <3>4. QED
      BY <2>2, <3>3
  <2>3. QED
    BY <2>1, <2>2
<1>6. NetFunctions' /\ SameBut(c)
  <2>1. out' \in [Clients -> Seq(Nat)] /\ \A d \in Clients \ {c} : out'[d] = out[d]
    BY <1>3 DEF Puts, NetInv, TypeNet, NetFunctions
  <2>2. QED
    BY <2>1 DEF Puts, NetInv, TypeNet, NetFunctions, SameBut, Same
<1>c. UNCHANGED <<conn, sent, got, kind>> /\ (sst'[c] = "none" <=> sst[c] = "none")
  BY DEF Puts, NetInv, TypeNet, NetFunctions
<1> HIDE DEF s, t, L, g, l, t1, h1, u1
<1>7. NetBounds(c)'
  <2>1. \A j \in DOMAIN out'[c] : out'[c][j] \in 1..t1
    <3>1. ASSUME NEW x \in k + 1..k + n
          PROVE  x \in 1..t1
      BY <1>1, <1>b, <3>1, PutsWell
    <3>2. ASSUME NEW x \in 1..t
          PROVE  x \in 1..t1
      BY <1>0, <1>1, <1>b, <3>2
    <3>3. \A j \in DOMAIN out[c] : out[c][j] \in 1..t
      BY <1>a DEF NetBounds, t
    <3>4. QED
      BY <1>3, <3>1, <3>2, <3>3
  <2>2. h1 <= Least(Buf, t1) /\ u1 <= t1
    BY <1>0, <1>1, <1>b, NetConstants DEF Least
  <2>3. g <= L + n
    BY <1>0
  <2>4. sent[c] <= MaxUnits[c]
    BY <1>a DEF NetBounds
  <2>5. QED
    BY <1>b, <1>c, <1>3, <2>1, <2>2, <2>3, <2>4 DEF NetBounds, s, t1, h1, u1, g
<1>8. Good(c)'
  <2>1. Last(c)' <= t1 - h1
    <3>1. CASE n > 0
      BY <1>b, <1>5, <3>1
    <3>2. CASE ~(n > 0)
      BY <1>b, <1>5, <3>2
    <3>3. QED
      BY <3>1, <3>2
  <2>2. L + n + u1 + h1 <= t1
    BY <1>b
  <2>3. kind # "iocp" => Room(c)' >= 0
    <3>1. Room(c)' = SndBuf - (L + n - g) /\ Room(c) = SndBuf - (L - g)
      <4>1. Len(out'[c]) = L + n /\ got'[c] = g /\ Len(out[c]) = L /\ got[c] = g
        BY <1>3, <1>c DEF g, L
      <4>2. QED
        <5>1. /\ Room(c)' = SndBuf - (Len(out'[c]) - got'[c])
              /\ Room(c) = SndBuf - (Len(out[c]) - got[c])
          BY DEF Room
        <5>2. /\ out' \in [Clients -> Seq(Nat)] /\ out \in [Clients -> Seq(Nat)]
              /\ got' \in [Clients -> Nat] /\ got \in [Clients -> Nat]
          BY <1>6 DEF NetFunctions, NetInv, TypeNet
        <5>3. QED
          BY <4>1, <5>1, <5>2
    <3>2. QED
      BY <1>0, <1>b, <3>1, NetConstants
  <2>4. QED
    BY <1>a, <1>c, <1>3, <2>1, <2>2, <2>3 DEF Good, t1, h1, u1
<1>9. QED
  BY <1>5, <1>6, <1>7, <1>8, OneClient DEF Puts, l

\* A blocking write moves the next unit.
LEMMA WriteOneKeeps ==
  ASSUME NetInv, kind' = kind, NEW c \in Clients, WriteOne(c)
  PROVE  /\ NetInv' /\ SameBut(c) /\ held'[c] = held[c] - 1 /\ held[c] > 0
         /\ Last(c)' = taken[c] - held[c] + 1 /\ taken'[c] = taken[c] /\ conn'[c] = conn[c]
         /\ out' = [out EXCEPT ![c] = @ \o Units(taken[c] - held[c], 1)]
         /\ UNCHANGED <<alive, sst, conn, sent, taken, got, cut>>
<1> DEFINE s == sent[c]
           t == taken[c]
           h == held[c]
           L == Len(out[c])
           u == cut[c]
           g == got[c]
           k == t - h
<1>0. /\ s \in Nat /\ t \in Nat /\ h \in Nat /\ L \in Nat /\ u \in Nat /\ g \in Nat
      /\ Last(c) \in Nat /\ k \in Nat
      /\ L + u + h <= t /\ Last(c) <= t - h /\ t <= s /\ h <= Buf
  BY Numbers
<1>1. Append(out[c], k + 1) = out[c] \o Units(k, 1)
  <2>1. out[c] \in Seq(Nat) /\ k \in Nat
    BY Numbers
  <2> HIDE DEF k
  <2>2. QED
    BY <2>1, AppendOne, Zenon
<1>2. out' = [out EXCEPT ![c] = @ \o Units(k, 1)]
  BY <1>1 DEF WriteOne
<1>3. /\ held' = [held EXCEPT ![c] = h - 1]
      /\ UNCHANGED <<alive, sst, conn, sent, taken, got, cut>>
  BY DEF WriteOne
<1>4. h > 0 /\ SndBuf - (L - g) > 0
  BY DEF WriteOne, Room
<1>5. Puts(c, k, 1) /\ held'[c] = h - 1
  <2>1. /\ cut \in [Clients -> Nat] /\ taken \in [Clients -> Nat]
        /\ held \in [Clients -> Nat]
    BY DEF NetInv, TypeNet, NetFunctions
  <2> HIDE DEF k, h
  <2>2. h - 1 \in Nat
    BY <1>0, <1>4
  <2>3. QED
    BY <1>2, <1>3, <2>1, <2>2 DEF Puts
<1>6. MayPut(c, k, 1)
  <2>1. taken'[c] = t /\ cut'[c] = u
    BY <1>3
  <2>2. /\ t <= t /\ t <= s /\ h - 1 <= Buf /\ Last(c) <= k /\ k + 1 <= t - (h - 1)
        /\ Last(c) <= t - (h - 1) /\ L + 1 + u + (h - 1) <= t
        /\ 1 <= SndBuf - (L - g)
    <3> HIDE DEF s, t, h, L, u, g
    <3>1. QED
      BY <1>0, <1>4, NetConstants
  <2>3. QED
    BY <1>5, <2>1, <2>2 DEF MayPut, Room
<1>7. NetInv' /\ SameBut(c) /\ Last(c)' = k + 1
  <2> HIDE DEF k
  <2>1. QED
    BY <1>0, <1>5, <1>6, WriteKeeps
<1>8. QED
  BY <1>2, <1>3, <1>4, <1>5, <1>7
\* A write that does not wait moves what fits and leaves out the rest.
LEMMA WriteWhatFitsKeeps ==
  ASSUME NetInv, kind' = kind, kind # "iocp", NEW c \in Clients, WriteWhatFits(c)
  PROVE  /\ NetInv' /\ SameBut(c) /\ held'[c] = 0 /\ taken'[c] = taken[c] /\ conn'[c] = conn[c]
         /\ \E n \in Nat : /\ out' = [out EXCEPT ![c] = @ \o Units(taken[c] - held[c], n)]
                           /\ n <= held[c]
         /\ UNCHANGED <<alive, sst, conn, sent, taken, got>>
<1> DEFINE s == sent[c]
           t == taken[c]
           h == held[c]
           L == Len(out[c])
           u == cut[c]
           g == got[c]
           k == t - h
           n == Least(h, SndBuf - (L - g))
<1>0. /\ s \in Nat /\ t \in Nat /\ h \in Nat /\ L \in Nat /\ u \in Nat /\ g \in Nat
      /\ Last(c) \in Nat /\ k \in Nat
      /\ L + u + h <= t /\ Last(c) <= t - h /\ t <= s /\ h <= Buf
  BY Numbers
<1>1. SndBuf - (L - g) >= 0
  BY Numbers DEF Good, Room
<1>2. n \in Nat /\ n <= h /\ n <= SndBuf - (L - g)
  <2> HIDE DEF s, t, h, L, u, g
  <2>1. QED
    BY <1>0, <1>1, NetConstants DEF Least
<1>3. /\ held' = [held EXCEPT ![c] = 0] /\ cut' = [cut EXCEPT ![c] = u + h - n]
      /\ out' = [out EXCEPT ![c] = @ \o Units(k, n)]
      /\ UNCHANGED <<alive, sst, conn, sent, taken, got>>
  BY DEF WriteWhatFits, Room
<1>4. u + h - n \in Nat
  <2> HIDE DEF t, h, L, u, g, n
  <2>1. QED
    BY <1>0, <1>2
<1>5. Puts(c, k, n) /\ held'[c] = 0 /\ cut'[c] = u + h - n
  <2>1. /\ cut \in [Clients -> Nat] /\ taken \in [Clients -> Nat]
        /\ held \in [Clients -> Nat]
    BY DEF NetInv, TypeNet, NetFunctions
  <2> HIDE DEF k, n, h, u
  <2>2. QED
    BY <1>3, <1>4, <2>1 DEF Puts
<1>6. MayPut(c, k, n)
  <2>1. taken'[c] = t
    BY <1>3
  <2>2. /\ t <= t /\ t <= s /\ 0 <= Buf /\ Last(c) <= k /\ k + n <= t - 0
        /\ Last(c) <= t - 0 /\ L + n + (u + h - n) + 0 <= t
        /\ n <= SndBuf - (L - g)
    <3> HIDE DEF s, t, h, L, u, g, n
    <3>1. QED
      BY <1>0, <1>2, NetConstants
  <2> HIDE DEF n
  <2>3. QED
    BY <1>5, <2>1, <2>2 DEF MayPut, Room
<1>7. NetInv' /\ SameBut(c)
  <2> HIDE DEF k, n
  <2>1. QED
    BY <1>0, <1>2, <1>5, <1>6, WriteKeeps
<1> HIDE DEF n
<1>8. QED
  BY <1>2, <1>3, <1>5, <1>7

\* A write to a client that has left is lost, and may bring its reset.
LEMMA WriteLostKeeps ==
  ASSUME NetInv, kind' = kind, NEW c \in Clients, held[c] > 0, WriteLost(c)
  PROVE  /\ NetInv' /\ SameBut(c) /\ held'[c] = 0 /\ Gone(c) /\ Gone(c)'
         /\ conn'[c] \in {conn[c], "reset", "dead"}
         /\ UNCHANGED <<alive, sst, sent, taken, out, got, cut>>
<1> DEFINE s == sent[c]
           t == taken[c]
           h == held[c]
           L == Len(out[c])
           u == cut[c]
           g == got[c]
<1>0. /\ s \in Nat /\ t \in Nat /\ h \in Nat /\ L \in Nat /\ u \in Nat /\ g \in Nat
      /\ Last(c) \in Nat /\ g <= L
      /\ L + u + h <= t /\ Last(c) <= t - h /\ t <= s /\ h <= Buf
  BY Numbers
<1>a. NetBounds(c) /\ Good(c)
  BY Numbers
<1>1. UNCHANGED <<alive, sst, sent, taken, out, got, cut>> /\ held' = [held EXCEPT ![c] = 0]
  BY DEF WriteLost
<1>2. /\ NetFunctions' /\ SameBut(c) /\ held'[c] = 0
      /\ conn[c] \in {"fin", "reset"} /\ conn'[c] \in {"fin", "reset", "dead"}
      /\ conn'[c] \in {conn[c], "reset", "dead"}
  BY DEF WriteLost, AfterReset, NetInv, TypeNet, NetFunctions, SameBut, Same
<1>3. /\ g < s /\ L + u + 0 <= t /\ Last(c) <= t - 0 /\ 0 <= Least(Buf, t)
  <2>1. h > 0
    OBVIOUS
  <2> HIDE DEF s, t, h, L, u, g
  <2>2. QED
    BY <1>0, <2>1, NetConstants DEF Least
<1>4. NetBounds(c)'
  BY <1>1, <1>2, <1>3, <1>a DEF NetBounds
<1>5. Good(c)'
  <2>1. Last(c)' = Last(c) /\ Room(c)' = Room(c)
    BY <1>1 DEF Last, Room
  <2>2. QED
    BY <1>1, <1>2, <1>3, <1>a, <2>1 DEF Good
<1>6. QED
  BY <1>1, <1>2, <1>4, <1>5, OneClient DEF Gone

\* SIGPIPE ends the server.
LEMMA WriteKillsKeeps ==
  ASSUME NetInv, kind' = kind, NEW c \in Clients, WriteKills(c)
  PROVE  /\ NetInv' /\ SameBut(c) /\ held'[c] = 0 /\ conn[c] = "dead" /\ got[c] < sent[c]
         /\ UNCHANGED <<conn, sst, sent, taken, out, got, cut>>
<1> DEFINE t == taken[c]
           h == held[c]
           L == Len(out[c])
           u == cut[c]
<1>0. /\ t \in Nat /\ h \in Nat /\ L \in Nat /\ u \in Nat /\ Last(c) \in Nat
      /\ L + u + h <= t /\ Last(c) <= t - h
  BY Numbers
<1>a. NetBounds(c) /\ Good(c)
  BY Numbers
<1>1. /\ UNCHANGED <<conn, sst, sent, taken, out, got, cut>> /\ held' = [held EXCEPT ![c] = 0]
      /\ conn[c] = "dead" /\ alive' = FALSE
  BY DEF WriteKills
<1>2. NetFunctions' /\ SameBut(c) /\ held'[c] = 0
  BY <1>1 DEF NetInv, TypeNet, NetFunctions, SameBut, Same
<1>3. L + u + 0 <= t /\ Last(c) <= t - 0 /\ 0 <= Least(Buf, t)
  <2> HIDE DEF t, h, L, u
  <2>1. QED
    BY <1>0, NetConstants DEF Least
<1>4. NetBounds(c)'
  BY <1>1, <1>2, <1>3, <1>a DEF NetBounds
<1>5. Good(c)'
  <2>1. Last(c)' = Last(c) /\ Room(c)' = Room(c)
    BY <1>1 DEF Last, Room
  <2>2. QED
    BY <1>1, <1>2, <1>3, <1>a, <2>1 DEF Good
<1>6. got[c] < sent[c]
  BY <1>1, <1>a DEF Good
<1>7. QED
  BY <1>1, <1>2, <1>4, <1>5, <1>6, OneClient

-----------------------------------------------------------------------------
(* The clients. *)

LEMMA NetStarts == NetInit => NetInv
<1> SUFFICES ASSUME NetInit PROVE NetInv
  OBVIOUS
<1> USE NetConstants
<1>1. << >> \in Seq(Nat) /\ Len(<< >>) = 0 /\ DOMAIN << >> = {}
  BY EmptySeq
<1>2. NetFunctions
  BY <1>1 DEF NetInit, NetFunctions
<1>3. ASSUME NEW c \in Clients
      PROVE  NetBounds(c) /\ Good(c)
  <2>1. /\ conn[c] = "none" /\ sst[c] = "none" /\ sent[c] = 0 /\ taken[c] = 0 /\ held[c] = 0
        /\ out[c] = << >> /\ got[c] = 0 /\ cut[c] = 0 /\ MaxUnits[c] \in Nat
    BY DEF NetInit
  <2>2. NetBounds(c)
    BY <1>1, <2>1 DEF NetBounds, Least
  <2>3. Last(c) = 0 /\ Room(c) = SndBuf
    BY <1>1, <2>1 DEF Last, Room
  <2>4. QED
    BY <1>1, <2>1, <2>2, <2>3 DEF Good
<1>4. QED
  BY <1>2, <1>3 DEF NetInv, TypeNet

LEMMA ConnectKeeps ==
  ASSUME NetInv, kind' = kind, NEW c \in Clients, Connect(c)
  PROVE  /\ NetInv' /\ SameBut(c) /\ conn[c] = "none" /\ conn'[c] = "open" /\ sst'[c] = "queued"
         /\ Last(c)' = 0 /\ taken'[c] = 0 /\ held'[c] = 0
         /\ UNCHANGED <<alive, sent, taken, held, out, got, cut>>
<1>a. NetBounds(c) /\ Good(c) /\ sent[c] \in Nat /\ taken[c] \in Nat /\ held[c] \in Nat
      /\ Last(c) \in Nat
  BY Numbers
<1>1. /\ UNCHANGED <<alive, sent, taken, held, out, got, cut>> /\ conn[c] = "none"
      /\ NetFunctions' /\ SameBut(c) /\ conn'[c] = "open" /\ sst'[c] = "queued"
  BY DEF Connect, NetInv, TypeNet, NetFunctions, SameBut, Same
<1>2. Last(c)' = Last(c) /\ Room(c)' = Room(c)
  BY <1>1 DEF Last, Room
<1>3. NetBounds(c)' /\ Good(c)'
  BY <1>1, <1>2, <1>a DEF NetBounds, Good
<1>4. taken[c] = 0 /\ held[c] = 0 /\ Last(c) = 0
  <2>1. sent[c] = 0 /\ taken[c] <= sent[c]
    BY <1>1, <1>a DEF NetBounds, Good
  <2>2. taken[c] = 0
    BY <1>a, <2>1
  <2>3. held[c] <= Least(Buf, taken[c]) /\ Last(c) <= taken[c] - held[c]
    BY <1>a DEF NetBounds, Good
  <2>4. held[c] = 0
    BY <1>a, <2>2, <2>3, NetConstants DEF Least
  <2>5. QED
    BY <1>a, <2>2, <2>3, <2>4
<1>5. QED
  BY <1>1, <1>2, <1>3, <1>4, OneClient

LEMMA SendKeeps ==
  ASSUME NetInv, kind' = kind, NEW c \in Clients, Send(c)
  PROVE  /\ NetInv' /\ SameBut(c) /\ sent'[c] = sent[c] + 1 /\ conn[c] = "open"
         /\ Last(c)' = Last(c)
         /\ UNCHANGED <<alive, conn, sst, taken, held, out, got, cut>>
<1>a. NetBounds(c) /\ Good(c) /\ sent[c] \in Nat /\ taken[c] \in Nat /\ got[c] \in Nat
      /\ taken[c] <= sent[c]
  BY Numbers
<1>1. /\ UNCHANGED <<alive, conn, sst, taken, held, out, got, cut>> /\ conn[c] = "open"
      /\ NetFunctions' /\ SameBut(c) /\ sent'[c] = sent[c] + 1 /\ sent[c] < MaxUnits[c]
  BY DEF Send, NetInv, TypeNet, NetFunctions, SameBut, Same
<1>2. Last(c)' = Last(c) /\ Room(c)' = Room(c)
  BY <1>1 DEF Last, Room
<1>3. MaxUnits[c] \in Nat
  BY NetConstants
<1>4. sent[c] + 1 <= MaxUnits[c] /\ taken[c] <= sent[c] + 1
  BY <1>a, <1>1, <1>3
<1>5. NetBounds(c)'
  BY <1>1, <1>4, <1>a DEF NetBounds
<1>6. Good(c)'
  BY <1>1, <1>2, <1>a DEF Good
<1>7. QED
  BY <1>1, <1>2, <1>5, <1>6, OneClient

LEMMA ReceiveKeeps ==
  ASSUME NetInv, kind' = kind, NEW c \in Clients, Receive(c)
  PROVE  /\ NetInv' /\ SameBut(c) /\ conn[c] = "open" /\ Last(c)' = Last(c)
         /\ UNCHANGED <<alive, conn, sst, sent, taken, held, out, cut>>
<1> DEFINE L == Len(out[c])
           g == got[c]
<1>a. NetBounds(c) /\ Good(c) /\ L \in Nat /\ g \in Nat
  BY Numbers
<1>1. /\ UNCHANGED <<alive, conn, sst, sent, taken, held, out, cut>> /\ conn[c] = "open"
      /\ NetFunctions' /\ SameBut(c) /\ got'[c] = g + 1 /\ g < L
  BY DEF Receive, NetInv, TypeNet, NetFunctions, SameBut, Same
<1>2. Last(c)' = Last(c)
  BY <1>1 DEF Last
<1>3. Room(c)' = SndBuf - (L - (g + 1)) /\ Room(c) = SndBuf - (L - g)
  BY <1>1 DEF Room
<1>4. g + 1 <= L /\ (kind # "iocp" => Room(c)' >= 0)
  <2>1. kind # "iocp" => SndBuf - (L - g) >= 0
    BY <1>3, <1>a DEF Good
  <2> HIDE DEF L, g
  <2>2. QED
    BY <1>a, <1>1, <1>3, <2>1, NetConstants
<1>5. NetBounds(c)'
  BY <1>1, <1>4, <1>a DEF NetBounds
<1>6. Good(c)'
  BY <1>1, <1>2, <1>4, <1>a DEF Good
<1>7. QED
  BY <1>1, <1>2, <1>5, <1>6, OneClient

LEMMA LeaveKeeps ==
  ASSUME NetInv, kind' = kind, NEW c \in Clients, Leave(c)
  PROVE  /\ NetInv' /\ SameBut(c) /\ conn[c] = "open" /\ Gone(c)' /\ Last(c)' = Last(c)
         /\ conn'[c] \in {"fin", "reset"}
         /\ UNCHANGED <<alive, sst, sent, taken, held, out, got, cut>>
<1> DEFINE s == sent[c]
           t == taken[c]
           h == held[c]
           u == cut[c]
           L == Len(out[c])
           g == got[c]
<1>0. /\ s \in Nat /\ t \in Nat /\ h \in Nat /\ u \in Nat /\ L \in Nat /\ g \in Nat /\ g <= L
      /\ L + u + h <= t /\ t <= s
  BY Numbers
<1>a. NetBounds(c) /\ Good(c)
  BY Numbers
<1>1. /\ UNCHANGED <<alive, sst, sent, taken, held, out, got, cut>> /\ conn[c] = "open"
      /\ NetFunctions' /\ SameBut(c)
      /\ conn'[c] = IF got[c] = Len(out[c]) THEN "fin" ELSE "reset"
  BY DEF Leave, NetInv, TypeNet, NetFunctions, SameBut, Same
<1>2. Last(c)' = Last(c) /\ Room(c)' = Room(c)
  BY <1>1 DEF Last, Room
<1>3. g # L => g < s
  <2> HIDE DEF s, t, h, u, L, g
  <2>1. QED
    BY <1>0
<1>4. NetBounds(c)'
  BY <1>1, <1>a DEF NetBounds
<1>5. Good(c)'
  BY <1>1, <1>2, <1>3, <1>a DEF Good
<1>6. QED
  BY <1>1, <1>2, <1>4, <1>5, OneClient DEF Gone
=============================================================================
