--------------------------- MODULE SelectServerWin ---------------------------
(***************************************************************************)
(* echo_selectserv_win.c: the same loop over the arrays of Winsock's       *)
(* fd_set.  select packs the ready sockets to the front of the copy and    *)
(* leaves what is behind them; the loop walks through reads.  At end of    *)
(* file FD_CLR closes the gap in reads, and the socket closed is the one   *)
(* at the same index of the COPY, which need not be the one just read.     *)
(***************************************************************************)
EXTENDS EchoNet

VARIABLES
  pc,         \* "select", "scan", "write", "ended"
  reads,      \* the array of reads: hServSock and clients
  cpyReads,   \* the array of the copy
  ready,      \* how many of its entries select has left valid
  i           \* loop index, from 1 here

selectWinVars == <<pc, reads, cpyReads, ready, i>>

hServSock == 0

Init ==
  /\ pc = "select"
  /\ reads = <<hServSock>>
  /\ cpyReads = << >>
  /\ ready = 0
  /\ i = 1

IsReady(s) == IF s = hServSock THEN Backlog # {} ELSE Readable(s)

Without(seq, k) == SubSeq(seq, 1, k - 1) \o SubSeq(seq, k + 1, Len(seq))

ReadyAt == {k \in DOMAIN reads : IsReady(reads[k])}

\* from numbers the ready entries of reads, in their order.
Packs(from) ==
  /\ \A j, k \in DOMAIN from : j < k => from[j] < from[k]
  /\ ReadyAt = {from[k] : k \in DOMAIN from}

Select ==
  /\ pc = "select"
  /\ ReadyAt # {}
  /\ \A k \in DOMAIN reads : reads[k] # hServSock => sst[reads[k]] # "closed"
  /\ \E n \in DOMAIN reads : \E from \in [1..n -> ReadyAt] :
       /\ Packs(from)
       /\ cpyReads' = [k \in DOMAIN reads |-> IF k <= n THEN reads[from[k]] ELSE reads[k]]
       /\ ready' = n
  /\ i' = 1
  /\ pc' = "scan"
  /\ UNCHANGED <<netVars, reads>>

\* A socket that has been closed is in the set: SOCKET_ERROR, and the program ends.
SelectFails ==
  /\ pc = "select"
  /\ \E k \in DOMAIN reads : reads[k] # hServSock /\ sst[reads[k]] = "closed"
  /\ pc' = "ended"
  /\ alive' = FALSE
  /\ UNCHANGED <<tcp, sst, reads, cpyReads, ready, i>>

IsSet == \E k \in 1..ready : cpyReads[k] = reads[i]

Skip ==
  /\ pc = "scan" /\ i <= Len(reads)
  /\ ~IsSet
  /\ i' = i + 1
  /\ UNCHANGED <<netVars, pc, reads, cpyReads, ready>>

\* The scan is over; what the copy and the index hold no longer matters.
EndScan ==
  /\ pc = "scan" /\ i > Len(reads)
  /\ pc' = "select"
  /\ cpyReads' = << >> /\ ready' = 0 /\ i' = 1
  /\ UNCHANGED <<netVars, reads>>

NextEntry == i' = i + 1 /\ pc' = "scan"

AcceptOne ==
  /\ pc = "scan" /\ i <= Len(reads) /\ IsSet /\ reads[i] = hServSock /\ Backlog # {}
  /\ Accept(NextQueued)
  /\ reads' = Append(reads, NextQueued)
  /\ NextEntry
  /\ UNCHANGED <<cpyReads, ready>>

AtClient == pc = "scan" /\ i <= Len(reads) /\ IsSet /\ reads[i] # hServSock
IsOpen(c) == sst[c] = "open"

ReadSome ==
  /\ AtClient
  /\ IsOpen(reads[i])
  /\ ReadData(reads[i])
  /\ pc' = "write"
  /\ UNCHANGED <<reads, cpyReads, ready, i>>

\* A reset, or a socket closed by mistake: -1, and a send of -1 bytes that fails.
ReadFails ==
  /\ AtClient
  /\ IF IsOpen(reads[i]) THEN ReadReset(reads[i]) ELSE UNCHANGED netVars
  /\ NextEntry
  /\ UNCHANGED <<reads, cpyReads, ready>>

\* The socket at the same index of the copy.
ToClose == cpyReads[i]

ReadZero ==
  /\ AtClient
  /\ IsOpen(reads[i]) /\ AtEof(reads[i])
  /\ reads' = Without(reads, i)
  /\ Close(ToClose)
  /\ NextEntry
  /\ UNCHANGED <<cpyReads, ready>>

Write ==
  /\ pc = "write"
  /\ WriteOne(reads[i]) \/ WriteLost(reads[i])
  /\ IF held'[reads[i]] = 0 THEN NextEntry ELSE UNCHANGED <<pc, i>>
  /\ UNCHANGED <<reads, cpyReads, ready>>

Step ==
  \/ Select \/ SelectFails \/ Skip \/ EndScan \/ AcceptOne
  \/ ReadSome \/ ReadFails \/ ReadZero \/ Write

Waits ==
  /\ pc = "scan" /\ i <= Len(reads) /\ IsSet
  /\ IF reads[i] = hServSock THEN Backlog = {} ELSE NothingToRead(reads[i])

TypeOK ==
  /\ pc \in {"select", "scan", "write", "ended"}
  /\ reads \in Seq(Clients \cup {hServSock})
  /\ cpyReads \in Seq(Clients \cup {hServSock})
  /\ ready \in 0..Len(cpyReads)
  /\ i \in 1..Len(MaxUnits) + 2
=============================================================================
