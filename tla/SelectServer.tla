---------------------------- MODULE SelectServer ----------------------------
(***************************************************************************)
(* echo_selectserv.c: one process that copies the set of its descriptors,  *)
(* has select reduce the copy to those that are readable, and goes through *)
(* the numbers 0..fd_max.  The listening socket has the lowest number, a   *)
(* connection gets the lowest free one, and close frees it for the next.   *)
(***************************************************************************)
EXTENDS EchoNet

VARIABLES
  pc,         \* "select", "scan", "write"
  fdtab,      \* descriptor -> client, serv_sock or none
  reads, cpy_reads,
  fd_max, i

selectVars == <<pc, fdtab, reads, cpy_reads, fd_max, i>>

serv_sock == 0
Nobody    == 0
Fds       == 0..Len(MaxUnits)    \* the lowest descriptors; 0 stands for serv_sock's

Init ==
  /\ pc = "select"
  /\ fdtab = [f \in Fds |-> Nobody]
  /\ reads = {serv_sock}
  /\ cpy_reads = {}
  /\ fd_max = serv_sock
  /\ i = 0

FdReadable(f) == IF f = serv_sock THEN Backlog # {} ELSE Readable(fdtab[f])

WaitReturnsAll   == reads
WaitReturnsReady == {f \in reads : FdReadable(f)}

\* select with a timeout of 5 seconds: it returns with something to do, or the
\* timeout is over and the loop starts again, which changes nothing.
Select ==
  /\ pc = "select"
  /\ \E f \in reads : FdReadable(f)
  /\ cpy_reads' = WaitReturnsReady
  /\ i' = 0
  /\ pc' = "scan"
  /\ UNCHANGED <<netVars, fdtab, reads, fd_max>>

\* FD_ISSET is false for i.
Skip ==
  /\ pc = "scan" /\ i <= fd_max
  /\ i \notin cpy_reads
  /\ i' = i + 1
  /\ UNCHANGED <<netVars, pc, fdtab, reads, cpy_reads, fd_max>>

\* The scan is over; what the copy and the index hold no longer matters.
EndScan ==
  /\ pc = "scan" /\ i > fd_max
  /\ pc' = "select"
  /\ cpy_reads' = {} /\ i' = 0
  /\ UNCHANGED <<netVars, fdtab, reads, fd_max>>

NextFd == i' = i + 1 /\ pc' = "scan"

IsFree(f) == fdtab[f] = Nobody
IsLowestFree(f) == IsFree(f) /\ \A g \in 1..f - 1 : ~IsFree(g)

AcceptOne ==
  /\ pc = "scan" /\ i \in cpy_reads /\ i = serv_sock /\ Backlog # {}
  /\ Accept(NextQueued)
  /\ \E f \in Fds \ {serv_sock} :
       /\ IsLowestFree(f)
       /\ fdtab' = [fdtab EXCEPT ![f] = NextQueued]
       /\ reads' = reads \cup {f}
       /\ fd_max' = IF fd_max < f THEN f ELSE fd_max
  /\ NextFd
  /\ UNCHANGED cpy_reads

AtClient == pc = "scan" /\ i \in cpy_reads /\ i # serv_sock

ReadSome ==
  /\ AtClient
  /\ ReadData(fdtab[i])
  /\ pc' = "write"
  /\ UNCHANGED <<fdtab, reads, cpy_reads, fd_max, i>>

\* str_len is -1, so the write that follows is refused; the socket is kept and
\* the next select finds its end of file.
ReadFails ==
  /\ AtClient
  /\ ReadReset(fdtab[i])
  /\ NextFd
  /\ UNCHANGED <<fdtab, reads, cpy_reads, fd_max>>

ReadZero ==
  /\ AtClient
  /\ AtEof(fdtab[i])
  /\ Close(fdtab[i])
  /\ fdtab' = [fdtab EXCEPT ![i] = Nobody]
  /\ reads' = reads \ {i}
  /\ NextFd
  /\ UNCHANGED <<cpy_reads, fd_max>>

\* write(i, buf, str_len), until all of it has gone.
Write ==
  /\ pc = "write"
  /\ WriteBlocking(fdtab[i])
  /\ IF held'[fdtab[i]] = 0 THEN NextFd ELSE UNCHANGED <<pc, i>>
  /\ UNCHANGED <<fdtab, reads, cpy_reads, fd_max>>

Step ==
  \/ Select \/ Skip \/ EndScan \/ AcceptOne
  \/ ReadSome \/ ReadFails \/ ReadZero \/ Write

\* The process has called accept or read and nothing is there.
Waits ==
  \/ pc = "scan" /\ i \in cpy_reads /\ i = serv_sock /\ Backlog = {}
  \/ AtClient /\ NothingToRead(fdtab[i])

TypeOK ==
  /\ pc \in {"select", "scan", "write"}
  /\ fdtab \in [Fds -> Clients \cup {Nobody}]
  /\ reads \subseteq Fds /\ cpy_reads \subseteq Fds
  /\ fd_max \in Fds /\ i \in 0..Len(MaxUnits) + 1
=============================================================================
