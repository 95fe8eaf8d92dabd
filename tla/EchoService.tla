----------------------------- MODULE EchoService -----------------------------
(***************************************************************************)
(* What an echo server promises a client, whatever calls it is made of:    *)
(* the client's own units, in order, each once, nothing else.  A server    *)
(* that does not wait for room in a send buffer may leave units out.       *)
(***************************************************************************)
EXTENDS Naturals, Sequences

CONSTANT Clients

VARIABLES
  sent,   \* units 1..sent[c] have been sent by c
  out,    \* units written back to c
  lossy   \* whether the server may leave units out

Init ==
  /\ sent = [c \in Clients |-> 0]
  /\ out = [c \in Clients |-> << >>]
  /\ lossy \in BOOLEAN

Submit(c) ==
  /\ sent' = [sent EXCEPT ![c] = @ + 1]
  /\ UNCHANGED <<out, lossy>>

LastOf(s) == IF s = << >> THEN 0 ELSE s[Len(s)]

\* A run of units that have been sent and not been written back.
Echo(c) ==
  /\ \E first \in LastOf(out[c]) + 1..sent[c] :
       /\ first = LastOf(out[c]) + 1 \/ lossy
       /\ \E n \in 1..sent[c] + 1 - first :
            out' = [out EXCEPT ![c] = @ \o [j \in 1..n |-> first + j - 1]]
  /\ UNCHANGED <<sent, lossy>>

Next == \E c \in Clients : Submit(c) \/ Echo(c)

Spec == Init /\ [][Next]_<<sent, out, lossy>>
=============================================================================
