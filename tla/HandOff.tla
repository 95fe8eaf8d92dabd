------------------------------- MODULE HandOff -------------------------------
(***************************************************************************)
(* What the two threads of semaphore.c and SyncSema_win.c promise, with no *)
(* semaphores in sight: values are entered and added in strict alternation *)
(* and whenever nothing is waiting to be added, sum is the total of        *)
(* everything entered: no value is lost, none is added twice.              *)
(***************************************************************************)
EXTENDS Integers

CONSTANTS
  Rounds,   \* how many values are entered
  Values    \* the values that can be entered

VARIABLES
  entered,  \* values entered so far
  added,    \* values added so far
  total,    \* total of the values entered
  sum       \* total of the values added

vars == <<entered, added, total, sum>>

Init == entered = 0 /\ added = 0 /\ total = 0 /\ sum = 0

Enter ==
  /\ entered = added
  /\ entered < Rounds
  /\ entered' = entered + 1
  /\ \E v \in Values : total' = total + v
  /\ UNCHANGED <<added, sum>>

Add ==
  /\ added < entered
  /\ added' = added + 1
  /\ sum' = total
  /\ UNCHANGED <<entered, total>>

Next == Enter \/ Add

Spec == Init /\ [][Next]_vars /\ WF_vars(Next)
=============================================================================
