--------------------------- MODULE SemaphoreProofs ---------------------------
(***************************************************************************)
(* The two semaphores make the threads take turns and lose no number, for  *)
(* any number of rounds and any numbers typed.                             *)
(***************************************************************************)
EXTENDS Semaphore, TLAPS

\* A number has been read and not yet added exactly while it is about to be
\* posted, posted, or taken by the adding thread; sum lags behind by that number.
Waiting == pcR = "post" \/ sem_one = 1 \/ pcA = "add"

SumInv ==
  /\ iR = IF sem_one = 1 \/ pcA # "wait" THEN iA + 1 ELSE iA
  /\ total = IF Waiting THEN sum + num ELSE sum
  /\ pcR # "wait" => iR < Rounds
  /\ pcA # "wait" => iA < Rounds

IInv == TypeOK /\ OneToken /\ SumInv

-----------------------------------------------------------------------------

LEMMA InitInv == Init => IInv
BY SemaphoreAssumption DEF Init, InitOneFree, IInv, TypeOK, OneToken, InTurn, SumInv, Waiting

\* Every step keeps the invariant.
LEMMA StepInv == IInv /\ [Next]_vars => IInv'
<1> SUFFICES ASSUME IInv, [Next]_vars PROVE IInv'
  OBVIOUS
<1> USE SemaphoreAssumption DEF IInv, TypeOK, OneToken, InTurn, SumInv, Waiting,
        reader, adder
<1>1. CASE ReadWait
  BY <1>1 DEF ReadWait
<1>2. CASE Scan
  BY <1>2 DEF Scan
<1>3. CASE ReadPost
  BY <1>3 DEF ReadPost, Posted
<1>4. CASE AccuWait
  BY <1>4 DEF AccuWait
<1>5. CASE Accumulate
  BY <1>5 DEF Accumulate
<1>6. CASE AccuPost
  BY <1>6 DEF AccuPost, Posted
<1>7. CASE UNCHANGED vars
  BY <1>7 DEF vars
<1>8. QED
  BY <1>1, <1>2, <1>3, <1>4, <1>5, <1>6, <1>7 DEF Next, Reader, Adder, Finished

LEMMA Invariance == Spec => []IInv
BY InitInv, StepInv, PTL DEF Spec

\* Types and ranges, for any number of rounds: no semaphore exceeds its maximum.
THEOREM TypeCorrect == Spec => []TypeOK
<1>1. IInv => TypeOK
  BY DEF IInv
<1>2. QED
  BY <1>1, Invariance, PTL

\* The threads take turns: one token, whatever the maximum of the semaphores.
THEOREM TakingTurns == Spec => []OneToken
<1>1. IInv => OneToken
  BY DEF IInv
<1>2. QED
  BY <1>1, Invariance, PTL

\* The program implements the alternation of HandOff: initial states map to
\* initial states, and every step enters a number, adds one, or stutters.
THEOREM Refinement == Spec => HO!Init /\ [][HO!Next]_(HO!vars)
<1>1. Init => HO!Init
  BY DEF Init, HO!Init
<1>2. IInv /\ [Next]_vars => [HO!Next]_(HO!vars)
  <2> SUFFICES ASSUME IInv, [Next]_vars PROVE [HO!Next]_(HO!vars)
    OBVIOUS
  <2> USE SemaphoreAssumption DEF IInv, TypeOK, OneToken, InTurn, SumInv, Waiting,
          reader, adder, HO!vars
  <2>1. CASE ReadWait
    BY <2>1 DEF ReadWait
  <2>2. CASE Scan
    <3>a. num' \in Inputs \cup {0} /\ total' = total + num'
      BY <2>2 DEF Scan
    <3>b. \E v \in Inputs \cup {0} : total' = total + v
      BY <3>a
    <3>1. pcR = "scan" /\ pcA = "wait" /\ iR = iA /\ iR < Rounds
      BY <2>2 DEF Scan
    <3>2. pcR' = "post" /\ iR' = iR /\ iA' = iA /\ pcA' = pcA /\ sum' = sum
      BY <2>2 DEF Scan
    <3>3. HO!Enter
      <4> HIDE DEF IInv, TypeOK, OneToken, InTurn, SumInv, Waiting
      <4>1. iR \in Nat /\ Rounds \in Nat
        BY DEF IInv, TypeOK
      <4>2. QED
        BY <3>b, <3>1, <3>2, <4>1 DEF HO!Enter
    <3>4. QED
      BY <3>3 DEF HO!Next
  <2>3. CASE ReadPost
    BY <2>3 DEF ReadPost
  <2>4. CASE AccuWait
    BY <2>4 DEF AccuWait
  <2>5. CASE Accumulate
    <3>1. HO!Add
      BY <2>5 DEF Accumulate, HO!Add
    <3>2. QED
      BY <3>1 DEF HO!Next
  <2>6. CASE AccuPost
    BY <2>6 DEF AccuPost
  <2>7. CASE UNCHANGED vars
    BY <2>7 DEF vars
  <2>8. QED
    BY <2>1, <2>2, <2>3, <2>4, <2>5, <2>6, <2>7 DEF Next, Reader, Adder, Finished
<1>3. QED
  BY <1>1, <1>2, Invariance, PTL DEF Spec
=============================================================================
