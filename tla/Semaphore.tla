------------------------------ MODULE Semaphore ------------------------------
(***************************************************************************)
(* semaphore.c of chapter 18, and SyncSema_win.c of chapter 20: one thread *)
(* reads Rounds numbers into the global num, the other adds them up, and   *)
(* two semaphores make them take turns.  The Windows version differs in    *)
(* that its semaphores are created with a maximum count of 1.              *)
(***************************************************************************)
EXTENDS Integers

CONSTANTS
  Rounds,   \* 5 in both programs
  Inputs,   \* the numbers the user may type
  SemMax    \* 1 on Windows, SEM_VALUE_MAX on Linux

ASSUME SemaphoreAssumption ==
  /\ Rounds \in Nat
  /\ Inputs \subseteq Int
  /\ SemMax \in Nat \ {0}

VARIABLES
  sem_one,  \* counts numbers waiting to be added
  sem_two,  \* counts free places for a number
  num,      \* the global that both threads use
  pcR, iR,  \* the reading thread and its loop index
  pcA, iA,  \* the adding thread and its loop index
  sum,      \* the adding thread's local
  total     \* history: total of what num held after each scanf

reader == <<pcR, iR>>
adder  == <<pcA, iA, sum>>
vars   == <<sem_one, sem_two, num, reader, adder, total>>

InitTwoFree == sem_two = 2
InitOneFree == sem_two = 1

Init ==
  /\ sem_one = 0
  /\ InitOneFree
  /\ num = 0
  /\ pcR = "wait" /\ iR = 0
  /\ pcA = "wait" /\ iA = 0
  /\ sum = 0
  /\ total = 0

\* A semaphore's count after a post; on Windows a post at the maximum fails.
Posted(sem) == IF sem < SemMax THEN sem + 1 ELSE sem

-----------------------------------------------------------------------------
(* The reading thread. *)

ReadWaitsNot ==
  /\ pcR = "wait" /\ iR < Rounds
  /\ sem_two' = sem_two - 1
  /\ pcR' = "scan"
  /\ UNCHANGED <<sem_one, num, iR, adder, total>>

ReadWait ==
  /\ pcR = "wait" /\ iR < Rounds
  /\ sem_two > 0
  /\ sem_two' = sem_two - 1
  /\ pcR' = "scan"
  /\ UNCHANGED <<sem_one, num, iR, adder, total>>

\* scanf stores a number, or fails (no number typed, end of input) and leaves
\* num alone; the code does not look at its result.
Scan ==
  /\ pcR = "scan"
  /\ num' \in Inputs \cup {num}
  /\ total' = total + num'
  /\ pcR' = "post"
  /\ UNCHANGED <<sem_one, sem_two, iR, adder>>

ReadPost ==
  /\ pcR = "post"
  /\ sem_one' = Posted(sem_one)
  /\ pcR' = "wait"
  /\ iR' = iR + 1
  /\ UNCHANGED <<sem_two, num, adder, total>>

Reader == ReadWait \/ Scan \/ ReadPost

-----------------------------------------------------------------------------
(* The adding thread. *)

AccuWaitsNot ==
  /\ pcA = "wait" /\ iA < Rounds
  /\ pcA' = "add"
  /\ UNCHANGED <<sem_one, sem_two, num, reader, iA, sum, total>>

AccuWait ==
  /\ pcA = "wait" /\ iA < Rounds
  /\ sem_one > 0
  /\ sem_one' = sem_one - 1
  /\ pcA' = "add"
  /\ UNCHANGED <<sem_two, num, reader, iA, sum, total>>

Accumulate ==
  /\ pcA = "add"
  /\ sum' = sum + num
  /\ pcA' = "post"
  /\ UNCHANGED <<sem_one, sem_two, num, reader, iA, total>>

AccuPost ==
  /\ pcA = "post"
  /\ sem_two' = Posted(sem_two)
  /\ pcA' = "wait"
  /\ iA' = iA + 1
  /\ UNCHANGED <<sem_one, num, reader, sum, total>>

Adder == AccuWait \/ Accumulate \/ AccuPost

\* Both loops are over and main has joined both threads.
Finished == iR = Rounds /\ iA = Rounds /\ UNCHANGED vars

Next == Reader \/ Adder \/ Finished

\* Both threads are scheduled and scanf returns.
Spec == Init /\ [][Next]_vars /\ WF_vars(Reader) /\ WF_vars(Adder)

-----------------------------------------------------------------------------
(* Properties *)

TypeOK ==
  /\ sem_one \in 0..SemMax /\ sem_two \in 0..SemMax
  /\ num \in Inputs \cup {0}
  /\ pcR \in {"wait", "scan", "post"} /\ iR \in 0..Rounds
  /\ pcA \in {"wait", "add", "post"} /\ iA \in 0..Rounds
  /\ sum \in Int /\ total \in Int

\* There is one token: on one of the semaphores, or with one of the threads.  So
\* num is never read while it is being overwritten, no post is lost at a maximum
\* of 1, and both programs behave alike.
InTurn(pc) == IF pc = "wait" THEN 0 ELSE 1
OneToken == sem_one + sem_two + InTurn(pcR) + InTurn(pcA) = 1

\* The two semaphores implement the strict alternation of HandOff: a value is
\* entered when scanf returns and added when sum has it.
HO == INSTANCE HandOff WITH
        Values  <- Inputs \cup {0},
        entered <- IF pcR = "post" THEN iR + 1 ELSE iR,
        added   <- IF pcA = "post" THEN iA + 1 ELSE iA

\* Every number reaches sum exactly once, before the next is read, in whatever
\* order the threads run; and all Rounds of them do.
ImplementsHandOff == HO!Spec
=============================================================================
