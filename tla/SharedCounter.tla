---------------------------- MODULE SharedCounter ----------------------------
(***************************************************************************)
(* The shared-counter programs: main creates threads that add to or        *)
(* subtract from the global num, waits for all of them and prints num.     *)
(* They differ in what the threads hold the lock over: mutex.c takes it    *)
(* around the whole loop in thread_inc and around each subtraction in      *)
(* thread_des; SyncCS_win.c (a critical section) and SyncMutex_win.c (a    *)
(* mutex object) take it around both loops; thread4.c and thread3_win.c    *)
(* take none.  num += 1 is a load and a store.                             *)
(***************************************************************************)
EXTENDS Integers

CONSTANTS
  NUM_THREAD,  \* 100 in mutex.c, 50 in the Windows programs
  Loops,       \* iterations of a thread's loop: 50000, 500000
  Programs     \* the programs to run: each says what its two thread functions lock

Locking == {"none", "each", "loop"}

ASSUME CounterAssumption ==
  /\ NUM_THREAD \in Nat \ {0}
  /\ Loops \in Nat \ {0}
  /\ Programs \subseteq [inc : Locking, des : Locking]

mutex_c       == [inc |-> "loop", des |-> "each"]
SyncCS_win    == [inc |-> "loop", des |-> "loop"]
SyncMutex_win == [inc |-> "loop", des |-> "loop"]
thread4_c     == [inc |-> "none", des |-> "none"]

Threads == 1..NUM_THREAD
Free    == 0

VARIABLES
  program,  \* the program that runs
  created,  \* main: threads created so far
  printed,  \* main: the result has been printed
  result,   \* main: what was printed
  mutex,    \* the thread that holds the lock
  num,      \* the shared counter
  pc,       \* where thread t is
  reg,      \* the value of num thread t has loaded
  left,     \* iterations thread t still has to make
  total     \* history: what num would be if every update took effect

main    == <<created, printed, result>>
thread  == <<pc, reg, left>>
vars    == <<program, main, mutex, num, thread, total>>

Init ==
  /\ program \in Programs
  /\ created = 0 /\ printed = FALSE /\ result = 0
  /\ mutex = Free
  /\ num = 0
  /\ pc = [t \in Threads |-> "none"]
  /\ reg = [t \in Threads |-> 0]
  /\ left = [t \in Threads |-> Loops]
  /\ total = 0

\* Every other thread increments, starting with a decrementing one (i % 2).
IsInc(t)  == t % 2 = 0
Delta(t)  == IF IsInc(t) THEN 1 ELSE -1
Guard(t)  == IF IsInc(t) THEN program.inc ELSE program.des

-----------------------------------------------------------------------------
(* main *)

Create ==
  /\ created < NUM_THREAD
  /\ created' = created + 1
  /\ pc' = [pc EXCEPT ![created'] = IF Guard(created') = "none" THEN "load" ELSE "enter"]
  /\ UNCHANGED <<program, printed, result, mutex, num, reg, left, total>>

LastDone == pc[NUM_THREAD] = "done"
AllDone  == \A t \in Threads : pc[t] = "done"

\* Join every thread, then print.
Join ==
  /\ created = NUM_THREAD
  /\ AllDone
  /\ ~printed
  /\ printed' = TRUE
  /\ result' = num
  /\ UNCHANGED <<program, created, mutex, num, thread, total>>

-----------------------------------------------------------------------------
(* the threads *)

NotChecked == TRUE
LockFree   == mutex = Free

Enter(t) ==
  /\ pc[t] = "enter"
  /\ LockFree
  /\ mutex' = t
  /\ pc' = [pc EXCEPT ![t] = "load"]
  /\ UNCHANGED <<program, main, num, reg, left, total>>

Load(t) ==
  /\ pc[t] = "load"
  /\ reg' = [reg EXCEPT ![t] = num]
  /\ pc' = [pc EXCEPT ![t] = "store"]
  /\ UNCHANGED <<program, main, mutex, num, left, total>>

AfterOneMore(t, n) ==
  IF Guard(t) = "each" THEN "leave"
  ELSE IF n >= 0 THEN "load" ELSE IF Guard(t) = "loop" THEN "leave" ELSE "done"

\* Where a thread goes once it has stored and n iterations are left.
After(t, n) ==
  IF Guard(t) = "each" THEN "leave"
  ELSE IF n > 0 THEN "load" ELSE IF Guard(t) = "loop" THEN "leave" ELSE "done"

Store(t) ==
  /\ pc[t] = "store"
  /\ num' = reg[t] + Delta(t)
  /\ total' = total + Delta(t)
  /\ left' = [left EXCEPT ![t] = @ - 1]
  /\ pc' = [pc EXCEPT ![t] = After(t, left[t] - 1)]
  /\ UNCHANGED <<program, main, mutex, reg>>

ReleaseForgotten == UNCHANGED mutex
Release          == mutex' = Free

Leave(t) ==
  /\ pc[t] = "leave"
  /\ Release
  /\ pc' = [pc EXCEPT ![t] = IF left[t] > 0 THEN "enter" ELSE "done"]
  /\ UNCHANGED <<program, main, num, reg, left, total>>

ThreadStep(t) == Enter(t) \/ Load(t) \/ Store(t) \/ Leave(t)

\* main has returned.
Finished == printed /\ UNCHANGED vars

Next == Create \/ Join \/ (\E t \in Threads : ThreadStep(t)) \/ Finished

\* main and every thread are scheduled.
Spec ==
  /\ Init /\ [][Next]_vars
  /\ WF_vars(Create \/ Join)
  /\ \A t \in Threads : WF_vars(ThreadStep(t))

-----------------------------------------------------------------------------
(* Properties *)

TypeOK ==
  /\ program \in Programs
  /\ created \in 0..NUM_THREAD
  /\ printed \in BOOLEAN /\ result \in Int
  /\ mutex \in Threads \cup {Free}
  /\ num \in Int /\ total \in Int
  /\ pc \in [Threads -> {"none", "enter", "load", "store", "leave", "done"}]
  /\ reg \in [Threads -> Int]
  /\ left \in [Threads -> 0..Loops]

\* No update of num is lost, whichever threads compete and whether they hold the
\* lock for one iteration or for all: num is the total of the updates made.
NoLostUpdate == num = total

\* What chapters 18 and 20 show as the output, "result: 0" for an even number of
\* threads: everything the threads added and subtracted, printed after the last
\* of them has finished.
ResultPrinted ==
  printed => result = (IF NUM_THREAD % 2 = 0 THEN 0 ELSE -Loops)

\* A thread that waits for the lock gets it, and main prints in the end: no
\* thread keeps the lock or is shut out by those that take it again and again.
Terminates == <>printed
=============================================================================
