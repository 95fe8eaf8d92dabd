------------------------- MODULE SharedCounterProofs -------------------------
(***************************************************************************)
(* Every program whose two thread functions take the lock keeps every      *)
(* update, for any number of threads and of iterations, and so prints what *)
(* the threads added and subtracted.                                       *)
(***************************************************************************)
EXTENDS SharedCounter, FiniteSetTheorems, FunctionTheorems, TLAPS

\* All the programs take the lock in both functions.
AllLock == \A p \in Programs : p.inc # "none" /\ p.des # "none"

\* Exactly the thread between its lock and its unlock holds the lock.
MutexInv == \A t \in Threads : mutex = t <=> pc[t] \in {"load", "store", "leave"}

\* What a thread has loaded is still what num holds when it stores.
RegInv == \A t \in Threads : pc[t] = "store" => reg[t] = num

\* A thread that has not finished its loop has iterations to make.
LeftInv ==
  \A t \in Threads : pc[t] \in {"none", "enter", "load", "store"} => left[t] > 0

\* Threads not created yet have not begun.
CreatedInv == \A t \in Threads : t > created => pc[t] = "none"

TypeInv == TypeOK /\ LeftInv /\ CreatedInv
SafeInv == MutexInv /\ RegInv /\ NoLostUpdate

-----------------------------------------------------------------------------

LEMMA TypeInit == Init => TypeInv
<1> SUFFICES ASSUME Init PROVE TypeInv
  OBVIOUS
<1> USE CounterAssumption DEF Init
<1>1. TypeOK
  <2>1. created \in 0..NUM_THREAD /\ Loops \in 0..Loops
    OBVIOUS
  <2>2. left \in [Threads -> 0..Loops]
    BY <2>1
  <2>3. printed \in BOOLEAN
    OBVIOUS
  <2>4. pc \in [Threads -> {"none", "enter", "load", "store", "leave", "done"}]
    OBVIOUS
  <2>5. reg \in [Threads -> Int] /\ result \in Int
    OBVIOUS
  <2>6. QED
    BY <2>1, <2>2, <2>3, <2>4, <2>5 DEF TypeOK
<1>2. LeftInv /\ CreatedInv
  BY DEF LeftInv, CreatedInv
<1>3. QED
  BY <1>1, <1>2 DEF TypeInv

LEMMA DeltaType == \A t \in Threads : Delta(t) \in Int
BY DEF Delta

\* Where a thread goes after a store, by how much it locks.
LEMMA AfterType ==
  ASSUME NEW t \in Threads, NEW n \in Nat
  PROVE  /\ After(t, n) \in {"load", "leave", "done"}
         /\ After(t, n) = "load" => n > 0
         /\ After(t, n) = "done" => n = 0
         /\ Guard(t) \in {"each", "loop"} => After(t, n) # "done"
<1>1. CASE Guard(t) = "each"
  BY <1>1 DEF After
<1>2. CASE Guard(t) # "each" /\ n > 0
  BY <1>2 DEF After
<1>3. CASE Guard(t) = "loop" /\ ~(n > 0)
  BY <1>3 DEF After
<1>4. CASE Guard(t) # "each" /\ Guard(t) # "loop" /\ ~(n > 0)
  BY <1>4 DEF After
<1>5. QED
  BY <1>1, <1>2, <1>3, <1>4

\* Every step keeps types and ranges, whatever the programs lock.
LEMMA TypeStep == TypeInv /\ [Next]_vars => TypeInv'
<1> SUFFICES ASSUME TypeInv, [Next]_vars PROVE TypeInv'
  OBVIOUS
<1> USE CounterAssumption DEF TypeInv, TypeOK, LeftInv, CreatedInv, Threads, Free, main, thread
<1>1. CASE Create
  <2>1. created' \in Threads /\ created' \in 0..NUM_THREAD
    BY <1>1 DEF Create
  <2>2. pc[created'] = "none"
    BY <1>1, <2>1 DEF Create
  <2>3. pc' \in [Threads -> {"none", "enter", "load", "store", "leave", "done"}]
    BY <1>1, <2>1 DEF Create
  <2>4. LeftInv' /\ CreatedInv'
    BY <1>1, <2>1, <2>2 DEF Create
  <2>5. QED
    BY <1>1, <2>1, <2>3, <2>4 DEF Create
<1>2. CASE Join
  BY <1>2 DEF Join
<1>3. ASSUME NEW t \in Threads, Enter(t) PROVE TypeInv'
  BY <1>3 DEF Enter, LockFree
<1>4. ASSUME NEW t \in Threads, Load(t) PROVE TypeInv'
  BY <1>4 DEF Load
<1>5. ASSUME NEW t \in Threads, Store(t) PROVE TypeInv'
  <2>1. left[t] \in Nat /\ left[t] > 0 /\ left[t] <= Loops /\ left[t] - 1 \in 0..Loops
    BY <1>5 DEF Store
  <2>2. /\ After(t, left[t] - 1) \in {"load", "leave", "done"}
        /\ After(t, left[t] - 1) = "load" => left[t] - 1 > 0
    BY <2>1, AfterType
  <2>3. num' \in Int /\ total' \in Int
    <3>1. num' = reg[t] + Delta(t) /\ total' = total + Delta(t)
      BY <1>5 DEF Store
    <3>2. reg[t] \in Int /\ total \in Int /\ Delta(t) \in Int
      BY DeltaType
    <3>3. QED
      BY ONLY <3>1, <3>2, SMT
  <2>4. /\ left' \in [Threads -> 0..Loops]
        /\ pc' \in [Threads -> {"none", "enter", "load", "store", "leave", "done"}]
    <3>1. left' = [left EXCEPT ![t] = left[t] - 1]
      BY <1>5 DEF Store
    <3>2. pc' = [pc EXCEPT ![t] = After(t, left[t] - 1)]
      BY <1>5 DEF Store
    <3>3. QED
      BY <2>1, <2>2, <3>1, <3>2
  <2>5. LeftInv'
    BY <1>5, <2>1, <2>2 DEF Store
  <2>6. CreatedInv'
    BY <1>5, <2>2 DEF Store
  <2>7. QED
    BY <1>5, <2>3, <2>4, <2>5, <2>6 DEF Store
<1>6. ASSUME NEW t \in Threads, Leave(t) PROVE TypeInv'
  BY <1>6 DEF Leave, Release
<1>7. CASE UNCHANGED vars
  BY <1>7 DEF vars
<1>8. QED
  BY <1>1, <1>2, <1>3, <1>4, <1>5, <1>6, <1>7 DEF Next, ThreadStep, Finished

\* Types and ranges: no thread makes more iterations than its loop has.
THEOREM TypeCorrect == Spec => []TypeOK
<1>1. TypeInv => TypeOK
  BY DEF TypeInv
<1>2. QED
  BY TypeInit, TypeStep, <1>1, PTL DEF Spec
-----------------------------------------------------------------------------

LEMMA SafeInit == Init => SafeInv
BY DEF Init, SafeInv, MutexInv, RegInv, NoLostUpdate, Threads, Free

\* In a program that locks, a thread's guard is one of the two kinds.
LEMMA GuardType ==
  ASSUME AllLock, TypeOK, NEW t \in Threads
  PROVE  Guard(t) \in {"each", "loop"}
BY CounterAssumption DEF AllLock, TypeOK, Guard, Locking

\* Every step of a program that locks keeps num equal to the history.
LEMMA SafeStep ==
  ASSUME AllLock, TypeInv, SafeInv, [Next]_vars
  PROVE  SafeInv'
<1> USE CounterAssumption DEF TypeInv, TypeOK, Threads, Free, main, thread
<1> USE DEF SafeInv, MutexInv, RegInv, NoLostUpdate
<1>1. CASE Create
  <2>1. created' \in Threads /\ pc[created'] = "none"
    BY <1>1 DEF Create, CreatedInv
  <2>2. pc' = [pc EXCEPT ![created'] = "enter"]
    BY <1>1, <2>1, GuardType DEF Create
  <2>3. QED
    BY <1>1, <2>1, <2>2 DEF Create
<1>2. CASE Join
  BY <1>2 DEF Join
<1>3. ASSUME NEW t \in Threads, Enter(t) PROVE SafeInv'
  BY <1>3 DEF Enter, LockFree
<1>4. ASSUME NEW t \in Threads, Load(t) PROVE SafeInv'
  BY <1>4 DEF Load
<1>5. ASSUME NEW t \in Threads, Store(t) PROVE SafeInv'
  <2>1. left[t] - 1 \in Nat
    BY <1>5 DEF Store, LeftInv
  <2>2. After(t, left[t] - 1) \in {"load", "leave"}
    BY <2>1, AfterType, GuardType
  <2>3. num' = total'
    BY <1>5, DeltaType DEF Store
  <2>4. mutex' = t /\ mutex = t /\ mutex' = mutex
    BY <1>5 DEF Store
  <2>5. \A s \in Threads : pc'[s] = IF s = t THEN After(t, left[t] - 1) ELSE pc[s]
    BY <1>5 DEF Store
  <2>6. MutexInv'
    BY <2>2, <2>4, <2>5
  <2>7. RegInv'
    BY <2>2, <2>4, <2>5
  <2>8. QED
    BY <2>3, <2>6, <2>7
<1>6. ASSUME NEW t \in Threads, Leave(t) PROVE SafeInv'
  BY <1>6 DEF Leave, Release
<1>7. CASE UNCHANGED vars
  BY <1>7 DEF vars
<1>8. QED
  BY <1>1, <1>2, <1>3, <1>4, <1>5, <1>6, <1>7 DEF Next, ThreadStep, Finished

\* mutex.c, SyncCS_win.c and SyncMutex_win.c lose no update, for any number of
\* threads and iterations: in general, no program does whose two thread functions
\* both take the lock, for one iteration or for the whole loop.
THEOREM UpdatesKept == ASSUME AllLock PROVE Spec => []NoLostUpdate
<1>1. Init => TypeInv /\ SafeInv
  BY TypeInit, SafeInit
<1>2. (TypeInv /\ SafeInv) /\ [Next]_vars => (TypeInv /\ SafeInv)'
  BY TypeStep, SafeStep
<1>3. SafeInv => NoLostUpdate
  BY DEF SafeInv
<1>4. QED
  BY <1>1, <1>2, <1>3, PTL DEF Spec

\* The three programs of the run are programs that lock.
THEOREM ProgramsLock ==
  ASSUME Programs = {mutex_c, SyncCS_win, SyncMutex_win} PROVE AllLock
BY DEF AllLock, mutex_c, SyncCS_win, SyncMutex_win

-----------------------------------------------------------------------------
(* What main prints.  total is counted by the iterations that the threads  *)
(* have made: one pair of a thread and an iteration for each, so that a    *)
(* store adds one pair to the set of its thread's kind.                    *)

Incs    == {t \in Threads : IsInc(t)}
Decs    == {t \in Threads : ~IsInc(t)}
Made(S) == {p \in S \X (1..Loops) : p[2] > left[p[1]]}

CountInv == total = Cardinality(Made(Incs)) - Cardinality(Made(Decs))

\* A thread that has ended has made all its iterations.
DoneInv == \A t \in Threads : pc[t] = "done" => left[t] = 0

PrintInv == ResultPrinted

LEMMA FiniteThreads ==
  /\ IsFiniteSet(Incs) /\ IsFiniteSet(Decs)
  /\ Cardinality(Incs) \in Nat /\ Cardinality(Decs) \in Nat
  /\ IsFiniteSet(1..Loops) /\ Cardinality(1..Loops) = Loops
<1> USE CounterAssumption
<1>1. IsFiniteSet(Threads)
  BY FS_Interval DEF Threads
<1>2. IsFiniteSet(Incs) /\ IsFiniteSet(Decs)
  <2>1. Incs \in SUBSET Threads /\ Decs \in SUBSET Threads
    BY DEF Incs, Decs
  <2>2. QED
    BY <1>1, <2>1, FS_Subset
<1>3. Cardinality(Incs) \in Nat /\ Cardinality(Decs) \in Nat
  BY <1>2, FS_CardinalityType
<1>4. IsFiniteSet(1..Loops) /\ Cardinality(1..Loops) = Loops
  <2>1. 1 \in Int /\ Loops \in Int /\ ~(1 > Loops) /\ Loops - 1 + 1 = Loops
    OBVIOUS
  <2>2. QED
    BY <2>1, FS_Interval
<1>5. QED
  BY <1>2, <1>3, <1>4

\* The iterations made by some of the threads are a finite set.
LEMMA FiniteMade ==
  ASSUME NEW S, IsFiniteSet(S)
  PROVE  IsFiniteSet(Made(S)) /\ Cardinality(Made(S)) \in Nat
<1>1. IsFiniteSet(S \X (1..Loops))
  BY FiniteThreads, FS_Product
<1>2. Made(S) \in SUBSET (S \X (1..Loops))
  BY DEF Made
<1>3. IsFiniteSet(Made(S))
  BY <1>1, <1>2, FS_Subset
<1>4. QED
  BY <1>3, FS_CardinalityType

\* Two products with the same iterations, when one set has a thread more.
LEMMA OneThreadMore ==
  ASSUME NEW a \in Nat, NEW b \in Nat, NEW n \in Nat, b = a + 1
  PROVE  a * n - b * n = -n
<1>1. b * n = a * n + n
  OBVIOUS
<1>2. a * n \in Int
  OBVIOUS
<1>3. QED
  BY <1>1, <1>2

\* Each incrementing thread follows a decrementing one; a last thread with an
\* odd number is a decrementing one more.
LEMMA HowManyOfEach ==
  Cardinality(Decs) = Cardinality(Incs) + (IF NUM_THREAD % 2 = 0 THEN 0 ELSE 1)
<1> USE CounterAssumption
<1> DEFINE Before == {t \in Decs : t < NUM_THREAD}
           Prev   == [t \in Incs |-> t - 1]
<1>1. IsFiniteSet(Before) /\ Cardinality(Before) = Cardinality(Incs)
  <2>1. Prev \in [Incs -> Before]
    <3>1. \A t \in Threads : t % 2 = 0 => (t - 1) % 2 # 0 /\ t - 1 \in 1..NUM_THREAD /\ t - 1 < NUM_THREAD
      BY DEF Threads
    <3>2. QED
      BY <3>1 DEF Incs, Decs, IsInc, Threads
  <2>2. \A a, b \in Incs : Prev[a] = Prev[b] => a = b
    BY DEF Incs, Threads
  <2>3. \A t \in Before : \E s \in Incs : Prev[s] = t
    <3>1. SUFFICES ASSUME NEW t \in Before PROVE t + 1 \in Incs /\ Prev[t + 1] = t
      OBVIOUS
    <3>2. t \in Nat /\ t + 1 \in 1..NUM_THREAD /\ t % 2 # 0
      BY DEF Decs, IsInc, Threads
    <3>3. (t + 1) % 2 = 0
      BY <3>2
    <3>4. t + 1 \in Incs
      BY <3>2, <3>3 DEF Incs, IsInc, Threads
    <3>5. QED
      BY <3>2, <3>4
  <2>4. Prev \in Bijection(Incs, Before)
    BY <2>1, <2>2, <2>3, Fun_IsBij
  <2>5. ExistsBijection(Incs, Before)
    BY <2>4 DEF ExistsBijection
  <2>6. QED
    BY <2>5, FiniteThreads, FS_Bijection
<1>2. CASE NUM_THREAD % 2 = 0
  <2>1. Before = Decs
    BY <1>2 DEF Decs, IsInc, Threads
  <2>2. Cardinality(Decs) = Cardinality(Incs) /\ Cardinality(Incs) \in Nat
    BY <1>1, <2>1, FiniteThreads
  <2>3. QED
    BY ONLY <1>2, <2>2
<1>3. CASE NUM_THREAD % 2 # 0
  <2>1. Decs = Before \cup {NUM_THREAD} /\ NUM_THREAD \notin Before
    BY <1>3 DEF Decs, IsInc, Threads
  <2>2. Cardinality(Decs) = Cardinality(Before) + 1
    BY <1>1, <2>1, FS_AddElement
  <2>3. QED
    BY <1>1, <1>3, <2>2
<1>4. QED
  BY <1>2, <1>3

\* When every thread has made all its iterations, total is what is expected.
LEMMA AllMade ==
  ASSUME CountInv, \A t \in Threads : left[t] = 0
  PROVE  total = (IF NUM_THREAD % 2 = 0 THEN 0 ELSE -Loops)
<1> USE CounterAssumption
<1> DEFINE I == Cardinality(Incs)
           D == Cardinality(Decs)
<1>1. Made(Incs) = Incs \X (1..Loops) /\ Made(Decs) = Decs \X (1..Loops)
  BY DEF Made, Incs, Decs
<1>2. Cardinality(Made(Incs)) = I * Loops /\ Cardinality(Made(Decs)) = D * Loops
  BY <1>1, FiniteThreads, FS_Product
<1>3. I \in Nat /\ D \in Nat
  BY FiniteThreads
<1>4. total = I * Loops - D * Loops
  BY <1>2 DEF CountInv
<1>5. CASE NUM_THREAD % 2 = 0
  <2>1. I = D
    BY <1>3, <1>5, HowManyOfEach
  <2>2. I * Loops \in Int
    BY <1>3
  <2>3. QED
    BY <1>4, <1>5, <2>1, <2>2
<1>6. CASE NUM_THREAD % 2 # 0
  <2>1. D = I + 1
    BY <1>3, <1>6, HowManyOfEach
  <2>2. I * Loops - D * Loops = -Loops
    BY <1>3, <2>1, OneThreadMore
  <2>3. QED
    BY <1>4, <1>6, <2>2
<1>7. QED
  BY <1>5, <1>6

\* A store adds one pair to the set of the thread's kind, none to the other.
LEMMA MadeOneMore ==
  ASSUME TypeInv, NEW t \in Threads, Store(t), NEW S \in SUBSET Threads, IsFiniteSet(S)
  PROVE  Cardinality(Made(S))' = Cardinality(Made(S)) + (IF t \in S THEN 1 ELSE 0)
<1> USE CounterAssumption DEF TypeInv, TypeOK, Threads
<1>1. left[t] \in 1..Loops /\ left' = [left EXCEPT ![t] = left[t] - 1]
  BY DEF Store, LeftInv
<1>2. \A p \in S \X (1..Loops) :
        p[2] > left'[p[1]] <=> p[2] > left[p[1]] \/ p = <<t, left[t]>>
  <2>1. SUFFICES ASSUME NEW p \in S \X (1..Loops)
                 PROVE  p[2] > left'[p[1]] <=> p[2] > left[p[1]] \/ p = <<t, left[t]>>
    OBVIOUS
  <2>2. p[1] \in S /\ p[2] \in 1..Loops /\ p = <<p[1], p[2]>>
    OBVIOUS
  <2>3. left[p[1]] \in Nat /\ left'[p[1]] = IF p[1] = t THEN left[t] - 1 ELSE left[p[1]]
    <3>1. p[1] \in Threads
      BY <2>2
    <3>2. \A s \in Threads : left[s] \in Nat /\ left'[s] = IF s = t THEN left[t] - 1 ELSE left[s]
      BY <1>1
    <3>3. QED
      BY <3>1, <3>2
  <2>4. p = <<t, left[t]>> <=> p[1] = t /\ p[2] = left[t]
    BY <2>2
  <2>5. QED
    BY <1>1, <2>2, <2>3, <2>4
<1>3. CASE t \in S
  <2>1. Made(S)' = Made(S) \cup {<<t, left[t]>>}
    BY <1>1, <1>2, <1>3 DEF Made
  <2>2. <<t, left[t]>> \notin Made(S)
    BY <1>1 DEF Made
  <2>3. QED
    BY <1>3, <2>1, <2>2, FiniteMade, FS_AddElement
<1>4. CASE t \notin S
  <2>1. Made(S)' = Made(S)
    BY <1>2, <1>4 DEF Made
  <2>2. QED
    BY <1>4, <2>1, FiniteMade
<1>5. QED
  BY <1>3, <1>4

LEMMA PrintInit == Init => CountInv /\ DoneInv /\ PrintInv
<1> SUFFICES ASSUME Init PROVE CountInv /\ DoneInv /\ PrintInv
  OBVIOUS
<1> USE CounterAssumption DEF Init
<1>1. Made(Incs) = {} /\ Made(Decs) = {}
  BY DEF Made, Incs, Decs
<1>2. CountInv
  BY <1>1, FS_EmptySet DEF CountInv
<1>3. QED
  BY <1>2 DEF DoneInv, PrintInv, ResultPrinted

\* Every step of a program that locks keeps the count, and main prints it.
LEMMA PrintStep ==
  ASSUME TypeInv, SafeInv, CountInv, DoneInv, PrintInv, [Next]_vars
  PROVE  (CountInv /\ DoneInv /\ PrintInv)'
<1> USE CounterAssumption DEF main, thread, PrintInv, ResultPrinted
<1>1. CASE Create
  <2>1. CountInv'
    BY <1>1 DEF Create, CountInv, Made, Incs, Decs
  <2>2. DoneInv'
    BY <1>1 DEF Create, DoneInv, TypeInv, TypeOK
  <2>3. QED
    BY <1>1, <2>1, <2>2 DEF Create
<1>2. CASE Join
  <2>1. \A t \in Threads : left[t] = 0
    BY <1>2 DEF Join, AllDone, DoneInv
  <2>2. num = (IF NUM_THREAD % 2 = 0 THEN 0 ELSE -Loops)
    BY <2>1, AllMade DEF SafeInv, NoLostUpdate
  <2>3. PrintInv'
    BY <1>2, <2>2 DEF Join
  <2>4. QED
    BY <1>2, <2>3 DEF Join, CountInv, DoneInv, Made, Incs, Decs
<1>3. ASSUME NEW t \in Threads, Enter(t) PROVE (CountInv /\ DoneInv /\ PrintInv)'
  <2>1. DoneInv'
    BY <1>3 DEF Enter, DoneInv, TypeInv, TypeOK
  <2>2. QED
    BY <1>3, <2>1 DEF Enter, CountInv, Made, Incs, Decs
<1>4. ASSUME NEW t \in Threads, Load(t) PROVE (CountInv /\ DoneInv /\ PrintInv)'
  <2>1. DoneInv'
    BY <1>4 DEF Load, DoneInv, TypeInv, TypeOK
  <2>2. QED
    BY <1>4, <2>1 DEF Load, CountInv, Made, Incs, Decs
<1>5. ASSUME NEW t \in Threads, Store(t) PROVE (CountInv /\ DoneInv /\ PrintInv)'
  <2>1. CountInv'
    <3>1. Incs \in SUBSET Threads /\ Decs \in SUBSET Threads
      BY DEF Incs, Decs
    <3>2. /\ Cardinality(Made(Incs))' = Cardinality(Made(Incs)) + (IF t \in Incs THEN 1 ELSE 0)
          /\ Cardinality(Made(Decs))' = Cardinality(Made(Decs)) + (IF t \in Decs THEN 1 ELSE 0)
      BY <1>5, <3>1, MadeOneMore, FiniteThreads
    <3>3. Cardinality(Made(Incs)) \in Nat /\ Cardinality(Made(Decs)) \in Nat
      BY FiniteMade, FiniteThreads
    <3>4. total' = total + Delta(t)
      BY <1>5 DEF Store
    <3>5. total = Cardinality(Made(Incs)) - Cardinality(Made(Decs))
      BY DEF CountInv
    <3>6. Cardinality(Made(Incs))' - Cardinality(Made(Decs))' = total'
      <4>1. CASE IsInc(t)
        <5>1. t \in Incs /\ t \notin Decs /\ Delta(t) = 1
          BY <4>1 DEF Incs, Decs, Delta
        <5>2. QED
          BY <3>2, <3>3, <3>4, <3>5, <5>1
      <4>2. CASE ~IsInc(t)
        <5>1. t \notin Incs /\ t \in Decs /\ Delta(t) = -1
          BY <4>2 DEF Incs, Decs, Delta
        <5>2. QED
          BY <3>2, <3>3, <3>4, <3>5, <5>1
      <4>3. QED
        BY <4>1, <4>2
    <3>7. QED
      BY <3>6 DEF CountInv
  <2>2. DoneInv'
    <3>1. left[t] - 1 \in Nat
      BY <1>5 DEF Store, TypeInv, TypeOK, LeftInv
    <3>2. After(t, left[t] - 1) = "done" => left[t] - 1 = 0
      BY <3>1, AfterType
    <3>3. QED
      BY <1>5, <3>2 DEF Store, DoneInv, TypeInv, TypeOK
  <2>3. QED
    BY <1>5, <2>1, <2>2 DEF Store
<1>6. ASSUME NEW t \in Threads, Leave(t) PROVE (CountInv /\ DoneInv /\ PrintInv)'
  <2>1. DoneInv'
    BY <1>6 DEF Leave, DoneInv, TypeInv, TypeOK
  <2>2. QED
    BY <1>6, <2>1 DEF Leave, CountInv, Made, Incs, Decs
<1>7. CASE UNCHANGED vars
  BY <1>7 DEF vars, CountInv, DoneInv, Made, Incs, Decs
<1>8. QED
  BY <1>1, <1>2, <1>3, <1>4, <1>5, <1>6, <1>7 DEF Next, ThreadStep, Finished

\* A program that takes the lock in both thread functions prints what chapters
\* 18 and 20 show, "result: 0" for an even number of threads, and otherwise the
\* iterations of the one subtracting thread that has no partner.
THEOREM ResultCorrect == ASSUME AllLock PROVE Spec => []ResultPrinted
<1> DEFINE Inv == TypeInv /\ SafeInv /\ CountInv /\ DoneInv /\ PrintInv
<1>1. Init => Inv
  BY TypeInit, SafeInit, PrintInit
<1>2. Inv /\ [Next]_vars => Inv'
  BY TypeStep, SafeStep, PrintStep
<1>3. Inv => ResultPrinted
  BY DEF PrintInv
<1>4. QED
  BY <1>1, <1>2, <1>3, PTL DEF Spec
=============================================================================
