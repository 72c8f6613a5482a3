-------------------------- MODULE PhilosophersProofs --------------------------
(* Theorems about module Philosophers, for every number of philosophers:    *)
(* neighbours exclude each other, and the ordered forks exclude a circular  *)
(* wait.                                                                    *)
EXTENDS Philosophers, MutexProofs

LEMMA Seats ==
  /\ NUM_PHILOSOPHER \in Nat \ {0, 1}
  /\ Philosophers \subseteq AppTasks
  /\ Philosophers \subseteq Nat
  /\ Printer \in AppTasks /\ Printer \notin Philosophers
  /\ Mutexes = Philosophers
  /\ AppTasks \subseteq Tasks
<1>1. NUM_PHILOSOPHER \in Nat \ {0, 1}
  BY PhilosophersAssumption
<1>2. UserTasks = NUM_PHILOSOPHER + 1
  BY PhilosophersAssumption
<1>3. AppTasks = 0 .. NUM_PHILOSOPHER
  BY <1>1, <1>2 DEF AppTasks
<1>4. Philosophers \subseteq AppTasks /\ Philosophers \subseteq Nat
  BY <1>1, <1>3 DEF Philosophers
<1>5. Printer \in AppTasks
  BY <1>1, <1>3 DEF Printer
<1>6. Printer \notin Philosophers
  BY <1>1 DEF Printer, Philosophers
<1>7. Mutexes = Philosophers
  BY PhilosophersAssumption DEF Philosophers
<1> QED
  BY <1>1, <1>4, <1>5, <1>6, <1>7, TableFacts

(* The two forks of a philosopher are different, and low is the lower.      *)
LEMMA ForkOrder ==
  ASSUME NEW p \in Philosophers
  PROVE  /\ low(p) \in Mutexes /\ high(p) \in Mutexes
         /\ low(p) < high(p)
         /\ {low(p), high(p)} = {p, (p + 1) % NUM_PHILOSOPHER}
<1>1. /\ NUM_PHILOSOPHER \in Nat \ {0, 1}
      /\ p \in 0 .. NUM_PHILOSOPHER - 1
  BY Seats DEF Philosophers
<1>2. /\ right(p) \in 0 .. NUM_PHILOSOPHER - 1
      /\ right(p) # p
  <2>1. CASE p < NUM_PHILOSOPHER - 1
    BY <1>1, <2>1, ModWraps DEF right
  <2>2. CASE p = NUM_PHILOSOPHER - 1
    BY <1>1, <2>2 DEF right
  <2> QED
    BY <1>1, <2>1, <2>2
<1>3. left(p) = p
  BY DEF left
<1> QED
  BY <1>1, <1>2, <1>3, Seats DEF low, high, get_forks, right, Philosophers
-----------------------------------------------------------------------------
LEMMA PhilInitInv == IdleRegistered /\ PhilInit => PhilInv
<1> SUFFICES ASSUME IdleRegistered, PhilInit
             PROVE  PhilInv
  OBVIOUS
<1>1. MutexInv
  BY MutexInitInv DEF PhilInit
<1>2. at \in [Philosophers -> Places]
  BY DEF PhilInit, Places
<1>3. \A m \in Mutexes : mutex[m] = Unlocked
  BY DEF PhilInit, MutexInit, os_mutex_init
<1>4. ForksAsPlaced
  <2>1. \A p \in Philosophers : Has(p) = {}
    BY DEF Has, PhilInit
  <2>2. \A t \in Tasks, m \in Mutexes : ~ Owns(t, m)
    BY <1>3, TableFacts DEF Owns, Unlocked, NoOwner
  <2> QED
    BY <1>3, <2>1, <2>2 DEF ForksAsPlaced, Unlocked
<1>5. TakesAsPlaced
  BY DEF TakesAsPlaced, PhilInit, MutexInit, TaskInit
<1> QED
  BY <1>1, <1>2, <1>4, <1>5 DEF PhilInv

(* Every step of the application is a step of the mutexes' clients. *)
LEMMA PhilStepsAreMutexSteps ==
  [PhilNext]_philVars => [MutexNext]_mtxVars
<1> SUFFICES ASSUME [PhilNext]_philVars
             PROVE  [MutexNext]_mtxVars
  OBVIOUS
<1> USE Seats
<1>1. CASE Kernel(SysTick_Handler) \/ Kernel(SwitchStep)
           \/ \E t \in Tasks : Kernel(Yield(t))
  BY <1>1 DEF Kernel, MutexNext, TaskNext
<1>2. ASSUME NEW p \in Philosophers, philosopher_task(p)
      PROVE  MutexNext
  <2>1. ASSUME NEW n, Sleep(p, n)
        PROVE  MutexNext
    BY <2>1 DEF Sleep, MutexNext, TaskNext
  <2>2. ASSUME NEW m \in Mutexes, NEW n, TakeFork(p, m, n) \/ GiveFork(p, m, n)
        PROVE  MutexNext
    BY <2>2 DEF TakeFork, GiveFork, MutexNext, MutexStep
  <2> QED
    BY <1>2, <2>1, <2>2, ForkOrder DEF philosopher_task
<1>3. CASE print_philosopher_stats
  BY <1>3 DEF print_philosopher_stats, MutexNext, TaskNext
<1>4. CASE UNCHANGED philVars
  BY <1>4 DEF philVars
<1> QED
  BY <1>1, <1>2, <1>3, <1>4 DEF PhilNext

(* A step that leaves the mutexes, the places and the takes alone.          *)
LEMMA PlacesStay ==
  ASSUME ForksAsPlaced, TakesAsPlaced, UNCHANGED <<mutex, at>>,
         \A t \in Tasks : pc'[t] \in {"mutex_take", "mutex_yield"} =>
           /\ pc[t] \in {"mutex_take", "mutex_yield"}
           /\ arg'[t] = arg[t]
  PROVE  ForksAsPlaced' /\ TakesAsPlaced'
  BY DEF ForksAsPlaced, TakesAsPlaced, Owns, Has

(* A take that returned adds its fork to those of p's place; one that       *)
(* parked leaves p at its place, inside the take.                           *)
LEMMA TakeForkInv ==
  ASSUME PhilInv, MutexInv', NEW p \in Philosophers, NEW m \in Mutexes, NEW n,
         TakeFork(p, m, n),
         \/ at[p] = "HUNGRY" /\ m = low(p) /\ n = "HOLDING_ONE"
         \/ at[p] = "HOLDING_ONE" /\ m = high(p) /\ n = "EATING"
  PROVE  PhilInv'
<1>1. /\ p \in Tasks /\ p \in AppTasks
      /\ at \in [Philosophers -> Places]
      /\ mutex \in [Mutexes -> {Unlocked} \cup LockedMutexes]
      /\ pc \in [Tasks -> {"run"} \cup AtYield \cup AtLoop \cup Inside]
      /\ arg \in [Tasks -> Resources \cup {NULL}]
  BY Seats DEF PhilInv, MutexInv, MutexTypeOK, TaskTypeOK
<1>2. ~ Owns(p, m)
  <2>1. m \notin Has(p)
    BY ForkOrder, Seats DEF Has
  <2> QED
    BY <1>1, <2>1 DEF PhilInv, ForksAsPlaced
<1>3. CASE TakeFree(p, m)
  <2>1. /\ mutex' = [mutex EXCEPT ![m] = LockedBy(p, 1)]
        /\ pc' = [pc EXCEPT ![p] = "run"]
        /\ arg' = [arg EXCEPT ![p] = NULL]
        /\ at' = [at EXCEPT ![p] = n]
    BY <1>1, <1>3 DEF TakeFree, Return, TakeFork
  <2>2. /\ at' \in [Philosophers -> Places]
        /\ Has(p)' = Has(p) \cup {m}
        /\ \A q \in Philosophers \ {p} : Has(q)' = Has(q)
    BY <1>1, <2>1 DEF Has, Places, low, high
  <2>3. \A t \in Tasks : ~ Owns(t, m)
    BY <1>1, <1>3, MutexShape, TableFacts
       DEF TakeFree, Owns, NoOwner, PhilInv, MutexInv
  <2>4. ForksAsPlaced'
    BY <1>1, <2>1, <2>2, <2>3 DEF PhilInv, ForksAsPlaced, Owns, LockedBy
  <2>5. TakesAsPlaced'
    BY <1>1, <2>1 DEF PhilInv, TakesAsPlaced
  <2> QED
    BY <2>2, <2>4, <2>5 DEF PhilInv
<1>4. CASE TakePark(p, m)
  <2>1. /\ UNCHANGED <<mutex, at>>
        /\ pc' = [pc EXCEPT ![p] = "mutex_yield"]
        /\ arg' = [arg EXCEPT ![p] = m]
    BY <1>1, <1>4 DEF TakePark, Park, TakeFork, mutexVars
  <2>2. ForksAsPlaced'
    BY <2>1 DEF PhilInv, ForksAsPlaced, Owns, Has
  <2>3. TakesAsPlaced'
    BY <1>1, <2>1 DEF PhilInv, TakesAsPlaced
  <2> QED
    BY <1>1, <2>1, <2>2, <2>3 DEF PhilInv
<1> QED
  BY <1>2, <1>3, <1>4 DEF TakeFork, os_mutex_take, TakeAgain

(* A give releases the fork: p owns it, once.                               *)
LEMMA GiveForkInv ==
  ASSUME PhilInv, MutexInv', NEW p \in Philosophers, NEW m \in Mutexes, NEW n,
         GiveFork(p, m, n),
         \/ at[p] = "PUT_HIGH" /\ m = high(p) /\ n = "PUT_LOW"
         \/ at[p] = "PUT_LOW" /\ m = low(p) /\ n = "THINKING"
  PROVE  PhilInv'
<1>1. /\ p \in Tasks /\ p \in AppTasks
      /\ at \in [Philosophers -> Places]
      /\ mutex \in [Mutexes -> {Unlocked} \cup LockedMutexes]
      /\ pc[p] = "run"
  BY Seats DEF PhilInv, MutexInv, MutexTypeOK, GiveFork, os_mutex_give, Calls
<1>2. Owns(p, m) /\ mutex[m].recursive_depth <= 1
  <2>1. m \in Has(p)
    BY DEF Has
  <2> QED
    BY <1>1, <2>1 DEF PhilInv, ForksAsPlaced
<1>3. mutex[m].recursive_depth \in Nat
  BY <1>1, MutexAssumption DEF Unlocked, LockedMutexes
<1>4. GiveOuter(p, m)
  BY <1>2, <1>3 DEF GiveFork, os_mutex_give, GiveIgnored, GiveInner
<1>5. /\ mutex' = [mutex EXCEPT ![m] = Unlocked]
      /\ UNCHANGED <<pc, arg>>
      /\ at' = [at EXCEPT ![p] = n]
  BY <1>4 DEF GiveOuter, GiveFork
<1>6. /\ at' \in [Philosophers -> Places]
      /\ Has(p)' = Has(p) \ {m}
      /\ \A q \in Philosophers \ {p} : Has(q)' = Has(q)
  BY <1>1, <1>5, ForkOrder, Seats DEF Has, Places, low, high
<1>7. ForksAsPlaced'
  <2>1. \A t \in Tasks : ~ Owns(t, m)' /\ (t # p => ~ Owns(t, m))
    BY <1>1, <1>2, <1>5, TableFacts DEF Owns, Unlocked, NoOwner
  <2> QED
    BY <1>1, <1>2, <1>5, <1>6, <2>1 DEF PhilInv, ForksAsPlaced, Owns, Unlocked
<1>8. TakesAsPlaced'
  BY <1>1, <1>5 DEF PhilInv, TakesAsPlaced
<1> QED
  BY <1>6, <1>7, <1>8 DEF PhilInv

LEMMA SleepInv ==
  ASSUME PhilInv, MutexInv', NEW p \in Philosophers, NEW n, Sleep(p, n),
         \/ at[p] = "THINKING" /\ n = "HUNGRY"
         \/ at[p] = "EATING" /\ n = "PUT_HIGH"
  PROVE  PhilInv'
<1>1. /\ p \in Tasks
      /\ at \in [Philosophers -> Places]
      /\ pc \in [Tasks -> {"run"} \cup AtYield \cup AtLoop \cup Inside]
      /\ pc[p] = "run"
  BY Seats DEF PhilInv, MutexInv, MutexTypeOK, TaskTypeOK, Sleep, os_delay, Calls
<1>2. /\ UNCHANGED <<mutex, arg>>
      /\ pc' = [pc EXCEPT ![p] = "delay_yield"]
      /\ at' = [at EXCEPT ![p] = n]
  BY DEF Sleep, os_delay, mutexVars
<1>3. /\ at' \in [Philosophers -> Places]
      /\ \A q \in Philosophers : Has(q)' = Has(q)
  BY <1>1, <1>2 DEF Has, Places, low, high
<1>4. ForksAsPlaced'
  BY <1>2, <1>3 DEF PhilInv, ForksAsPlaced, Owns
<1>5. TakesAsPlaced'
  BY <1>1, <1>2 DEF PhilInv, TakesAsPlaced
<1> QED
  BY <1>3, <1>4, <1>5 DEF PhilInv

LEMMA PhilNextInv ==
  ASSUME IdleRegistered, PhilInv, [PhilNext]_philVars
  PROVE  PhilInv'
<1>1. MutexInv'
  BY PhilStepsAreMutexSteps, MutexNextInv DEF PhilInv
<1>2. pc \in [Tasks -> {"run"} \cup AtYield \cup AtLoop \cup Inside]
  BY DEF PhilInv, MutexInv, MutexTypeOK, TaskTypeOK
<1>3. ASSUME UNCHANGED <<mutex, at>>,
             \A t \in Tasks : pc'[t] \in {"mutex_take", "mutex_yield"} =>
               /\ pc[t] \in {"mutex_take", "mutex_yield"}
               /\ arg'[t] = arg[t]
      PROVE  PhilInv'
  BY <1>1, <1>3, PlacesStay DEF PhilInv
<1>4. CASE Kernel(SysTick_Handler) \/ Kernel(SwitchStep)
  BY <1>3, <1>4 DEF Kernel, SysTick_Handler, Tick, SwitchStep, PendSV_Handler,
                    ScanOne, Dispatch, mutexVars
<1>5. ASSUME NEW t \in Tasks, Kernel(Yield(t))
      PROVE  PhilInv'
  <2>1. /\ UNCHANGED <<mutex, at, arg>>
        /\ pc' = [pc EXCEPT ![t] = YieldTo[pc[t]]]
        /\ pc[t] \in AtYield
    BY <1>5 DEF Kernel, Yield, mutexVars
  <2>2. pc'[t] \in {"mutex_take", "mutex_yield"} => pc[t] = "mutex_yield"
    BY <1>2, <2>1 DEF YieldTo, AtYield
  <2> QED
    BY <1>2, <1>3, <2>1, <2>2
<1>6. ASSUME NEW p \in Philosophers, philosopher_task(p)
      PROVE  PhilInv'
  BY <1>1, <1>6, ForkOrder, TakeForkInv, GiveForkInv, SleepInv
     DEF philosopher_task
<1>7. CASE print_philosopher_stats
  <2>1. /\ UNCHANGED <<mutex, at, arg>>
        /\ pc' = [pc EXCEPT ![Printer] = "delay_yield"]
    BY <1>7 DEF print_philosopher_stats, os_delay, mutexVars
  <2> QED
    BY <1>2, <1>3, <2>1
<1>8. CASE UNCHANGED philVars
  BY <1>3, <1>8 DEF philVars, mtxVars, taskVars
<1> QED
  BY <1>4, <1>5, <1>6, <1>7, <1>8 DEF PhilNext

LEMMA PhilInvariant ==
  ASSUME IdleRegistered
  PROVE  PhilSpec => []PhilInv
<1>1. PhilInit => PhilInv
  BY PhilInitInv
<1>2. PhilInv /\ [PhilNext]_philVars => PhilInv'
  BY PhilNextInv
<1> QED
  BY <1>1, <1>2, PTL DEF PhilSpec
-----------------------------------------------------------------------------
(* The application uses the mutexes as their specification says: what is    *)
(* proved of MutexSpec holds of the philosophers.                           *)
THEOREM PhilosophersUseMutexes == PhilSpec => MutexSpec
<1>1. PhilInit => MutexInit
  BY DEF PhilInit
<1> QED
  BY <1>1, PhilStepsAreMutexSteps, PTL DEF PhilSpec, MutexSpec

(* Neighbours never hold the fork between them at the same time.            *)
THEOREM NeighboursAlwaysExclude ==
  ASSUME IdleRegistered
  PROVE  PhilSpec => []NeighboursExclude
<1>1. PhilInv => NeighboursExclude
  <2> SUFFICES ASSUME PhilInv, NEW p \in Philosophers,
                      HoldsBoth(p), HoldsBoth((p + 1) % NUM_PHILOSOPHER)
               PROVE  FALSE
    BY DEF NeighboursExclude
  <2> DEFINE q == (p + 1) % NUM_PHILOSOPHER
  <2>1. q \in Philosophers /\ q # p
    BY ForkOrder, Seats
  <2>2. q \in Has(p) /\ q \in Has(q)
    BY <2>1, ForkOrder DEF HoldsBoth, Has
  <2>3. Owns(p, q) /\ Owns(q, q)
    BY <2>1, <2>2, Seats DEF PhilInv, ForksAsPlaced
  <2> QED
    BY <2>1, <2>3 DEF Owns
<1> QED
  BY <1>1, PhilInvariant, PTL

(* No circular wait: were every philosopher parked, the one that waits for  *)
(* the highest fork of all would wait for an owner that itself waits for a  *)
(* higher one, since an owner that waits holds its lower fork.              *)
THEOREM SomePhilosopherAlwaysMoves ==
  ASSUME IdleRegistered
  PROVE  PhilSpec => []SomePhilosopherMoves
<1>1. PhilInv => SomePhilosopherMoves
  <2> SUFFICES ASSUME PhilInv,
                      \A p \in Philosophers : state[p] = "MUTEX_WAITING"
               PROVE  FALSE
    BY DEF SomePhilosopherMoves
  <2> DEFINE fork(p) == waiting_for_resource[p]
  <2>1. ASSUME NEW p \in Philosophers
        PROVE  /\ p \in Tasks
               /\ \/ at[p] = "HUNGRY" /\ fork(p) = low(p)
                  \/ at[p] = "HOLDING_ONE" /\ fork(p) = high(p)
    BY Seats DEF PhilInv, MutexInv, WaitersInside, TakesAsPlaced
  <2>2. ASSUME NEW p \in Philosophers
        PROVE  \E q \in Philosophers : fork(p) \in Has(q)
    <3>1. fork(p) \in Mutexes /\ Driven(p, fork(p))
      BY <2>1, ForkOrder DEF PhilInv, MutexInv, WaitersDriven
    <3>2. MutexRetriers(fork(p)) = {}
      BY Seats DEF MutexRetriers, Retriers, PhilInv, TakesAsPlaced
    <3>3. PICK t \in Tasks : Owns(t, fork(p))
      BY <3>1, <3>2 DEF Driven
    <3> QED
      BY <3>1, <3>3 DEF PhilInv, ForksAsPlaced
  <2>3. ASSUME NEW p \in Philosophers
        PROVE  \E q \in Philosophers : fork(p) < fork(q)
    <3>1. PICK q \in Philosophers : fork(p) \in Has(q)
      BY <2>2
    <3>2. at[q] = "HOLDING_ONE" /\ fork(p) = low(q) /\ fork(q) = high(q)
      BY <2>1, <3>1 DEF Has
    <3> QED
      BY <3>2, ForkOrder
  <2>4. \A p \in Philosophers : fork(p) \in Nat
    BY <2>1, ForkOrder, Seats
  <2> DEFINE height == [t \in Tasks |-> IF t \in Philosophers THEN fork(t) ELSE 0]
  <2>5. /\ height \in [Tasks -> Nat]
        /\ \A p \in Philosophers : height[p] = fork(p)
    BY <2>4, Seats
  <2>6. Philosophers \in SUBSET Tasks /\ Philosophers # {}
    BY Seats DEF Philosophers
  <2>7. PICK p \in Philosophers :
          \A q \in Philosophers : ~ Beats(q, p, height)
    <3> HIDE DEF height
    <3> QED
      BY <2>5, <2>6, UnbeatenExists
  <2> QED
    BY <2>3, <2>4, <2>5, <2>7 DEF Beats
<1> QED
  BY <1>1, PhilInvariant, PTL
==============================================================================
