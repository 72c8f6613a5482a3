----------------------------- MODULE TaskProofs -----------------------------
(* Theorems about module Task, for every number of tasks, assignment of     *)
(* priorities and set of delays.                                            *)
EXTENDS Task, FiniteSetTheorems, WellFoundedInduction, TLAPS

USE DEF AppTasks

(* The table holds a task, every user task has an entry. *)
LEMMA TableFacts ==
  /\ os_task_count \in Nat \ {0}
  /\ Tasks = 0 .. os_task_count - 1
  /\ AppTasks \subseteq Tasks
  /\ base_priority \in [Tasks -> Nat]
<1>1. /\ os_task_count \in Nat \ {0}
      /\ AppTasks \subseteq Tasks
  BY TaskAssumption DEF os_task_count, Tasks, IdleRegistered
<1>2. base_priority \in [Tasks -> Nat]
  BY TaskAssumption DEF base_priority
<1> QED
  BY <1>1, <1>2 DEF Tasks

(* The index the scan looks at is a slot of the table that is in use. *)
LEMMA NextTaskInTable ==
  ASSUME os_current_task_ptr \in Tasks, NEW i \in Nat
  PROVE  next_task(i) \in Tasks
<1>1. /\ os_current_task_ptr + 1 + i \in Nat
      /\ os_task_count \in Nat \ {0}
  BY TableFacts
<1> QED
  BY <1>1, TableFacts DEF next_task

LEMMA TaskInitTypeOK == TaskInit => TaskTypeOK
<1> SUFFICES ASSUME TaskInit
             PROVE  TaskTypeOK
  OBVIOUS
<1>1. 0 \in Tasks
  BY TableFacts
<1>2. HeapGarbage \in Resources \cup {NULL}
  BY TaskAssumption
<1>3. pendsv \in BOOLEAN
  BY DEF TaskInit
<1> QED
  BY <1>1, <1>2, <1>3, TableFacts DEF TaskInit, TaskTypeOK, os_task_state

LEMMA TaskNextTypeOK ==
  TaskTypeOK /\ [TaskNext]_taskVars => TaskTypeOK'
<1> SUFFICES ASSUME TaskTypeOK, [TaskNext]_taskVars
             PROVE  TaskTypeOK'
  OBVIOUS
<1> USE DEF TaskTypeOK, tcbVars, cpuVars, NotScanning, None
<1>1. ASSUME SysTick_Handler
      PROVE  TaskTypeOK'
  BY <1>1 DEF SysTick_Handler, Tick, os_decrement_blocked_tasks, Sleeping, Expiring, os_task_state
<1>2. ASSUME PendSV_Handler
      PROVE  TaskTypeOK'
  <2>1. 0 \in 0 .. os_task_count
    BY TableFacts
  <2>2. pendsv' \in BOOLEAN
    BY <1>2 DEF PendSV_Handler
  <2> QED
    BY <1>2, <2>1, <2>2 DEF PendSV_Handler
<1>3. ASSUME ScanOne
      PROVE  TaskTypeOK'
  <2>1. /\ scan_i \in Nat
        /\ scan_i' \in 0 .. os_task_count
    BY <1>3, TableFacts DEF ScanOne
  <2>2. chosen_index' \in {None} \cup Tasks
    BY <1>3, <2>1, NextTaskInTable DEF ScanOne
  <2> QED
    BY <1>3, <2>1, <2>2 DEF ScanOne
<1>4. ASSUME Dispatch
      PROVE  TaskTypeOK'
  BY <1>4 DEF Dispatch
<1>5. ASSUME NEW t \in Tasks, Yield(t)
      PROVE  TaskTypeOK'
  BY <1>5 DEF Yield, YieldTo, AtYield, AtLoop
<1>6. ASSUME NEW t \in Tasks, NEW ticks \in Delays, os_delay(t, ticks)
      PROVE  TaskTypeOK'
  BY <1>6, TaskAssumption DEF os_delay, AtYield, os_task_state
<1>7. ASSUME UNCHANGED taskVars
      PROVE  TaskTypeOK'
  BY <1>7 DEF taskVars
<1> QED
  BY <1>1, <1>2, <1>3, <1>4, <1>5, <1>6, <1>7 DEF TaskNext, SwitchStep

(* Type correctness of the control blocks and of the CPU state. *)
THEOREM TaskTypeCorrect == TaskSpec => []TaskTypeOK
<1> QED
  BY TaskInitTypeOK, TaskNextTypeOK, PTL DEF TaskSpec
-----------------------------------------------------------------------------
(* The scan starts after the current task and wraps round: it visits every  *)
(* slot of the table in os_task_count iterations.                           *)
LEMMA ModWraps ==
  ASSUME NEW n \in Nat \ {0}, NEW u \in 0 .. n - 1
  PROVE  /\ u % n = u
         /\ (u + n) % n = u
  OBVIOUS

LEMMA ScanVisitsAll ==
  ASSUME os_current_task_ptr \in Tasks, NEW u \in Tasks
  PROVE  \E i \in 0 .. os_task_count - 1 : next_task(i) = u
<1> DEFINE n == os_task_count
           c == os_current_task_ptr
<1>1. n \in Nat \ {0} /\ u \in 0 .. n - 1 /\ c \in 0 .. n - 1
  BY TableFacts
<1>2. CASE u > c
  <2>1. u - c - 1 \in 0 .. n - 1 /\ c + 1 + (u - c - 1) = u
    BY <1>1, <1>2
  <2>2. next_task(u - c - 1) = u
    BY <1>1, <2>1, ModWraps DEF next_task
  <2> QED
    BY <2>1, <2>2
<1>3. CASE u <= c
  <2>1. u - c - 1 + n \in 0 .. n - 1 /\ c + 1 + (u - c - 1 + n) = u + n
    BY <1>1, <1>3
  <2>2. next_task(u - c - 1 + n) = u
    BY <1>1, <2>1, ModWraps DEF next_task
  <2> QED
    BY <2>1, <2>2
<1> QED
  BY <1>1, <1>2, <1>3
-----------------------------------------------------------------------------
LEMMA IdleFacts ==
  ASSUME IdleRegistered
  PROVE  idle \in Tasks /\ idle \notin AppTasks
  BY TaskAssumption DEF IdleRegistered, idle, Tasks, os_task_count

LEMMA SchedInit == IdleRegistered /\ TaskInit => SchedInv
<1> SUFFICES ASSUME IdleRegistered, TaskInit
             PROVE  SchedInv
  OBVIOUS
<1>1. TaskTypeOK
  BY TaskInitTypeOK
<1>2. IdleReady
  BY IdleFacts DEF IdleReady, TaskInit
<1>3. ChosenReady /\ IdleSeen /\ BestSoFar
  BY DEF ChosenReady, IdleSeen, BestSoFar, TaskInit
<1>4. RunnerIsReady
  BY DEF RunnerIsReady, TaskInit
<1> QED
  BY <1>1, <1>2, <1>3, <1>4 DEF SchedInv

(* A step of the running application task t, in a critical section or out  *)
(* of one, that wakes other tasks at most and that leaves t at a yield     *)
(* unless it leaves it READY.                                              *)
LEMMA SchedTaskStep ==
  ASSUME IdleRegistered, SchedInv, TaskTypeOK',
         NEW t \in AppTasks, Running(t), UNCHANGED cpuVars,
         \A u \in Tasks \ {t} : state'[u] \in {state[u], "READY"},
         state'[t] = "READY" \/ pc'[t] \in AtYield
  PROVE  SchedInv'
<1>1. IdleReady'
  BY IdleFacts DEF SchedInv, IdleReady, idle
<1>2. scan_i' = NotScanning
  BY DEF Running, cpuVars
<1>3. ChosenReady' /\ IdleSeen' /\ BestSoFar'
  BY <1>2 DEF ChosenReady, IdleSeen, BestSoFar
<1>4. RunnerIsReady'
  <2>1. ASSUME NEW u \in Tasks, Running(u)'
        PROVE  u = t
    BY <2>1 DEF Running, cpuVars
  <2> QED
    BY <2>1 DEF RunnerIsReady
<1> QED
  BY <1>1, <1>3, <1>4 DEF SchedInv

(* A tick only ever makes tasks READY, and leaves PendSV pending. *)
LEMMA SchedTick ==
  ASSUME SchedInv, NEW woken, Tick(woken), TaskTypeOK', idle \in Tasks
  PROVE  SchedInv'
<1> USE DEF Tick
<1>1. \A u \in Tasks : state'[u] \in {state[u], "READY"}
  BY DEF os_decrement_blocked_tasks
<1>2. IdleReady'
  BY <1>1 DEF SchedInv, IdleReady
<1>3. ChosenReady'
  BY <1>1 DEF SchedInv, ChosenReady, TaskTypeOK
<1>4. Visited' = Visited
  BY DEF Visited, next_task
<1>5. IdleSeen'
  BY <1>4 DEF SchedInv, IdleSeen
<1>6. BestSoFar' /\ RunnerIsReady'
  BY DEF BestSoFar, RunnerIsReady, Running
<1> QED
  BY <1>2, <1>3, <1>5, <1>6 DEF SchedInv

LEMMA SchedPendSV ==
  ASSUME SchedInv, PendSV_Handler, TaskTypeOK'
  PROVE  SchedInv'
<1> USE DEF PendSV_Handler, tcbVars
<1>1. IdleReady' /\ ChosenReady'
  BY DEF SchedInv, IdleReady, ChosenReady
<1>2. Visited' = {}
  BY DEF Visited
<1>3. IdleSeen' /\ BestSoFar'
  BY <1>2 DEF IdleSeen, BestSoFar
<1>4. RunnerIsReady'
  BY DEF RunnerIsReady, Running, NotScanning
<1> QED
  BY <1>1, <1>3, <1>4 DEF SchedInv

LEMMA VisitedInTable ==
  ASSUME TaskTypeOK
  PROVE  Visited \subseteq Tasks
<1> SUFFICES ASSUME NEW i \in 0 .. scan_i - 1
             PROVE  next_task(i) \in Tasks
  BY DEF Visited
<1>1. os_current_task_ptr \in Tasks /\ i \in Nat
  BY TableFacts DEF TaskTypeOK, NotScanning
<1> QED
  BY <1>1, NextTaskInTable

LEMMA SchedScanOne ==
  ASSUME SchedInv, ScanOne, TaskTypeOK'
  PROVE  SchedInv'
<1> DEFINE v == next_task(scan_i)
<1> USE DEF tcbVars
<1>1. /\ TaskTypeOK
      /\ scan_i \in Nat
      /\ scan_i # NotScanning
      /\ scan_i' = scan_i + 1
      /\ scan_i' # NotScanning
      /\ v \in Tasks
  <2>1. TaskTypeOK /\ os_current_task_ptr \in Tasks
    BY DEF SchedInv, TaskTypeOK
  <2>2. scan_i \in Nat /\ scan_i' = scan_i + 1
    BY TableFacts DEF ScanOne
  <2>3. v \in Tasks
    BY <2>1, <2>2, NextTaskInTable
  <2> QED
    BY <2>1, <2>2, <2>3 DEF NotScanning
<1>2. Visited' = Visited \cup {v}
  BY <1>1 DEF Visited, ScanOne, next_task
<1>3. IdleReady'
  BY DEF SchedInv, IdleReady, ScanOne
<1>4. ChosenReady'
  BY <1>1 DEF SchedInv, ChosenReady, ScanOne, Preferred
<1>5. v # None
  BY <1>1, TableFacts DEF None
<1>6. IdleSeen'
  <2>1. CASE Preferred(v)
    BY <2>1, <1>5 DEF IdleSeen, ScanOne
  <2>2. CASE ~ Preferred(v)
    BY <2>2, <1>1, <1>2 DEF SchedInv, IdleReady, IdleSeen, ScanOne, Preferred
  <2> QED
    BY <2>1, <2>2
<1>7. BestSoFar'
  <2> SUFFICES ASSUME ~pendsv, NEW u \in Visited', state[u] = "READY"
               PROVE  /\ chosen_index' # None
                      /\ priority[u] <= priority[chosen_index']
    BY <1>1 DEF BestSoFar, ScanOne
  <2>1. u \in Tasks
    BY <1>1, <1>2, VisitedInTable
  <2>2. u \in Visited => chosen_index # None /\ priority[u] <= priority[chosen_index]
    BY <1>1 DEF SchedInv, BestSoFar
  <2>3. /\ priority[u] \in Nat
        /\ priority[v] \in Nat
        /\ chosen_index # None => priority[chosen_index] \in Nat
    BY <1>1, <2>1 DEF TaskTypeOK
  <2>4. CASE Preferred(v)
    <3>1. chosen_index' = v
      BY <2>4 DEF ScanOne
    <3> QED
      BY <1>2, <1>5, <2>2, <2>3, <2>4, <3>1 DEF Preferred
  <2>5. CASE ~ Preferred(v)
    <3>1. chosen_index' = chosen_index
      BY <2>5 DEF ScanOne
    <3> QED
      BY <1>2, <2>2, <2>3, <2>5, <3>1 DEF Preferred
  <2> QED
    BY <2>4, <2>5
<1>8. RunnerIsReady'
  BY <1>1 DEF RunnerIsReady, Running
<1> QED
  BY <1>3, <1>4, <1>6, <1>7, <1>8 DEF SchedInv

(* At the end of the scan every task has been visited, the idle task among *)
(* them: somebody was chosen.                                              *)
LEMMA ScanComplete ==
  ASSUME IdleRegistered, SchedInv, scan_i = os_task_count
  PROVE  /\ Visited = Tasks
         /\ chosen_index \in Tasks
         /\ state[chosen_index] = "READY"
<1>1. scan_i # NotScanning
  BY TableFacts DEF NotScanning
<1>2. Tasks \subseteq Visited
  BY ScanVisitsAll DEF SchedInv, TaskTypeOK, Visited
<1>3. Visited \subseteq Tasks
  BY VisitedInTable DEF SchedInv
<1>4. chosen_index # None
  BY <1>1, <1>2, IdleFacts DEF SchedInv, IdleSeen
<1> QED
  BY <1>1, <1>2, <1>3, <1>4 DEF SchedInv, ChosenReady, TaskTypeOK

LEMMA SchedDispatch ==
  ASSUME IdleRegistered, SchedInv, Dispatch, TaskTypeOK'
  PROVE  SchedInv'
<1> USE DEF Dispatch, tcbVars
<1>1. IdleReady'
  BY DEF SchedInv, IdleReady
<1>2. ChosenReady' /\ IdleSeen' /\ BestSoFar'
  BY DEF ChosenReady, IdleSeen, BestSoFar
<1>3. RunnerIsReady'
  BY ScanComplete, TableFacts DEF RunnerIsReady, Running, None
<1> QED
  BY <1>1, <1>2, <1>3 DEF SchedInv

LEMMA SchedYield ==
  ASSUME SchedInv, NEW t \in Tasks, Yield(t), TaskTypeOK'
  PROVE  SchedInv'
<1> USE DEF Yield, tcbVars, Running
<1>1. IdleReady'
  BY DEF SchedInv, IdleReady
<1>2. ChosenReady' /\ IdleSeen' /\ BestSoFar'
  BY DEF ChosenReady, IdleSeen, BestSoFar
<1>3. RunnerIsReady'
  BY DEF RunnerIsReady
<1> QED
  BY <1>1, <1>2, <1>3 DEF SchedInv

LEMMA SchedStutter ==
  ASSUME SchedInv, UNCHANGED taskVars
  PROVE  SchedInv'
  BY DEF SchedInv, TaskTypeOK, IdleReady, ChosenReady, IdleSeen, BestSoFar,
         RunnerIsReady, Running, Visited, next_task, taskVars

LEMMA SchedNext ==
  ASSUME IdleRegistered, SchedInv, [TaskNext]_taskVars
  PROVE  SchedInv'
<1>1. TaskTypeOK'
  BY TaskNextTypeOK DEF SchedInv
<1>2. CASE SysTick_Handler
  BY <1>1, <1>2, SchedTick, IdleFacts DEF SysTick_Handler
<1>3. CASE SwitchStep
  BY <1>1, <1>3, SchedPendSV, SchedScanOne, SchedDispatch DEF SwitchStep
<1>4. ASSUME NEW t \in Tasks, Yield(t)
      PROVE  SchedInv'
  BY <1>1, <1>4, SchedYield
<1>5. ASSUME NEW t \in Tasks, NEW ticks \in Delays, os_delay(t, ticks)
      PROVE  SchedInv'
  <2>1. /\ t \in AppTasks
        /\ Running(t)
        /\ UNCHANGED cpuVars
    BY <1>5 DEF os_delay, Calls
  <2>2. \A u \in Tasks \ {t} : state'[u] \in {state[u], "READY"}
    BY <1>5 DEF os_delay, SchedInv, TaskTypeOK
  <2>3. pc'[t] \in AtYield
    BY <1>5 DEF os_delay, AtYield, SchedInv, TaskTypeOK
  <2> QED
    BY <1>1, <2>1, <2>2, <2>3, SchedTaskStep
<1>6. CASE UNCHANGED taskVars
  BY <1>6, SchedStutter
<1> QED
  BY <1>2, <1>3, <1>4, <1>5, <1>6 DEF TaskNext

(* No call returns early: with an idle task in the table, the task that    *)
(* executes is READY, or is about to yield the CPU it blocked on.          *)
THEOREM RunnerAlwaysReady ==
  ASSUME IdleRegistered
  PROVE  TaskSpec => []RunnerIsReady
<1>1. TaskInit => SchedInv
  BY SchedInit
<1>2. SchedInv /\ [TaskNext]_taskVars => SchedInv'
  BY SchedNext
<1>3. SchedInv => RunnerIsReady
  BY DEF SchedInv
<1> QED
  BY <1>1, <1>2, <1>3, PTL DEF TaskSpec

(* Every dispatch no tick overtook goes to a READY task of the highest     *)
(* priority.                                                               *)
THEOREM AlwaysDispatchesHighest ==
  ASSUME IdleRegistered
  PROVE  TaskSpec => DispatchesHighest
<1>1. TaskInit => SchedInv
  BY SchedInit
<1>2. SchedInv /\ [TaskNext]_taskVars => SchedInv'
  BY SchedNext
<1> DEFINE A ==
      scan_i = os_task_count /\ scan_i' = NotScanning /\ ~pendsv =>
        /\ state[os_current_task_ptr'] = "READY"
        /\ \A u \in Tasks : state[u] = "READY" =>
             priority[u] <= priority[os_current_task_ptr']
<1>3. SchedInv /\ [TaskNext]_taskVars => [A]_taskVars
  <2> SUFFICES ASSUME SchedInv, TaskNext, scan_i = os_task_count,
                      scan_i' = NotScanning, ~pendsv
               PROVE  A
    OBVIOUS
  <2>1. scan_i # NotScanning /\ scan_i \in Nat
    BY TableFacts DEF NotScanning
  <2>2. Dispatch
    BY <2>1, TableFacts DEF TaskNext, SwitchStep, SysTick_Handler, Tick, PendSV_Handler,
       ScanOne, Yield, os_delay, Calls, Running, NotScanning
  <2>3. os_current_task_ptr' = chosen_index
    BY <2>2, ScanComplete, TableFacts DEF Dispatch, None
  <2> QED
    BY <2>1, <2>3, ScanComplete DEF SchedInv, BestSoFar
<1> QED
  BY <1>1, <1>2, <1>3, PTL DEF TaskSpec, DispatchesHighest
-----------------------------------------------------------------------------
(* u comes before t in the scan's order: a higher priority, or the same and *)
(* a lower index.                                                           *)
Beats(u, t, prio) == prio[u] > prio[t] \/ (prio[u] = prio[t] /\ u < t)

LEMMA TasksFinite == IsFiniteSet(Tasks)
  BY TableFacts, FS_Interval DEF Tasks

(* A set of tasks that is not empty has one that no other beats.  The ranks *)
(* of n tasks are pairwise different, so one of them is zero.               *)
LEMMA UnbeatenExists ==
  ASSUME NEW ws \in SUBSET Tasks, ws # {}, NEW prio \in [Tasks -> Nat]
  PROVE  \E t \in ws : \A u \in ws : ~ Beats(u, t, prio)
<1> DEFINE above(t) == { u \in ws : Beats(u, t, prio) }
           n == Cardinality(ws)
           rank == [t \in ws |-> Cardinality(above(t))]
<1>1. IsFiniteSet(ws) /\ n \in Nat
  BY TasksFinite, FS_Subset, FS_CardinalityType
<1>2. \A t \in ws : t \in Nat /\ prio[t] \in Nat
  BY TableFacts
<1>3. ASSUME NEW t \in ws
      PROVE  /\ IsFiniteSet(above(t))
             /\ Cardinality(above(t)) \in Nat
             /\ Cardinality(above(t)) <= n - 1
  <2>1. t \notin above(t)
    BY <1>2 DEF Beats
  <2>2. /\ IsFiniteSet(above(t))
        /\ Cardinality(above(t)) <= n
        /\ n = Cardinality(above(t)) => ws = above(t)
    BY <1>1, FS_Subset
  <2>3. Cardinality(above(t)) \in Nat
    BY <2>2, FS_CardinalityType
  <2>4. Cardinality(above(t)) # n
    BY <2>1, <2>2
  <2> QED
    BY <1>1, <2>2, <2>3, <2>4
<1>4. ASSUME NEW t \in ws, NEW u \in ws, Beats(u, t, prio)
      PROVE  rank[u] < rank[t]
  <2>1. above(u) \in SUBSET above(t)
    BY <1>2, <1>4 DEF Beats
  <2>2. u \in above(t) /\ u \notin above(u)
    BY <1>2, <1>4 DEF Beats
  <2>3. /\ Cardinality(above(u)) <= Cardinality(above(t))
        /\ Cardinality(above(t)) # Cardinality(above(u))
    BY <1>3, <2>1, <2>2, FS_Subset
  <2>4. /\ Cardinality(above(u)) \in Nat
        /\ Cardinality(above(t)) \in Nat
    BY <1>3
  <2>5. Cardinality(above(u)) < Cardinality(above(t))
    BY <2>3, <2>4
  <2> QED
    BY <2>5
<1>5. ASSUME \A t \in ws : \E u \in ws : Beats(u, t, prio)
      PROVE  FALSE
  <2>1. \A t \in ws : above(t) # {}
    BY <1>5
  <2>2. ASSUME NEW t \in ws
        PROVE  rank[t] \in 1 .. n - 1
    <3>1. Cardinality(above(t)) # 0
      BY <1>3, <2>1, FS_EmptySet
    <3>2. /\ rank[t] = Cardinality(above(t))
          /\ Cardinality(above(t)) \in Nat
          /\ Cardinality(above(t)) <= n - 1
      BY <1>3
    <3> HIDE DEF rank, above, n
    <3> QED
      BY <1>1, <3>1, <3>2
  <2>3. rank \in [ws -> 1 .. n - 1]
    BY <2>2
  <2>4. n # 0
    BY <1>1, FS_EmptySet
  <2>5. /\ IsFiniteSet(1 .. n - 1)
        /\ Cardinality(1 .. n - 1) < n
    <3> HIDE DEF n
    <3>1. n - 1 \in Int /\ 1 \in Int
      BY <1>1
    <3>2. /\ IsFiniteSet(1 .. n - 1)
          /\ Cardinality(1 .. n - 1) = IF 1 > n - 1 THEN 0 ELSE (n - 1) - 1 + 1
      BY <3>1, FS_Interval
    <3>3. (IF 1 > n - 1 THEN 0 ELSE (n - 1) - 1 + 1) < n
      BY <1>1, <2>4
    <3> QED
      BY <3>2, <3>3
  <2>6. PICK t \in ws, u \in ws : t # u /\ rank[t] = rank[u]
    <3> HIDE DEF rank
    <3> QED
      BY <1>1, <2>3, <2>5, FS_PigeonHole
  <2>7. Beats(t, u, prio) \/ Beats(u, t, prio)
    BY <1>2, <2>6 DEF Beats
  <2>8. rank[t] < rank[u] \/ rank[u] < rank[t]
    BY <1>4, <2>7
  <2>9. rank[t] \in Nat /\ rank[u] \in Nat
    BY <1>3
  <2> QED
    BY <2>6, <2>8, <2>9
<1> QED
  BY <1>5

(* The scan over the waiters finds one of them, of the highest priority.    *)
LEMMA BestIsBest ==
  ASSUME NEW ws \in SUBSET Tasks, ws # {}, NEW prio \in [Tasks -> Nat]
  PROVE  /\ Best(ws, prio) \in ws
         /\ \A u \in ws : prio[u] <= prio[Best(ws, prio)]
<1>1. PICK t \in ws : \A u \in ws : ~ Beats(u, t, prio)
  BY UnbeatenExists
<1>2. \A u \in ws : u \in Nat /\ prio[u] \in Nat
  BY TableFacts
<1>3. \A u \in ws : prio[u] < prio[t] \/ (prio[u] = prio[t] /\ t <= u)
  BY <1>1, <1>2 DEF Beats
<1>4. /\ Best(ws, prio) \in ws
      /\ \A u \in ws : \/ prio[u] < prio[Best(ws, prio)]
                       \/ prio[u] = prio[Best(ws, prio)] /\ Best(ws, prio) <= u
  BY <1>3 DEF Best
<1> QED
  BY <1>2, <1>4
(* Induction over the natural numbers, without an operator for a parameter: *)
(* a set of numbers that is not empty has a least one.                      *)
Below == { ss \in Nat \X Nat : ss[1] < ss[2] }
LEMMA LeastNumber ==
  ASSUME NEW S \in SUBSET Nat, S # {}
  PROVE  \E n \in S : \A m \in S : n <= m
<1>1. OpToRel(<, Nat) = Below
  BY DEF OpToRel, Below
<1>2. IsWellFoundedOn(Below, Nat)
  BY <1>1, NatLessThanWellFounded, Zenon
<1>3. \E n \in S : \A m \in S : ~ (<<m, n>> \in Below)
  BY <1>2, WFMin, Zenon
<1>4. ASSUME NEW m \in Nat, NEW n \in Nat, m < n
      PROVE  <<m, n>> \in Below
  BY <1>4 DEF Below
<1>5. PICK n \in S : \A m \in S : ~ (<<m, n>> \in Below)
  BY <1>3
<1>6. \A m \in S : ~ (m < n)
  BY <1>4, <1>5
<1> QED
  BY <1>5, <1>6
=============================================================================
