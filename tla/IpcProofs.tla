------------------------------- MODULE IpcProofs -------------------------------
(* Theorems about modules Semaphore and Queue, what tasks wait for that      *)
(* others count: permits and items.  They hold for every number of tasks,    *)
(* semaphores, queues, blocks and items, every assignment of priorities and  *)
(* all counts and limits, in a system that has its idle task.                *)
EXTENDS Semaphore, Queue, TaskProofs, SequenceTheorems

(* Semaphores.                                                               *)
SemRetriers(s) == Retriers("sem_take", "sem_yield", s)

LEMMA TaskSetFinite ==
  ASSUME NEW ts \in SUBSET Tasks
  PROVE  IsFiniteSet(ts) /\ Cardinality(ts) \in Nat
  BY TasksFinite, FS_Subset, FS_CardinalityType

LEMMA RetriersAreTasks ==
  ASSUME NEW s
  PROVE  SemRetriers(s) \in SUBSET Tasks /\ SemRetriers(s)' \in SUBSET Tasks
  BY DEF SemRetriers, Retriers

(* Whom a give wakes: one waiter of the semaphore, if there is any.          *)
LEMMA GiveWakesOne ==
  ASSUME TaskTypeOK, NEW s
  PROVE  /\ WokenBy(s) \subseteq Waiters("SEM_WAITING", s)
         /\ Waiters("SEM_WAITING", s) # {} =>
              \E b \in Waiters("SEM_WAITING", s) : WokenBy(s) = {b}
<1>1. Waiters("SEM_WAITING", s) \in SUBSET Tasks /\ priority \in [Tasks -> Nat]
  BY DEF Waiters, TaskTypeOK
<1> QED
  BY <1>1, BestIsBest DEF WokenBy, Woken

(* The count a give leaves.                                                  *)
LEMMA GiveCounts ==
  ASSUME SemTypeOK, NEW s \in Semaphores
  PROVE  /\ Added(s) \in [Semaphores -> Nat]
         /\ \A r \in Semaphores : Added(s)[r] <= MaxCount[r]
         /\ Added(s)[s] <= sem_count[s] + 1
         /\ \A r \in Semaphores : r # s => Added(s)[r] = sem_count[r]
  BY SemAssumption DEF SemTypeOK, Added

(* Permits stay matched by woken tasks: if no woken task gives up and the    *)
(* count grows by one at most, and then only with a new woken task.          *)
LEMMA PermitMatched ==
  ASSUME SemInv, NEW s \in Semaphores, sem_count'[s] \in Nat,
         SemRetriers(s) \subseteq SemRetriers(s)',
         \/ Waiters("SEM_WAITING", s)' = {}
         \/ sem_count'[s] = 0
         \/ /\ Waiters("SEM_WAITING", s) # {}
            /\ \/ sem_count'[s] <= sem_count[s]
               \/ /\ sem_count'[s] <= sem_count[s] + 1
                  /\ SemRetriers(s)' # SemRetriers(s)
  PROVE  Waiters("SEM_WAITING", s)' # {} =>
           sem_count'[s] <= Cardinality(SemRetriers(s)')
<1>1. /\ IsFiniteSet(SemRetriers(s)') /\ IsFiniteSet(SemRetriers(s))
      /\ Cardinality(SemRetriers(s)') \in Nat /\ Cardinality(SemRetriers(s)) \in Nat
  BY TaskSetFinite, RetriersAreTasks
<1>2. /\ Cardinality(SemRetriers(s)) <= Cardinality(SemRetriers(s)')
      /\ SemRetriers(s)' # SemRetriers(s) =>
           Cardinality(SemRetriers(s)) # Cardinality(SemRetriers(s)')
  BY <1>1, FS_Subset
<1>3. Waiters("SEM_WAITING", s) # {} =>
        sem_count[s] <= Cardinality(SemRetriers(s))
  BY DEF SemInv, NoStrandedPermit, SemRetriers
<1>4. sem_count[s] \in Nat
  BY DEF SemInv, SemTypeOK
<1> QED
  BY <1>1, <1>2, <1>3, <1>4

LEMMA StrandedFrom ==
  ASSUME \A s \in Semaphores : Waiters("SEM_WAITING", s)' # {} =>
           sem_count'[s] <= Cardinality(SemRetriers(s)')
  PROVE  NoStrandedPermit'
  BY DEF NoStrandedPermit, SemRetriers

(* A step that parks nobody on a semaphore, moves no count and sends no      *)
(* woken task away.                                                          *)
LEMMA QuietSemStep ==
  ASSUME SemInv, SchedInv', sem_count' = sem_count, UNCHANGED arg,
         \A t \in Tasks : state'[t] = "SEM_WAITING" =>
           /\ state[t] = "SEM_WAITING"
           /\ waiting_for_resource'[t] = waiting_for_resource[t],
         \A t \in Tasks : pc[t] \in {"sem_take", "sem_yield"} =>
           /\ pc'[t] \in {"sem_take", "sem_yield"}
           /\ state[t] = "READY" => state'[t] = "READY"
  PROVE  SemInv'
<1>1. SemTypeOK'
  BY DEF SemInv, SemTypeOK, SchedInv
<1>2. SemWaitersInside'
  BY DEF SemInv, SemWaitersInside
<1>3. ASSUME NEW s \in Semaphores
      PROVE  Waiters("SEM_WAITING", s)' # {} =>
               sem_count'[s] <= Cardinality(SemRetriers(s)')
  <2>1. SemRetriers(s) \subseteq SemRetriers(s)'
    BY DEF SemRetriers, Retriers
  <2>2. Waiters("SEM_WAITING", s)' \subseteq Waiters("SEM_WAITING", s)
    BY DEF Waiters
  <2>3. sem_count'[s] = sem_count[s] /\ sem_count'[s] \in Nat
    BY DEF SemInv, SemTypeOK
  <2>4. \/ Waiters("SEM_WAITING", s)' = {}
        \/ Waiters("SEM_WAITING", s) # {}
    BY <2>2
  <2> QED
    BY <2>1, <2>3, <2>4, PermitMatched
<1> QED
  BY <1>1, <1>2, <1>3, StrandedFrom DEF SemInv

(* A give, by a task or by a callback inside a tick: one waiter more tries.  *)
LEMMA WakingStep ==
  ASSUME SemInv, SchedInv', NEW s \in Semaphores, sem_count' = Added(s),
         UNCHANGED <<pc, arg>>,
         \A t \in Tasks :
           /\ t \in WokenBy(s) => state'[t] = "READY"
           /\ t \notin WokenBy(s) =>
                /\ \/ state'[t] = state[t]
                   \/ state[t] = "BLOCKED" /\ state'[t] = "READY"
                /\ waiting_for_resource'[t] = waiting_for_resource[t]
  PROVE  SemInv'
<1>1. SemTypeOK'
  BY GiveCounts DEF SemInv, SemTypeOK, SchedInv
<1>2. SemWaitersInside'
  BY DEF SemInv, SemWaitersInside
<1>3. ASSUME NEW r \in Semaphores
      PROVE  Waiters("SEM_WAITING", r)' # {} =>
               sem_count'[r] <= Cardinality(SemRetriers(r)')
  <2>1. SemRetriers(r) \subseteq SemRetriers(r)'
    BY DEF SemRetriers, Retriers
  <2>2. Waiters("SEM_WAITING", r)' \subseteq Waiters("SEM_WAITING", r)
    BY DEF Waiters
  <2>3. sem_count'[r] \in Nat
    BY <1>1 DEF SemTypeOK
  <2>4. CASE Waiters("SEM_WAITING", r) = {}
    BY <2>1, <2>2, <2>3, <2>4, PermitMatched
  <2>5. CASE Waiters("SEM_WAITING", r) # {} /\ r # s
    <3>1. sem_count'[r] <= sem_count[r]
      BY <2>3, <2>5, GiveCounts DEF SemInv
    <3> QED
      BY <2>1, <2>3, <2>5, <3>1, PermitMatched
  <2>6. CASE Waiters("SEM_WAITING", r) # {} /\ r = s
    <3>1. PICK b \in Waiters("SEM_WAITING", s) : WokenBy(s) = {b}
      BY <2>6, GiveWakesOne DEF SemInv, SemTypeOK
    <3>2. /\ b \in Tasks /\ state[b] = "SEM_WAITING"
          /\ waiting_for_resource[b] = s
      BY DEF Waiters
    <3>3. b \notin SemRetriers(s)
      BY <3>2 DEF SemRetriers, Retriers
    <3>4. b \in SemRetriers(s)'
      BY <3>1, <3>2 DEF SemInv, SemWaitersInside, SemRetriers, Retriers
    <3>5. sem_count'[s] <= sem_count[s] + 1
      BY GiveCounts DEF SemInv
    <3> QED
      BY <2>1, <2>3, <2>6, <3>3, <3>4, <3>5, PermitMatched
  <2> QED
    BY <2>4, <2>5, <2>6
<1> QED
  BY <1>1, <1>2, <1>3, StrandedFrom DEF SemInv
-----------------------------------------------------------------------------
(* A task that makes a call, or tries again, is READY.                       *)
LEMMA SemCallerReady ==
  ASSUME SchedInv, NEW t \in AppTasks, NEW s, AtHead(t, "sem_take", s)
  PROVE  /\ t \in Tasks
         /\ Running(t)
         /\ state[t] = "READY"
         /\ pc[t] = "run" \/ (pc[t] = "sem_take" /\ arg[t] = s)
<1>1. t \in Tasks
  BY TableFacts
<1>2. Running(t) /\ (pc[t] = "run" \/ (pc[t] = "sem_take" /\ arg[t] = s))
  BY DEF AtHead, Calls
<1>3. pc[t] \notin AtYield
  BY <1>2 DEF AtYield
<1> QED
  BY <1>1, <1>2, <1>3 DEF SchedInv, RunnerIsReady

(* A take that finds a permit: the count falls by one, and if t was a woken  *)
(* task there is one fewer of them.                                          *)
LEMMA TakePermitInv ==
  ASSUME IdleRegistered, SemInv, NEW t \in AppTasks, NEW s \in Semaphores,
         os_sem_take(t, s), sem_count[s] > 0
  PROVE  SemInv'
<1>1. /\ t \in Tasks /\ Running(t) /\ state[t] = "READY"
      /\ pc[t] = "run" \/ (pc[t] = "sem_take" /\ arg[t] = s)
  BY SemCallerReady DEF os_sem_take, SemInv
<1>2. TaskTypeOK /\ SemTypeOK
  BY DEF SemInv, SemTypeOK
<1>3. /\ sem_count \in [Semaphores -> Nat]
      /\ sem_count' = [sem_count EXCEPT ![s] = @ - 1]
      /\ pc' = [pc EXCEPT ![t] = "run"] /\ arg' = [arg EXCEPT ![t] = NULL]
      /\ UNCHANGED <<state, waiting_for_resource, delay_ticks, priority>>
      /\ UNCHANGED cpuVars
  BY <1>2 DEF os_sem_take, Return, SemTypeOK
<1>4. /\ sem_count'[s] = sem_count[s] - 1
      /\ sem_count' \in [Semaphores -> Nat]
      /\ \A r \in Semaphores : r # s => sem_count'[r] = sem_count[r]
  BY <1>3
<1>5. TaskTypeOK'
  BY <1>2, <1>3 DEF TaskTypeOK, cpuVars
<1>6. SemTypeOK'
  BY <1>2, <1>4, <1>5, SemAssumption DEF SemTypeOK
<1>7. SchedInv'
  BY <1>1, <1>3, <1>5, SchedTaskStep DEF SemInv
<1>8. \A u \in Tasks : u # t => pc'[u] = pc[u] /\ arg'[u] = arg[u]
  BY <1>2, <1>3 DEF TaskTypeOK
<1>9. SemWaitersInside'
  BY <1>1, <1>3, <1>8 DEF SemInv, SemWaitersInside
<1>10. ASSUME NEW r \in Semaphores
       PROVE  Waiters("SEM_WAITING", r)' # {} =>
                sem_count'[r] <= Cardinality(SemRetriers(r)')
  <2>1. Waiters("SEM_WAITING", r)' = Waiters("SEM_WAITING", r)
    BY <1>3 DEF Waiters
  <2>2. SemRetriers(r) \ {t} \subseteq SemRetriers(r)'
    BY <1>3, <1>8 DEF SemRetriers, Retriers
  <2>3. CASE r # s
    <3>1. t \notin SemRetriers(r)
      BY <1>1, <2>3 DEF SemRetriers, Retriers
    <3> QED
      BY <1>4, <2>1, <2>2, <2>3, <3>1, PermitMatched
  <2>4. CASE r = s
    <3>1. /\ IsFiniteSet(SemRetriers(s)) /\ IsFiniteSet(SemRetriers(s)')
          /\ Cardinality(SemRetriers(s)) \in Nat
          /\ Cardinality(SemRetriers(s)') \in Nat
      BY TaskSetFinite, RetriersAreTasks
    <3>2. /\ Cardinality(SemRetriers(s)) - 1 <= Cardinality(SemRetriers(s) \ {t})
          /\ Cardinality(SemRetriers(s) \ {t}) \in Nat
      <4>1. CASE t \in SemRetriers(s)
        BY <3>1, <4>1, FS_RemoveElement, TaskSetFinite, RetriersAreTasks
      <4>2. CASE t \notin SemRetriers(s)
        <5>1. SemRetriers(s) \ {t} = SemRetriers(s)
          BY <4>2
        <5> QED
          BY <3>1, <5>1
      <4> QED
        BY <4>1, <4>2
    <3>3. Cardinality(SemRetriers(s) \ {t}) <= Cardinality(SemRetriers(s)')
      BY <2>2, <2>4, <3>1, FS_Subset
    <3>4. Waiters("SEM_WAITING", s) # {} =>
            sem_count[s] <= Cardinality(SemRetriers(s))
      BY DEF SemInv, NoStrandedPermit, SemRetriers
    <3>5. sem_count[s] \in Nat
      BY <1>3
    <3> QED
      BY <1>4, <2>1, <2>4, <3>1, <3>2, <3>3, <3>4, <3>5
  <2> QED
    BY <2>3, <2>4
<1> QED
  BY <1>6, <1>7, <1>9, <1>10, StrandedFrom DEF SemInv

(* A take that parks finds no permit, so none is stranded.                   *)
LEMMA TakeParkSemInv ==
  ASSUME IdleRegistered, SemInv, NEW t \in AppTasks, NEW s \in Semaphores,
         os_sem_take(t, s), ~ (sem_count[s] > 0)
  PROVE  SemInv'
<1>1. /\ t \in Tasks /\ Running(t) /\ state[t] = "READY"
      /\ pc[t] = "run" \/ (pc[t] = "sem_take" /\ arg[t] = s)
  BY SemCallerReady DEF os_sem_take, SemInv
<1>2. TaskTypeOK /\ SemTypeOK /\ s \in Resources
  BY SemAssumption DEF SemInv, SemTypeOK
<1>3. /\ state' = [state EXCEPT ![t] = "SEM_WAITING"]
      /\ waiting_for_resource' = [waiting_for_resource EXCEPT ![t] = s]
      /\ pc' = [pc EXCEPT ![t] = "sem_yield"] /\ arg' = [arg EXCEPT ![t] = s]
      /\ UNCHANGED <<sem_count, delay_ticks, priority>>
      /\ UNCHANGED cpuVars
  BY DEF os_sem_take, Park
<1>4. sem_count[s] = 0
  BY <1>2 DEF SemTypeOK
<1>5. TaskTypeOK'
  BY <1>1, <1>2, <1>3 DEF TaskTypeOK, cpuVars, os_task_state, AtYield
<1>6. SemTypeOK'
  BY <1>2, <1>3, <1>5 DEF SemTypeOK
<1>7. /\ \A u \in Tasks : u # t =>
           /\ state'[u] = state[u]
           /\ waiting_for_resource'[u] = waiting_for_resource[u]
           /\ pc'[u] = pc[u] /\ arg'[u] = arg[u]
      /\ state'[t] = "SEM_WAITING" /\ waiting_for_resource'[t] = s
      /\ pc'[t] = "sem_yield" /\ arg'[t] = s
  BY <1>1, <1>2, <1>3 DEF TaskTypeOK
<1>8. SchedInv'
  <2>1. /\ \A u \in Tasks \ {t} : state'[u] \in {state[u], "READY"}
        /\ pc'[t] \in AtYield
    BY <1>7 DEF AtYield
  <2> QED
    BY <1>1, <1>3, <1>5, <2>1, SchedTaskStep DEF SemInv
<1>9. SemWaitersInside'
  BY <1>7 DEF SemInv, SemWaitersInside
<1>10. ASSUME NEW r \in Semaphores
       PROVE  Waiters("SEM_WAITING", r)' # {} =>
                sem_count'[r] <= Cardinality(SemRetriers(r)')
  <2>1. CASE r = s
    <3>1. Cardinality(SemRetriers(s)') \in Nat
      BY TaskSetFinite, RetriersAreTasks
    <3> QED
      BY <1>3, <1>4, <2>1, <3>1
  <2>2. CASE r # s
    <3>1. SemRetriers(r) \subseteq SemRetriers(r)'
      BY <1>1, <1>7, <2>2 DEF SemRetriers, Retriers
    <3>2. Waiters("SEM_WAITING", r)' \subseteq Waiters("SEM_WAITING", r)
      BY <1>7, <2>2 DEF Waiters
    <3>3. sem_count'[r] = sem_count[r] /\ sem_count'[r] \in Nat
      BY <1>2, <1>3 DEF SemTypeOK
    <3>4. \/ Waiters("SEM_WAITING", r)' = {}
          \/ Waiters("SEM_WAITING", r) # {}
      BY <3>2
    <3> QED
      BY <3>1, <3>3, <3>4, PermitMatched
  <2> QED
    BY <2>1, <2>2
<1> QED
  BY <1>6, <1>8, <1>9, <1>10, StrandedFrom DEF SemInv

LEMMA GiveSemInv ==
  ASSUME IdleRegistered, SemInv, NEW t \in AppTasks, NEW s \in Semaphores,
         os_sem_give(t, s)
  PROVE  SemInv'
<1>1. /\ t \in Tasks /\ Running(t) /\ state[t] = "READY"
  BY SemCallerReady DEF os_sem_give, AtHead, SemInv
<1>2. /\ sem_count' = Added(s)
      /\ state' = [u \in Tasks |-> IF u \in WokenBy(s) THEN "READY" ELSE state[u]]
      /\ waiting_for_resource' =
           [u \in Tasks |-> IF u \in WokenBy(s) THEN NULL
                                               ELSE waiting_for_resource[u]]
      /\ UNCHANGED <<delay_ticks, priority, pc, arg>>
      /\ UNCHANGED cpuVars
  BY DEF os_sem_give, Wake
<1>3. TaskTypeOK'
  BY <1>2 DEF SemInv, SemTypeOK, TaskTypeOK, cpuVars, os_task_state
<1>4. SchedInv'
  <2>1. \A u \in Tasks : state'[u] \in {state[u], "READY"}
    BY <1>2
  <2> QED
    BY <1>1, <1>2, <1>3, <2>1, SchedTaskStep DEF SemInv
<1>5. \A u \in Tasks :
        /\ u \in WokenBy(s) => state'[u] = "READY"
        /\ u \notin WokenBy(s) =>
             /\ state'[u] = state[u]
             /\ waiting_for_resource'[u] = waiting_for_resource[u]
  BY <1>2
<1> QED
  BY <1>2, <1>4, <1>5, WakingStep

LEMMA TickSemInv ==
  ASSUME IdleRegistered, SemInv, NEW s \in Semaphores, SysTickGives(s)
  PROVE  SemInv'
<1>1. /\ sem_count' = Added(s) /\ Tick(WokenBy(s)) /\ UNCHANGED <<pc, arg>>
  BY DEF SysTickGives, Tick
<1>2. TaskTypeOK'
  BY <1>1 DEF SemInv, SemTypeOK, TaskTypeOK, Tick, os_decrement_blocked_tasks,
              Sleeping, Expiring, os_task_state
<1>3. SchedInv'
  BY <1>1, <1>2, SchedTick, IdleFacts DEF SemInv
<1>4. \A u \in Tasks :
        /\ u \in WokenBy(s) => state'[u] = "READY"
        /\ u \notin WokenBy(s) =>
             /\ \/ state'[u] = state[u]
                \/ state[u] = "BLOCKED" /\ state'[u] = "READY"
             /\ waiting_for_resource'[u] = waiting_for_resource[u]
  BY <1>1 DEF Tick, os_decrement_blocked_tasks, Expiring, Sleeping
<1> QED
  BY <1>1, <1>3, <1>4, WakingStep

(* The steps of module Task.                                                 *)
LEMMA TaskStepSemInv ==
  ASSUME IdleRegistered, SemInv, TaskNext, UNCHANGED sem_count
  PROVE  SemInv'
<1>1. SchedInv' /\ TaskTypeOK' /\ TaskTypeOK
  BY SchedNext DEF SemInv, SchedInv
<1>2. CASE SysTick_Handler
  <2>1. /\ UNCHANGED <<pc, arg>>
        /\ \A t \in Tasks :
             /\ waiting_for_resource'[t] = waiting_for_resource[t]
             /\ \/ state'[t] = state[t]
                \/ state[t] = "BLOCKED" /\ state'[t] = "READY"
    BY <1>2 DEF SysTick_Handler, Tick, os_decrement_blocked_tasks, Expiring, Sleeping
  <2> QED
    BY <1>1, <2>1, QuietSemStep
<1>3. CASE SwitchStep
  <2>1. UNCHANGED <<state, waiting_for_resource, pc, arg>>
    BY <1>3 DEF SwitchStep, PendSV_Handler, ScanOne, Dispatch, tcbVars
  <2> QED
    BY <1>1, <2>1, QuietSemStep
<1>4. ASSUME NEW t \in Tasks, Yield(t)
      PROVE  SemInv'
  <2>1. /\ UNCHANGED <<state, waiting_for_resource, arg>>
        /\ pc' = [pc EXCEPT ![t] = YieldTo[pc[t]]]
        /\ pc[t] \in AtYield
    BY <1>4 DEF Yield, tcbVars
  <2>2. /\ pc[t] # "sem_take"
        /\ pc[t] = "sem_yield" => YieldTo[pc[t]] = "sem_take"
    BY <2>1 DEF AtYield, YieldTo
  <2>3. \A u \in Tasks : pc[u] \in {"sem_take", "sem_yield"} =>
                          pc'[u] \in {"sem_take", "sem_yield"}
    BY <1>1, <2>1, <2>2 DEF TaskTypeOK
  <2> QED
    BY <1>1, <2>1, <2>3, QuietSemStep
<1>5. ASSUME NEW t \in Tasks, NEW ticks \in Delays, os_delay(t, ticks)
      PROVE  SemInv'
  <2>1. /\ UNCHANGED <<waiting_for_resource, arg>>
        /\ state' = [state EXCEPT ![t] = "BLOCKED"]
        /\ pc' = [pc EXCEPT ![t] = "delay_yield"]
        /\ pc[t] = "run"
    BY <1>5 DEF os_delay, Calls
  <2>2. \A u \in Tasks :
          /\ u # t => state'[u] = state[u] /\ pc'[u] = pc[u]
          /\ u = t => state'[u] = "BLOCKED"
    BY <1>1, <2>1 DEF TaskTypeOK
  <2>3. \A u \in Tasks : pc[u] \in {"sem_take", "sem_yield"} => u # t
    BY <2>1
  <2> QED
    BY <1>1, <2>1, <2>2, <2>3, QuietSemStep
<1> QED
  BY <1>2, <1>3, <1>4, <1>5 DEF TaskNext
-----------------------------------------------------------------------------
LEMMA SemStart == IdleRegistered /\ SemInit => SemInv
<1> SUFFICES ASSUME IdleRegistered, SemInit
             PROVE  SemInv
  OBVIOUS
<1>1. SchedInv /\ TaskTypeOK
  BY SchedInit, TaskInitTypeOK DEF SemInit
<1>2. SemTypeOK
  BY <1>1, SemAssumption DEF SemInit, os_sem_init, SemTypeOK
<1>3. \A t \in Tasks : state[t] # "SEM_WAITING"
  BY DEF SemInit, TaskInit
<1>4. SemWaitersInside /\ NoStrandedPermit
  BY <1>3 DEF SemWaitersInside, NoStrandedPermit, Waiters
<1> QED
  BY <1>1, <1>2, <1>4 DEF SemInv

LEMMA SemStep ==
  ASSUME IdleRegistered, SemInv, [SemNext]_semVars
  PROVE  SemInv'
<1>1. CASE TaskNext /\ UNCHANGED sem_count
  BY <1>1, TaskStepSemInv
<1>2. ASSUME NEW s \in Semaphores, SysTickGives(s)
      PROVE  SemInv'
  BY <1>2, TickSemInv
<1>3. ASSUME NEW t \in AppTasks, NEW s \in Semaphores, os_sem_take(t, s)
      PROVE  SemInv'
  BY <1>3, TakePermitInv, TakeParkSemInv
<1>4. ASSUME NEW t \in AppTasks, NEW s \in Semaphores, os_sem_give(t, s)
      PROVE  SemInv'
  BY <1>4, GiveSemInv
<1>5. CASE UNCHANGED semVars
  <2>1. SchedInv'
    BY <1>5, SchedStutter DEF semVars, SemInv
  <2> QED
    BY <1>5, <2>1, QuietSemStep DEF semVars, taskVars
<1> QED
  BY <1>1, <1>2, <1>3, <1>4, <1>5 DEF SemNext

LEMMA SemInvariant ==
  ASSUME IdleRegistered
  PROVE  SemSpec => []SemInv
<1>1. SemInit => SemInv
  BY SemStart
<1>2. SemInv /\ [SemNext]_semVars => SemInv'
  BY SemStep
<1> QED
  BY <1>1, <1>2, PTL DEF SemSpec

(* The count of a semaphore stays between zero and its maximum, through      *)
(* takes and gives of tasks and of callbacks in any order.                   *)
THEOREM SemTypeCorrect ==
  ASSUME IdleRegistered
  PROVE  SemSpec => []SemTypeOK
<1>1. SemInv => SemTypeOK
  BY DEF SemInv
<1> QED
  BY <1>1, SemInvariant, PTL

(* While tasks are parked on a semaphore, each permit in its count has a     *)
(* woken task of its own that will try to take it.                           *)
THEOREM PermitsNeverStranded ==
  ASSUME IdleRegistered
  PROVE  SemSpec => []NoStrandedPermit
<1>1. SemInv => NoStrandedPermit
  BY DEF SemInv
<1> QED
  BY <1>1, SemInvariant, PTL
-----------------------------------------------------------------------------
(* Queues, and first their lists of blocks.  What ListFrom defines by       *)
(* recursion exists: a shortest list without a solution would extend one    *)
(* that has.                                                                *)
Solves(f, h, nx, n) ==
  f = [i \in 1 .. n |-> IF i = 1 THEN h ELSE nx[f[i - 1]]]

LEMMA ListExtends ==
  ASSUME NEW h, NEW nx, NEW m \in Nat, NEW f, Solves(f, h, nx, m)
  PROVE  \E g : Solves(g, h, nx, m + 1)
<1> DEFINE last == IF m = 0 THEN h ELSE nx[f[m]]
           g == [i \in 1 .. m + 1 |-> IF i <= m THEN f[i] ELSE last]
<1>1. \A i \in 1 .. m : f[i] = IF i = 1 THEN h ELSE nx[f[i - 1]]
  BY DEF Solves
<1>2. ASSUME NEW i \in 1 .. m + 1
      PROVE  g[i] = IF i = 1 THEN h ELSE nx[g[i - 1]]
  <2>1. CASE i = m + 1 /\ m = 0
    BY <2>1
  <2>2. CASE i = m + 1 /\ m # 0
    <3>1. g[i] = nx[f[m]] /\ g[i - 1] = f[m] /\ i # 1
      BY <2>2
    <3> QED
      BY <3>1
  <2>3. CASE i # m + 1
    <3>1. i \in 1 .. m /\ g[i] = f[i]
      BY <2>3
    <3>2. i # 1 => g[i - 1] = f[i - 1]
      BY <3>1
    <3> QED
      BY <1>1, <3>1, <3>2
  <2> QED
    BY <2>1, <2>2, <2>3
<1>3. g = [i \in 1 .. m + 1 |-> g[i]]
  OBVIOUS
<1> HIDE DEF g
<1>4. Solves(g, h, nx, m + 1)
  BY <1>2, <1>3 DEF Solves
<1> QED
  BY <1>4

LEMMA ListExists ==
  ASSUME NEW h, NEW nx, NEW n \in Nat
  PROVE  \E f : Solves(f, h, nx, n)
<1> DEFINE Unsolved == { m \in Nat : ~ \E f : Solves(f, h, nx, m) }
<1>1. ASSUME Unsolved # {}
      PROVE  FALSE
  <2>1. PICK m \in Unsolved : \A k \in Unsolved : m <= k
    BY <1>1, LeastNumber
  <2>2. m # 0
    <3>1. Solves([i \in 1 .. 0 |-> h], h, nx, 0)
      BY DEF Solves
    <3> QED
      BY <3>1
  <2>3. PICK k \in Nat : k = m - 1
    BY <2>2
  <2>4. k \notin Unsolved
    BY <2>1, <2>3
  <2>5. PICK f : Solves(f, h, nx, k)
    BY <2>4
  <2>6. \E g : Solves(g, h, nx, k + 1)
    BY <2>5, ListExtends
  <2>7. k + 1 = m
    BY <2>1, <2>3
  <2> QED
    BY <2>1, <2>6, <2>7
<1> QED
  BY <1>1

LEMMA ListSolves ==
  ASSUME NEW h, NEW nx, NEW n \in Nat
  PROVE  Solves(ListFrom(h, nx, n), h, nx, n)
<1>1. PICK f : Solves(f, h, nx, n)
  BY ListExists
<1>2. \E g : g = [i \in 1 .. n |-> IF i = 1 THEN h ELSE nx[g[i - 1]]]
  BY <1>1 DEF Solves
<1> QED
  BY <1>2 DEF Solves, ListFrom

(* ... and is unique.                                                       *)
LEMMA ListUnique ==
  ASSUME NEW h, NEW nx, NEW n \in Nat, NEW f, Solves(f, h, nx, n)
  PROVE  ListFrom(h, nx, n) = f
<1> DEFINE at == ListFrom(h, nx, n)
           Differ == { i \in 1 .. n : at[i] # f[i] }
<1>1. /\ \A i \in 1 .. n : at[i] = IF i = 1 THEN h ELSE nx[at[i - 1]]
      /\ at = [i \in 1 .. n |-> at[i]]
  BY ListSolves DEF Solves
<1>2. /\ \A i \in 1 .. n : f[i] = IF i = 1 THEN h ELSE nx[f[i - 1]]
      /\ f = [i \in 1 .. n |-> f[i]]
  BY DEF Solves
<1> HIDE DEF at
<1>3. ASSUME Differ # {}
      PROVE  FALSE
  <2>1. Differ \in SUBSET Nat
    OBVIOUS
  <2>2. PICK i \in Differ : \A k \in Differ : i <= k
    <3> HIDE DEF Differ
    <3> QED
      BY <1>3, <2>1, LeastNumber
  <2>3. i \in 1 .. n /\ at[i] # f[i]
    BY <2>2
  <2>4. CASE i = 1
    BY <1>1, <1>2, <2>4, <2>3
  <2>5. CASE i # 1
    <3>1. i - 1 \in 1 .. n /\ ~ (i <= i - 1)
      BY <2>5, <2>3
    <3>2. at[i - 1] = f[i - 1]
      BY <2>2, <3>1
    <3>3. at[i] = nx[at[i - 1]] /\ f[i] = nx[f[i - 1]]
      BY <1>1, <1>2, <2>5, <2>3
    <3> QED
      BY <2>3, <3>2, <3>3
  <2> QED
    BY <2>4, <2>5
<1>4. \A i \in 1 .. n : at[i] = f[i]
  BY <1>3
<1> QED
  BY <1>1, <1>2, <1>4 DEF at
-----------------------------------------------------------------------------
(* The facts of BlocksAccounted, one block at a time.                       *)
Spots(q) == 1 .. q_count[q]

InLists ==
  /\ \A q \in Queues : NodeAt(q) \in [Spots(q) -> Nodes]
  /\ \A p, q \in Queues : \A i \in Spots(p), j \in Spots(q) :
       NodeAt(p)[i] = NodeAt(q)[j] => p = q /\ i = j

Elsewhere ==
  /\ \A q \in Queues : \A i \in Spots(q) :
       /\ NodeAt(q)[i] \notin heap_free
       /\ \A t \in Tasks : node[t] # NodeAt(q)[i]
  /\ \A t \in Tasks : node[t] \notin heap_free
  /\ \A t, u \in Tasks : node[t] = node[u] /\ node[t] # NULL => t = u

AllKnown ==
  \A n \in Nodes :
    \/ n \in heap_free
    \/ \E t \in Tasks : n = node[t]
    \/ \E q \in Queues : \E i \in Spots(q) : n = NodeAt(q)[i]

TailsLast ==
  \A q \in Queues :
    tail[q] = IF q_count[q] = 0 THEN NULL ELSE NodeAt(q)[q_count[q]]

Apart == InLists /\ Elsewhere /\ AllKnown /\ TailsLast

LEMMA NodeAtSolves ==
  ASSUME QueueTypeOK, NEW q \in Queues
  PROVE  /\ q_count[q] \in Nat
         /\ NodeAt(q) = [i \in Spots(q) |-> NodeAt(q)[i]]
         /\ \A i \in Spots(q) :
              NodeAt(q)[i] = IF i = 1 THEN head[q] ELSE next[NodeAt(q)[i - 1]]
<1>1. PICK n \in Nat : n = q_count[q]
  BY DEF QueueTypeOK
<1>2. Solves(NodeAt(q), head[q], next, n)
  BY <1>1, ListSolves DEF NodeAt
<1> QED
  BY <1>1, <1>2 DEF Solves, Spots

(* A list has as many blocks as its count says if and only if it has none   *)
(* twice.                                                                   *)
LEMMA LinkedCounts ==
  ASSUME QueueTypeOK, NEW q \in Queues
  PROVE  /\ \A n : n \in Linked(q) <=> \E i \in Spots(q) : n = NodeAt(q)[i]
         /\ Cardinality(Linked(q)) = q_count[q] <=>
              \A i, j \in Spots(q) : NodeAt(q)[i] = NodeAt(q)[j] => i = j
<1>1. \A n : n \in Linked(q) <=> \E i \in Spots(q) : n = NodeAt(q)[i]
  BY DEF Linked, Spots
<1>2. PICK n \in Nat : n = q_count[q]
  BY DEF QueueTypeOK
<1>3. PICK f : f = NodeAt(q)
  OBVIOUS
<1>4. f = [i \in 1 .. n |-> f[i]]
  BY <1>2, <1>3, NodeAtSolves DEF Spots
<1>5. f \in [1 .. n -> Linked(q)]
  BY <1>1, <1>2, <1>3, <1>4 DEF Spots
<1>6. f \in Surjection(1 .. n, Linked(q))
  BY <1>1, <1>2, <1>3, <1>5 DEF Surjection, Spots
<1>7. IsFiniteSet(1 .. n) /\ Cardinality(1 .. n) = n
  <2>1. IsFiniteSet(1 .. n) /\ Cardinality(1 .. n) = IF 1 > n THEN 0 ELSE n - 1 + 1
    BY FS_Interval
  <2> QED
    BY <2>1
<1>8. Cardinality(Linked(q)) = n <=> f \in Injection(1 .. n, Linked(q))
  BY <1>6, <1>7, FS_Surjection
<1>9. f \in Injection(1 .. n, Linked(q)) <=>
        \A i, j \in 1 .. n : f[i] = f[j] => i = j
  BY <1>5 DEF Injection, IsInjective
<1> QED
  BY <1>1, <1>2, <1>3, <1>8, <1>9 DEF Spots

LEMMA ApartIsAccounted == QueueTypeOK => (Apart <=> BlocksAccounted)
<1> SUFFICES ASSUME QueueTypeOK
             PROVE  Apart <=> BlocksAccounted
  OBVIOUS
<1>1. \A q \in Queues :
        /\ \A n : n \in Linked(q) <=> \E i \in Spots(q) : n = NodeAt(q)[i]
        /\ Cardinality(Linked(q)) = q_count[q] <=>
             \A i, j \in Spots(q) : NodeAt(q)[i] = NodeAt(q)[j] => i = j
        /\ NodeAt(q) = [i \in Spots(q) |-> NodeAt(q)[i]]
  BY LinkedCounts, NodeAtSolves
<1>2. \A n : n \in InHand <=> n # NULL /\ \E t \in Tasks : n = node[t]
  BY DEF InHand
<1>3. /\ NULL \notin Nodes /\ heap_free \subseteq Nodes
      /\ \A t \in Tasks : node[t] \in Nodes \cup {NULL}
  BY QueueAssumption DEF QueueTypeOK
<1>4. ASSUME Apart
      PROVE  BlocksAccounted
  <2>1. \A q \in Queues : Linked(q) \subseteq Nodes
    BY <1>1, <1>4 DEF Apart, InLists
  <2>2. Nodes = heap_free \cup InHand \cup UNION { Linked(q) : q \in Queues }
    <3>1. ASSUME NEW n \in Nodes
          PROVE  n \in heap_free \cup InHand \cup UNION { Linked(q) : q \in Queues }
      BY <1>1, <1>2, <1>3, <1>4 DEF Apart, AllKnown
    <3>2. InHand \subseteq Nodes
      BY <1>2, <1>3
    <3> QED
      BY <1>3, <2>1, <3>1, <3>2
  <2>3. heap_free \cap InHand = {}
    BY <1>2, <1>4 DEF Apart, Elsewhere
  <2>4. ASSUME NEW q \in Queues
        PROVE  /\ Linked(q) \cap (heap_free \cup InHand) = {}
               /\ Cardinality(Linked(q)) = q_count[q]
               /\ \A p \in Queues \ {q} : Linked(p) \cap Linked(q) = {}
    <3>1. Linked(q) \cap (heap_free \cup InHand) = {}
      BY <1>1, <1>2, <1>4 DEF Apart, Elsewhere
    <3>2. Cardinality(Linked(q)) = q_count[q]
      BY <1>1, <1>4 DEF Apart, InLists
    <3>3. \A p \in Queues \ {q} : Linked(p) \cap Linked(q) = {}
      BY <1>1, <1>4 DEF Apart, InLists
    <3> QED
      BY <3>1, <3>2, <3>3
  <2>5. \A t, u \in Tasks : node[t] = node[u] /\ node[t] # NULL => t = u
    BY <1>4 DEF Apart, Elsewhere
  <2> QED
    BY <1>4, <2>2, <2>3, <2>4, <2>5 DEF BlocksAccounted, Apart, TailsLast
<1>5. ASSUME BlocksAccounted
      PROVE  Apart
  <2>1. Nodes = heap_free \cup InHand \cup UNION { Linked(q) : q \in Queues }
    BY <1>5 DEF BlocksAccounted
  <2>2. InLists
    <3>1. ASSUME NEW q \in Queues
          PROVE  NodeAt(q) \in [Spots(q) -> Nodes]
      <4>1. \A i \in Spots(q) : NodeAt(q)[i] \in Nodes
        BY <1>1, <2>1
      <4> QED
        BY <1>1, <4>1
    <3>2. ASSUME NEW p \in Queues, NEW q \in Queues,
                 NEW i \in Spots(p), NEW j \in Spots(q), NodeAt(p)[i] = NodeAt(q)[j]
          PROVE  p = q /\ i = j
      <4>1. NodeAt(p)[i] \in Linked(p) \cap Linked(q)
        BY <1>1, <3>2
      <4>2. p = q
        BY <1>5, <4>1 DEF BlocksAccounted
      <4>3. Cardinality(Linked(q)) = q_count[q]
        BY <1>5 DEF BlocksAccounted
      <4> QED
        BY <1>1, <3>2, <4>2, <4>3
    <3> QED
      BY <3>1, <3>2 DEF InLists
  <2>3. Elsewhere
    <3>1. ASSUME NEW q \in Queues, NEW i \in Spots(q)
          PROVE  NodeAt(q)[i] \notin heap_free /\ \A t \in Tasks : node[t] # NodeAt(q)[i]
      <4>1. NodeAt(q)[i] \in Linked(q) /\ NodeAt(q)[i] \in Nodes
        BY <1>1, <2>1
      <4>2. NodeAt(q)[i] \notin heap_free \cup InHand
        BY <1>5, <4>1 DEF BlocksAccounted
      <4> QED
        BY <1>2, <1>3, <4>1, <4>2
    <3>2. \A t \in Tasks : node[t] \notin heap_free
      BY <1>2, <1>3, <1>5 DEF BlocksAccounted
    <3>3. \A t, u \in Tasks : node[t] = node[u] /\ node[t] # NULL => t = u
      BY <1>5 DEF BlocksAccounted
    <3> QED
      BY <3>1, <3>2, <3>3 DEF Elsewhere
  <2>4. AllKnown
    BY <1>1, <1>2, <2>1 DEF AllKnown
  <2>5. TailsLast
    BY <1>5 DEF BlocksAccounted, TailsLast
  <2> QED
    BY <2>2, <2>3, <2>4, <2>5 DEF Apart
<1> QED
  BY <1>4, <1>5

LEMMA AccountedNext ==
  ASSUME QueueTypeOK', Apart'
  PROVE  BlocksAccounted'
<1>1. (QueueTypeOK => (Apart <=> BlocksAccounted))'
  BY ApartIsAccounted, PTL
<1> QED
  BY <1>1
-----------------------------------------------------------------------------
(* What the steps of the code do to a list: nothing, a block at its end, or *)
(* one less at its head.                                                    *)
LEMMA ListKept ==
  ASSUME QueueTypeOK, NEW q \in Queues,
         head'[q] = head[q], q_count'[q] = q_count[q],
         \A i \in Spots(q) : next'[NodeAt(q)[i]] = next[NodeAt(q)[i]]
  PROVE  NodeAt(q)' = NodeAt(q)
<1>1. PICK n \in Nat : n = q_count[q]
  BY NodeAtSolves
<1>2. PICK f : f = NodeAt(q)
  OBVIOUS
<1>3. PICK h : h = head'[q]
  OBVIOUS
<1>4. PICK nx : nx = next'
  OBVIOUS
<1>5. /\ f = [i \in 1 .. n |-> f[i]]
      /\ \A i \in 1 .. n : f[i] = IF i = 1 THEN h ELSE next[f[i - 1]]
  BY <1>1, <1>2, <1>3, NodeAtSolves DEF Spots
<1>6. \A i \in 1 .. n : f[i] = IF i = 1 THEN h ELSE nx[f[i - 1]]
  <2>1. \A i \in 1 .. n : i # 1 => i - 1 \in 1 .. n
    BY <1>1
  <2>2. \A i \in 1 .. n : nx[f[i]] = next[f[i]]
    BY <1>1, <1>2, <1>4 DEF Spots
  <2> QED
    BY <1>5, <2>1, <2>2
<1>7. Solves(f, h, nx, n)
  BY <1>5, <1>6 DEF Solves
<1>8. ListFrom(h, nx, n) = f
  BY <1>7, ListUnique
<1> QED
  BY <1>1, <1>2, <1>3, <1>4, <1>8 DEF NodeAt

Longer(f, n, x) == [i \in 1 .. n + 1 |-> IF i <= n THEN f[i] ELSE x]

LEMMA ListGrows ==
  ASSUME QueueTypeOK, NEW q \in Queues, NEW x, NEW n \in Nat, n = q_count[q],
         q_count'[q] = n + 1,
         n = 0 => head'[q] = x,
         n # 0 => head'[q] = head[q] /\ next'[NodeAt(q)[n]] = x,
         \A i \in 1 .. n - 1 : next'[NodeAt(q)[i]] = next[NodeAt(q)[i]]
  PROVE  NodeAt(q)' = Longer(NodeAt(q), n, x)
<1>1. PICK f : f = NodeAt(q)
  OBVIOUS
<1>2. PICK h : h = head'[q]
  OBVIOUS
<1>3. PICK nx : nx = next'
  OBVIOUS
<1>4. PICK m \in Nat : m = n + 1
  OBVIOUS
<1>5. \A i \in 1 .. n : f[i] = IF i = 1 THEN head[q] ELSE next[f[i - 1]]
  BY <1>1, NodeAtSolves DEF Spots
<1>6. PICK g : /\ g = [i \in 1 .. m |-> IF i <= n THEN f[i] ELSE x]
               /\ g = Longer(f, n, x)
  BY <1>4 DEF Longer
<1>7. ASSUME NEW i \in 1 .. m
      PROVE  g[i] = IF i = 1 THEN h ELSE nx[g[i - 1]]
  <2>1. CASE i = 1
    <3>1. CASE n = 0
      BY <1>2, <1>6, <2>1, <3>1
    <3>2. CASE n # 0
      BY <1>2, <1>5, <1>6, <2>1, <3>2
    <3> QED
      BY <3>1, <3>2
  <2>2. CASE i # 1 /\ i <= n
    <3>1. i - 1 \in 1 .. n - 1 /\ i - 1 \in 1 .. m /\ i - 1 <= n /\ i \in 1 .. n
      BY <2>2
    <3>2. g[i] = f[i] /\ g[i - 1] = f[i - 1]
      BY <1>6, <2>2, <3>1
    <3>3. f[i] = next[f[i - 1]]
      BY <1>5, <2>2, <3>1
    <3>4. nx[f[i - 1]] = next[f[i - 1]]
      BY <1>1, <1>3, <3>1
    <3> QED
      BY <2>2, <3>2, <3>3, <3>4
  <2>3. CASE i # 1 /\ ~ (i <= n)
    <3>1. i = n + 1 /\ n # 0 /\ i - 1 = n /\ n \in 1 .. m
      BY <1>4, <2>3
    <3>2. g[i] = x /\ g[i - 1] = f[n]
      BY <1>6, <2>3, <3>1
    <3> QED
      BY <1>1, <1>3, <2>3, <3>1, <3>2
  <2> QED
    BY <2>1, <2>2, <2>3
<1>8. Solves(g, h, nx, m)
  BY <1>6, <1>7 DEF Solves
<1>9. ListFrom(h, nx, m) = g
  BY <1>8, ListUnique
<1> QED
  BY <1>1, <1>2, <1>3, <1>4, <1>6, <1>9 DEF NodeAt

Shorter(f, n) == [i \in 1 .. n |-> f[i + 1]]

LEMMA ListShrinks ==
  ASSUME QueueTypeOK, NEW q \in Queues, NEW n \in Nat, n + 1 = q_count[q],
         q_count'[q] = n, head'[q] = next[head[q]], next' = next
  PROVE  NodeAt(q)' = Shorter(NodeAt(q), n)
<1>1. PICK f : f = NodeAt(q)
  OBVIOUS
<1>2. PICK h : h = head'[q]
  OBVIOUS
<1>3. \A i \in 1 .. n + 1 : f[i] = IF i = 1 THEN head[q] ELSE next[f[i - 1]]
  BY <1>1, NodeAtSolves DEF Spots
<1>4. PICK g : g = [i \in 1 .. n |-> f[i + 1]] /\ g = Shorter(f, n)
  BY DEF Shorter
<1>5. ASSUME NEW i \in 1 .. n
      PROVE  g[i] = IF i = 1 THEN h ELSE next[g[i - 1]]
  <2>1. /\ i + 1 \in 1 .. n + 1 /\ i + 1 # 1 /\ (i + 1) - 1 = i
        /\ g[i] = f[i + 1]
    BY <1>4
  <2>2. f[i + 1] = next[f[i]]
    BY <1>3, <2>1
  <2>3. CASE i = 1
    <3>1. f[1] = head[q]
      BY <1>3
    <3> QED
      BY <1>2, <2>1, <2>2, <2>3, <3>1
  <2>4. CASE i # 1
    <3>1. i - 1 \in 1 .. n /\ (i - 1) + 1 = i
      BY <2>4
    <3>2. g[i - 1] = f[i]
      BY <1>4, <3>1
    <3> QED
      BY <2>1, <2>2, <2>4, <3>2
  <2> QED
    BY <2>3, <2>4
<1>6. Solves(g, h, next, n)
  BY <1>4, <1>5 DEF Solves
<1>7. ListFrom(h, next, n) = g
  BY <1>6, ListUnique
<1> QED
  BY <1>1, <1>2, <1>4, <1>7 DEF NodeAt
-----------------------------------------------------------------------------
(* Whose block is whose after each kind of step.                            *)
Placed == Apart /\ ListsEnd

(* What a queue holds, in list order.                                       *)
Content(q) == [i \in 1 .. q_count[q] |-> data[NodeAt(q)[i]]]

SameContent == \A q \in Queues : Content(q)' = Content(q)

Silent == SameContent /\ UNCHANGED buffer

listVars == <<head, tail, q_count>>
nodeVars == <<next, data, heap_free>>

LEMMA PlacedFacts ==
  ASSUME QueueInv, ~heap_raced
  PROVE  /\ Placed /\ QueueTypeOK
         /\ NULL \notin Nodes
         /\ heap_free \subseteq Nodes
         /\ \A t \in Tasks : node[t] \in Nodes \cup {NULL}
<1>1. QueueTypeOK /\ Placed
  BY ApartIsAccounted DEF QueueInv, BlocksOwned, Placed
<1> QED
  BY <1>1, QueueAssumption DEF QueueTypeOK

(* The lists themselves stay as they are.                                   *)
LEMMA SameLists ==
  ASSUME QueueTypeOK, Placed, UNCHANGED listVars,
         \A q \in Queues : \A i \in Spots(q) :
           /\ next'[NodeAt(q)[i]] = next[NodeAt(q)[i]]
           /\ data'[NodeAt(q)[i]] = data[NodeAt(q)[i]]
  PROVE  /\ \A q \in Queues : NodeAt(q)' = NodeAt(q) /\ Spots(q)' = Spots(q)
         /\ InLists' /\ TailsLast' /\ ListsEnd' /\ SameContent
<1>1. UNCHANGED <<head, tail, q_count>>
  BY DEF listVars
<1>2. ASSUME NEW q \in Queues
      PROVE  NodeAt(q)' = NodeAt(q) /\ Spots(q)' = Spots(q)
  BY <1>1, ListKept DEF Spots
<1>3. InLists'
  BY <1>2 DEF Placed, Apart, InLists
<1>4. TailsLast'
  BY <1>1, <1>2 DEF Placed, Apart, TailsLast
<1>5. ListsEnd'
  <2> SUFFICES ASSUME NEW q \in Queues
               PROVE  /\ \A i \in Spots(q) : data'[NodeAt(q)[i]] \in Items
                      /\ IF q_count[q] = 0
                         THEN head[q] = NULL
                         ELSE next'[NodeAt(q)[q_count[q]]] = NULL
    BY <1>1, <1>2 DEF ListsEnd, Spots
  <2>1. q_count[q] # 0 => q_count[q] \in Spots(q)
    BY NodeAtSolves DEF Spots
  <2> QED
    BY <2>1 DEF Placed, ListsEnd, Spots
<1>6. ASSUME NEW q \in Queues
      PROVE  Content(q)' = Content(q)
  <2>1. NodeAt(q)' = NodeAt(q) /\ q_count'[q] = q_count[q]
    BY <1>1, <1>2
  <2>2. \A i \in 1 .. q_count[q] : data'[NodeAt(q)[i]] = data[NodeAt(q)[i]]
    BY DEF Spots
  <2> QED
    BY <2>1, <2>2 DEF Content
<1> QED
  BY <1>2, <1>3, <1>4, <1>5, <1>6 DEF SameContent

LEMMA PlacedSame ==
  ASSUME QueueInv, ~heap_raced, UNCHANGED <<listVars, nodeVars, node>>
  PROVE  Placed' /\ SameContent
<1>1. /\ QueueTypeOK /\ Placed
      /\ UNCHANGED listVars /\ UNCHANGED <<next, data, heap_free, node>>
  BY PlacedFacts DEF nodeVars
<1>2. /\ \A q \in Queues : NodeAt(q)' = NodeAt(q) /\ Spots(q)' = Spots(q)
      /\ InLists' /\ TailsLast' /\ ListsEnd' /\ SameContent
  BY <1>1, SameLists
<1>3. Elsewhere'
  BY <1>1, <1>2 DEF Placed, Apart, Elsewhere
<1>4. AllKnown'
  BY <1>1, <1>2 DEF Placed, Apart, AllKnown
<1> QED
  BY <1>2, <1>3, <1>4 DEF Placed, Apart

(* A free block goes to a task that has none in hand.                       *)
LEMMA PlacedAlloc ==
  ASSUME QueueInv, ~heap_raced, NEW t \in Tasks, NEW n \in heap_free, NEW d,
         node[t] = NULL, UNCHANGED listVars,
         heap_free' = heap_free \ {n},
         next' = [next EXCEPT ![n] = NULL], data' = [data EXCEPT ![n] = d],
         node' = [node EXCEPT ![t] = n]
  PROVE  Placed' /\ SameContent
<1>1. /\ QueueTypeOK /\ Placed /\ NULL \notin Nodes /\ n \in Nodes
      /\ \A u \in Tasks : node[u] \in Nodes \cup {NULL}
  BY PlacedFacts
<1>2. /\ \A m \in Nodes : m # n => next'[m] = next[m] /\ data'[m] = data[m]
      /\ \A u \in Tasks : u # t => node'[u] = node[u]
      /\ node'[t] = n
  BY <1>1 DEF QueueTypeOK
<1>3. \A q \in Queues : \A i \in Spots(q) :
        NodeAt(q)[i] \in Nodes /\ NodeAt(q)[i] # n
  BY <1>1 DEF Placed, Apart, InLists, Elsewhere
<1>4. /\ \A q \in Queues : NodeAt(q)' = NodeAt(q) /\ Spots(q)' = Spots(q)
      /\ InLists' /\ TailsLast' /\ ListsEnd' /\ SameContent
  BY <1>1, <1>2, <1>3, SameLists
<1>5. Elsewhere'
  <2>1. ASSUME NEW q \in Queues, NEW i \in Spots(q)
        PROVE  /\ NodeAt(q)[i] \notin heap_free'
               /\ \A u \in Tasks : node'[u] # NodeAt(q)[i]
    BY <1>1, <1>2, <1>3 DEF Placed, Apart, Elsewhere
  <2>2. \A u \in Tasks : node'[u] \notin heap_free' /\ node[u] # n
    BY <1>1, <1>2 DEF Placed, Apart, Elsewhere
  <2>3. \A u, w \in Tasks : node'[u] = node'[w] /\ node'[u] # NULL => u = w
    BY <1>1, <1>2, <2>2 DEF Placed, Apart, Elsewhere
  <2> QED
    BY <1>4, <2>1, <2>2, <2>3 DEF Elsewhere
<1>6. AllKnown'
  <2> SUFFICES ASSUME NEW m \in Nodes
               PROVE  \/ m \in heap_free'
                      \/ \E u \in Tasks : m = node'[u]
                      \/ \E q \in Queues : \E i \in Spots(q) : m = NodeAt(q)[i]
    BY <1>4 DEF AllKnown
  <2>1. CASE m = n
    BY <1>2, <2>1
  <2>2. CASE m # n /\ \E u \in Tasks : m = node[u]
    BY <1>1, <1>2, <2>2
  <2>3. CASE m # n /\ ~ \E u \in Tasks : m = node[u]
    BY <1>1, <2>3 DEF Placed, Apart, AllKnown
  <2> QED
    BY <2>1, <2>2, <2>3
<1> QED
  BY <1>4, <1>5, <1>6 DEF Placed, Apart

(* A task frees the block it has in hand.                                   *)
LEMMA PlacedFree ==
  ASSUME QueueInv, ~heap_raced, NEW t \in Tasks, node[t] # NULL,
         UNCHANGED listVars, os_mfree(node[t]),
         node' = [node EXCEPT ![t] = NULL]
  PROVE  Placed' /\ SameContent
<1>1. /\ QueueTypeOK /\ Placed /\ NULL \notin Nodes
      /\ \A u \in Tasks : node[u] \in Nodes \cup {NULL}
  BY PlacedFacts
<1>2. PICK n \in Nodes : n = node[t]
  BY <1>1
<1>3. /\ heap_free' = heap_free \cup {n}
      /\ \A m \in Nodes : m # n => next'[m] = next[m] /\ data'[m] = data[m]
      /\ \A u \in Tasks : u # t => node'[u] = node[u]
      /\ node'[t] = NULL
  BY <1>1, <1>2 DEF QueueTypeOK, os_mfree
<1>4. \A q \in Queues : \A i \in Spots(q) :
        NodeAt(q)[i] \in Nodes /\ NodeAt(q)[i] # n
  BY <1>1, <1>2 DEF Placed, Apart, InLists, Elsewhere
<1>5. /\ \A q \in Queues : NodeAt(q)' = NodeAt(q) /\ Spots(q)' = Spots(q)
      /\ InLists' /\ TailsLast' /\ ListsEnd' /\ SameContent
  BY <1>1, <1>3, <1>4, SameLists
<1>6. Elsewhere'
  <2>1. ASSUME NEW q \in Queues, NEW i \in Spots(q)
        PROVE  /\ NodeAt(q)[i] \notin heap_free'
               /\ \A u \in Tasks : node'[u] # NodeAt(q)[i]
    BY <1>1, <1>3, <1>4 DEF Placed, Apart, Elsewhere
  <2>2. \A u \in Tasks : u # t => node[u] # n /\ node[u] \notin heap_free
    BY <1>1, <1>2 DEF Placed, Apart, Elsewhere
  <2>3. \A u \in Tasks : node'[u] \notin heap_free'
    BY <1>1, <1>2, <1>3, <2>2 DEF QueueTypeOK
  <2>4. \A u, w \in Tasks : node'[u] = node'[w] /\ node'[u] # NULL => u = w
    BY <1>1, <1>3 DEF Placed, Apart, Elsewhere
  <2> QED
    BY <1>5, <2>1, <2>3, <2>4 DEF Elsewhere
<1>7. AllKnown'
  <2> SUFFICES ASSUME NEW m \in Nodes
               PROVE  \/ m \in heap_free'
                      \/ \E u \in Tasks : m = node'[u]
                      \/ \E q \in Queues : \E i \in Spots(q) : m = NodeAt(q)[i]
    BY <1>5 DEF AllKnown
  <2>1. CASE m = n
    BY <1>3, <2>1
  <2>2. CASE m # n /\ \E u \in Tasks : m = node[u]
    BY <1>2, <1>3, <2>2
  <2>3. CASE m # n /\ ~ \E u \in Tasks : m = node[u]
    BY <1>1, <1>3, <2>3 DEF Placed, Apart, AllKnown
  <2> QED
    BY <2>1, <2>2, <2>3
<1> QED
  BY <1>5, <1>6, <1>7 DEF Placed, Apart

(* A send links the block its task has in hand behind the last.             *)
Linking(t, q) ==
  /\ node[t] # NULL /\ next[node[t]] = NULL /\ data[node[t]] \in Items
  /\ AppendNode(q, node[t])
  /\ q_count' = [q_count EXCEPT ![q] = @ + 1]
  /\ node' = [node EXCEPT ![t] = NULL]
  /\ UNCHANGED <<data, heap_free>>

LEMMA LinkLists ==
  ASSUME QueueInv, ~heap_raced, NEW t \in Tasks, NEW q \in Queues, Linking(t, q),
         NEW n \in Nat, n = q_count[q]
  PROVE  /\ q_count'[q] = n + 1
         /\ NodeAt(q)' = Longer(NodeAt(q), n, node[t])
         /\ tail'[q] = node[t] /\ next'[node[t]] = NULL
         /\ \A p \in Queues : p # q =>
              /\ NodeAt(p)' = NodeAt(p) /\ q_count'[p] = q_count[p]
              /\ tail'[p] = tail[p] /\ head'[p] = head[p]
              /\ \A i \in Spots(p) : next'[NodeAt(p)[i]] = next[NodeAt(p)[i]]
<1>1. /\ QueueTypeOK /\ Placed /\ NULL \notin Nodes
      /\ \A u \in Tasks : node[u] \in Nodes \cup {NULL}
  BY PlacedFacts
<1>2. PICK x \in Nodes : x = node[t]
  BY <1>1 DEF Linking
<1>3. /\ q_count'[q] = n + 1 /\ tail'[q] = x
      /\ \A p \in Queues : p # q => q_count'[p] = q_count[p] /\ tail'[p] = tail[p]
  BY <1>1, <1>2 DEF Linking, AppendNode, QueueTypeOK
<1>4. /\ \A p \in Queues : NodeAt(p) \in [Spots(p) -> Nodes]
      /\ \A p \in Queues : \A i \in Spots(p) : NodeAt(p)[i] # x
      /\ tail[q] = IF n = 0 THEN NULL ELSE NodeAt(q)[n]
      /\ \A p \in Queues : \A i \in Spots(p), j \in Spots(q) :
           NodeAt(p)[i] = NodeAt(q)[j] => p = q /\ i = j
  BY <1>1, <1>2 DEF Placed, Apart, InLists, Elsewhere, TailsLast
<1>5. CASE n = 0
  <2>1. tail[q] = NULL
    BY <1>4, <1>5
  <2>2. next' = next /\ head' = [head EXCEPT ![q] = x]
    BY <1>2, <2>1 DEF Linking, AppendNode
  <2>3. /\ head'[q] = x
        /\ \A p \in Queues : p # q => head'[p] = head[p]
    BY <1>1, <2>2 DEF QueueTypeOK
  <2>4. NodeAt(q)' = Longer(NodeAt(q), n, x)
    <3>1. n = 0 => head'[q] = x
      BY <2>3
    <3>2. n # 0 => head'[q] = head[q] /\ next'[NodeAt(q)[n]] = x
      BY <1>5
    <3>3. \A i \in 1 .. n - 1 : next'[NodeAt(q)[i]] = next[NodeAt(q)[i]]
      BY <2>2
    <3> QED
      BY <1>1, <1>3, <3>1, <3>2, <3>3, ListGrows
  <2>5. \A p \in Queues : p # q => NodeAt(p)' = NodeAt(p)
    BY <1>1, <1>3, <2>2, <2>3, ListKept
  <2>6. next'[x] = NULL
    BY <1>2, <2>2 DEF Linking
  <2> QED
    BY <1>2, <1>3, <2>2, <2>3, <2>4, <2>5, <2>6
<1>6. CASE n # 0
  <2>1. n \in Spots(q)
    BY <1>6 DEF Spots
  <2>2. PICK last \in Nodes : last = NodeAt(q)[n] /\ last = tail[q]
    BY <1>4, <1>6, <2>1
  <2>3. next' = [next EXCEPT ![last] = x] /\ head' = head
    BY <1>1, <1>2, <2>2 DEF Linking, AppendNode
  <2>4. /\ next'[last] = x
        /\ \A m \in Nodes : m # last => next'[m] = next[m]
    BY <1>1, <2>3 DEF QueueTypeOK
  <2>5. \A p \in Queues : p # q =>
          \A i \in Spots(p) : next'[NodeAt(p)[i]] = next[NodeAt(p)[i]]
    <3> SUFFICES ASSUME NEW p \in Queues, p # q, NEW i \in Spots(p)
                 PROVE  next'[NodeAt(p)[i]] = next[NodeAt(p)[i]]
      OBVIOUS
    <3>1. PICK m \in Nodes : m = NodeAt(p)[i]
      BY <1>4
    <3>2. \A j \in Spots(q) : NodeAt(p)[i] # NodeAt(q)[j]
      <4>1. \A j \in Spots(q) : NodeAt(p)[i] = NodeAt(q)[j] => p = q
        BY <1>4
      <4> QED
        BY <4>1
    <3>3. m # last
      BY <2>1, <2>2, <3>1, <3>2
    <3>4. next'[m] = next[m]
      BY <2>4, <3>3
    <3> QED
      BY <3>1, <3>4
  <2>6. \A i \in 1 .. n - 1 : next'[NodeAt(q)[i]] = next[NodeAt(q)[i]]
    <3> SUFFICES ASSUME NEW i \in 1 .. n - 1
                 PROVE  next'[NodeAt(q)[i]] = next[NodeAt(q)[i]]
      OBVIOUS
    <3>1. i \in Spots(q) /\ i # n
      BY DEF Spots
    <3>2. PICK m \in Nodes : m = NodeAt(q)[i]
      BY <1>4, <3>1
    <3>3. m # last
      BY <1>4, <2>1, <2>2, <3>1, <3>2
    <3>4. next'[m] = next[m]
      BY <2>4, <3>3
    <3> QED
      BY <3>2, <3>4
  <2>7. NodeAt(q)' = Longer(NodeAt(q), n, x)
    <3>1. n = 0 => head'[q] = x
      BY <1>6
    <3>2. n # 0 => head'[q] = head[q] /\ next'[NodeAt(q)[n]] = x
      BY <2>2, <2>3, <2>4
    <3> QED
      BY <1>1, <1>3, <2>6, <3>1, <3>2, ListGrows
  <2>8. \A p \in Queues : p # q => NodeAt(p)' = NodeAt(p)
    BY <1>1, <1>3, <2>3, <2>5, ListKept
  <2>9. next'[x] = NULL
    <3>1. x # last
      BY <1>4, <2>1, <2>2
    <3> QED
      BY <1>2, <2>4, <3>1 DEF Linking
  <2> QED
    BY <1>2, <1>3, <2>3, <2>5, <2>7, <2>8, <2>9
<1> QED
  BY <1>5, <1>6

LEMMA PlacedLink ==
  ASSUME QueueInv, ~heap_raced, NEW t \in Tasks, NEW q \in Queues, Linking(t, q)
  PROVE  Placed'
<1>1. /\ QueueTypeOK /\ Placed /\ NULL \notin Nodes
      /\ \A u \in Tasks : node[u] \in Nodes \cup {NULL}
  BY PlacedFacts
<1>2. PICK x \in Nodes : x = node[t]
  BY <1>1 DEF Linking
<1>3. PICK n \in Nat : n = q_count[q]
  BY <1>1, NodeAtSolves
<1>4. /\ q_count'[q] = n + 1
      /\ NodeAt(q)' = Longer(NodeAt(q), n, x)
      /\ tail'[q] = x /\ next'[x] = NULL
      /\ \A p \in Queues : p # q =>
           /\ NodeAt(p)' = NodeAt(p) /\ q_count'[p] = q_count[p]
           /\ tail'[p] = tail[p] /\ head'[p] = head[p]
           /\ \A i \in Spots(p) : next'[NodeAt(p)[i]] = next[NodeAt(p)[i]]
  BY <1>2, <1>3, LinkLists
<1>5. /\ data' = data /\ heap_free' = heap_free
      /\ node'[t] = NULL /\ data[x] \in Items
      /\ \A u \in Tasks : u # t => node'[u] = node[u]
  BY <1>1, <1>2 DEF Linking, QueueTypeOK
<1>6. /\ \A p \in Queues : p # q => Spots(p)' = Spots(p)
      /\ \A i : i \in Spots(q)' <=> i \in Spots(q) \/ i = n + 1
      /\ \A i \in Spots(q) : NodeAt(q)'[i] = NodeAt(q)[i] /\ i # n + 1
      /\ NodeAt(q)'[n + 1] = x
      /\ Spots(q)' = 1 .. n + 1 /\ n + 1 \in Spots(q)'
  BY <1>3, <1>4 DEF Spots, Longer
<1>7. /\ \A p \in Queues : NodeAt(p) \in [Spots(p) -> Nodes]
      /\ \A p \in Queues : \A i \in Spots(p) : NodeAt(p)[i] # x
  BY <1>1, <1>2 DEF Placed, Apart, InLists, Elsewhere
<1>8. InLists'
  <2>1. ASSUME NEW p \in Queues
        PROVE  NodeAt(p)' \in [Spots(p)' -> Nodes]
    <3>1. CASE p = q
      <4>1. NodeAt(q)' = [i \in Spots(q)' |-> NodeAt(q)'[i]]
        BY <1>4, <1>6 DEF Longer
      <4>2. \A i \in Spots(q)' : NodeAt(q)'[i] \in Nodes
        BY <1>6, <1>7
      <4> QED
        BY <3>1, <4>1, <4>2
    <3>2. CASE p # q
      BY <1>4, <1>6, <1>7, <3>2
    <3> QED
      BY <3>1, <3>2
  <2>2. ASSUME NEW p \in Queues, NEW r \in Queues,
               NEW i \in Spots(p)', NEW j \in Spots(r)', NodeAt(p)'[i] = NodeAt(r)'[j]
        PROVE  p = r /\ i = j
    <3>1. \A a, b \in Queues : \A k \in Spots(a), l \in Spots(b) :
            NodeAt(a)[k] = NodeAt(b)[l] => a = b /\ k = l
      BY <1>1 DEF Placed, Apart, InLists
    <3>2. \/ i \in Spots(p) /\ NodeAt(p)'[i] = NodeAt(p)[i]
          \/ p = q /\ i = n + 1 /\ NodeAt(p)'[i] = x
      BY <1>4, <1>6
    <3>3. \/ j \in Spots(r) /\ NodeAt(r)'[j] = NodeAt(r)[j]
          \/ r = q /\ j = n + 1 /\ NodeAt(r)'[j] = x
      BY <1>4, <1>6
    <3> QED
      BY <1>7, <2>2, <3>1, <3>2, <3>3
  <2> QED
    BY <2>1, <2>2 DEF InLists
<1>9. Elsewhere'
  <2>1. ASSUME NEW p \in Queues, NEW i \in Spots(p)'
        PROVE  /\ NodeAt(p)'[i] \notin heap_free'
               /\ \A u \in Tasks : node'[u] # NodeAt(p)'[i]
    <3>1. CASE i \in Spots(p) /\ NodeAt(p)'[i] = NodeAt(p)[i]
      <4>1. NodeAt(p)[i] \in Nodes
        BY <1>7, <3>1
      <4> QED
        BY <1>1, <1>5, <3>1, <4>1 DEF Placed, Apart, Elsewhere
    <3>2. CASE NodeAt(p)'[i] = x
      BY <1>1, <1>2, <1>5, <3>2 DEF Placed, Apart, Elsewhere
    <3> QED
      BY <1>4, <1>6, <3>1, <3>2
  <2>2. \A u \in Tasks : node'[u] \notin heap_free'
    BY <1>1, <1>5 DEF Placed, Apart, Elsewhere, QueueTypeOK
  <2>3. \A u, w \in Tasks : node'[u] = node'[w] /\ node'[u] # NULL => u = w
    BY <1>1, <1>5 DEF Placed, Apart, Elsewhere
  <2> QED
    BY <2>1, <2>2, <2>3 DEF Elsewhere
<1>10. AllKnown'
  <2> SUFFICES ASSUME NEW m \in Nodes
               PROVE  \/ m \in heap_free'
                      \/ \E u \in Tasks : m = node'[u]
                      \/ \E p \in Queues : \E i \in Spots(p)' : m = NodeAt(p)'[i]
    BY DEF AllKnown
  <2>1. CASE m = x
    BY <1>6, <2>1
  <2>2. CASE m # x /\ \E u \in Tasks : m = node[u]
    BY <1>2, <1>5, <2>2
  <2>3. CASE \E p \in Queues : \E i \in Spots(p) : m = NodeAt(p)[i]
    BY <1>4, <1>6, <2>3
  <2>4. CASE m \in heap_free
    BY <1>5, <2>4
  <2>5. \/ m \in heap_free
        \/ \E u \in Tasks : m = node[u]
        \/ \E p \in Queues : \E i \in Spots(p) : m = NodeAt(p)[i]
    BY <1>1 DEF Placed, Apart, AllKnown
  <2> QED
    BY <2>1, <2>2, <2>3, <2>4, <2>5
<1>11. TailsLast'
  <2> SUFFICES ASSUME NEW p \in Queues
               PROVE  tail'[p] = IF q_count'[p] = 0 THEN NULL
                                                  ELSE NodeAt(p)'[q_count'[p]]
    BY DEF TailsLast
  <2>1. CASE p = q
    <3>1. n + 1 # 0
      BY <1>3
    <3> QED
      BY <1>4, <1>6, <2>1, <3>1
  <2>2. CASE p # q
    BY <1>1, <1>4, <2>2 DEF Placed, Apart, TailsLast
  <2> QED
    BY <2>1, <2>2
<1>12. ListsEnd'
  <2> SUFFICES ASSUME NEW p \in Queues
               PROVE  /\ \A i \in Spots(p)' : data'[NodeAt(p)'[i]] \in Items
                      /\ IF q_count'[p] = 0
                         THEN head'[p] = NULL
                         ELSE next'[NodeAt(p)'[q_count'[p]]] = NULL
    BY DEF ListsEnd, Spots
  <2>1. \A r \in Queues : \A i \in Spots(r) : data[NodeAt(r)[i]] \in Items
    BY <1>1 DEF Placed, ListsEnd, Spots
  <2>2. CASE p = q
    <3>1. n + 1 # 0
      BY <1>3
    <3> QED
      BY <1>4, <1>5, <1>6, <2>1, <2>2, <3>1
  <2>3. CASE p # q
    <3>1. q_count[p] # 0 => q_count[p] \in Spots(p)
      BY <1>1, NodeAtSolves DEF Spots
    <3>2. IF q_count[p] = 0 THEN head[p] = NULL ELSE next[NodeAt(p)[q_count[p]]] = NULL
      BY <1>1 DEF Placed, ListsEnd
    <3> QED
      BY <1>4, <1>5, <1>6, <2>1, <2>3, <3>1, <3>2
  <2> QED
    BY <2>2, <2>3
<1> QED
  BY <1>8, <1>9, <1>10, <1>11, <1>12 DEF Placed, Apart

(* A receive unlinks the first block and has it in hand.                    *)
Unlinking(t, q) ==
  /\ node[t] = NULL /\ q_count[q] # 0
  /\ head' = [head EXCEPT ![q] = next[head[q]]]
  /\ tail' = [tail EXCEPT ![q] = IF next[head[q]] = NULL THEN NULL ELSE @]
  /\ q_count' = [q_count EXCEPT ![q] = @ - 1]
  /\ node' = [node EXCEPT ![t] = head[q]]
  /\ UNCHANGED nodeVars

LEMMA UnlinkLists ==
  ASSUME QueueInv, ~heap_raced, NEW t \in Tasks, NEW q \in Queues, Unlinking(t, q),
         NEW n \in Nat, n + 1 = q_count[q]
  PROVE  /\ q_count'[q] = n /\ head'[q] = next[head[q]]
         /\ tail'[q] = IF next[head[q]] = NULL THEN NULL ELSE tail[q]
         /\ NodeAt(q)' = Shorter(NodeAt(q), n)
         /\ head[q] = NodeAt(q)[1] /\ head[q] \in Nodes
         /\ n # 0 => next[head[q]] \in Nodes
         /\ n = 0 => next[head[q]] = NULL
         /\ \A p \in Queues : p # q =>
              /\ NodeAt(p)' = NodeAt(p) /\ q_count'[p] = q_count[p]
              /\ tail'[p] = tail[p] /\ head'[p] = head[p]
<1>1. QueueTypeOK /\ Placed
  BY PlacedFacts
<1>2. /\ q_count'[q] = n /\ head'[q] = next[head[q]]
      /\ tail'[q] = IF next[head[q]] = NULL THEN NULL ELSE tail[q]
      /\ \A p \in Queues : p # q =>
           q_count'[p] = q_count[p] /\ tail'[p] = tail[p] /\ head'[p] = head[p]
      /\ next' = next
  BY <1>1 DEF Unlinking, QueueTypeOK, nodeVars
<1>3. /\ \A i \in Spots(q) :
           NodeAt(q)[i] = IF i = 1 THEN head[q] ELSE next[NodeAt(q)[i - 1]]
      /\ \A i \in Spots(q) : NodeAt(q)[i] \in Nodes
  BY <1>1, NodeAtSolves DEF Placed, Apart, InLists
<1>4. head[q] = NodeAt(q)[1] /\ head[q] \in Nodes
  <2>1. 1 \in Spots(q)
    BY DEF Spots
  <2> QED
    BY <1>3, <2>1
<1>5. n # 0 => next[head[q]] \in Nodes
  <2> SUFFICES ASSUME n # 0
               PROVE  next[head[q]] \in Nodes
    OBVIOUS
  <2>1. 2 \in Spots(q) /\ 2 # 1 /\ 2 - 1 = 1
    BY DEF Spots
  <2>2. NodeAt(q)[2] = next[NodeAt(q)[1]]
    BY <1>3, <2>1
  <2> QED
    BY <1>3, <1>4, <2>1, <2>2
<1>6. n = 0 => next[head[q]] = NULL
  <2>1. q_count[q] # 0 => next[NodeAt(q)[q_count[q]]] = NULL
    BY <1>1 DEF Placed, ListsEnd
  <2> QED
    BY <1>4, <2>1
<1>7. NodeAt(q)' = Shorter(NodeAt(q), n)
  BY <1>1, <1>2, ListShrinks
<1>8. \A p \in Queues : p # q => NodeAt(p)' = NodeAt(p)
  BY <1>1, <1>2, ListKept
<1> QED
  BY <1>2, <1>4, <1>5, <1>6, <1>7, <1>8

LEMMA PlacedUnlink ==
  ASSUME QueueInv, ~heap_raced, NEW t \in Tasks, NEW q \in Queues, Unlinking(t, q)
  PROVE  Placed'
<1>1. /\ QueueTypeOK /\ Placed /\ NULL \notin Nodes
      /\ \A u \in Tasks : node[u] \in Nodes \cup {NULL}
  BY PlacedFacts
<1>2. PICK n \in Nat : n + 1 = q_count[q]
  <2>1. q_count[q] \in Nat /\ q_count[q] # 0
    BY <1>1, NodeAtSolves DEF Unlinking
  <2>2. q_count[q] - 1 \in Nat /\ (q_count[q] - 1) + 1 = q_count[q]
    BY <2>1
  <2> QED
    BY <2>2
<1>3. PICK x \in Nodes : x = head[q]
  BY <1>2, UnlinkLists
<1>4. /\ q_count'[q] = n /\ head'[q] = next[x]
      /\ tail'[q] = IF next[x] = NULL THEN NULL ELSE tail[q]
      /\ NodeAt(q)' = Shorter(NodeAt(q), n)
      /\ x = NodeAt(q)[1]
      /\ n # 0 => next[x] \in Nodes
      /\ n = 0 => next[x] = NULL
      /\ \A p \in Queues : p # q =>
           /\ NodeAt(p)' = NodeAt(p) /\ q_count'[p] = q_count[p]
           /\ tail'[p] = tail[p] /\ head'[p] = head[p]
  BY <1>2, <1>3, UnlinkLists
<1>5. /\ next' = next /\ data' = data /\ heap_free' = heap_free
      /\ node[t] = NULL /\ node'[t] = x
      /\ \A u \in Tasks : u # t => node'[u] = node[u]
  BY <1>1, <1>3 DEF Unlinking, QueueTypeOK, nodeVars
<1>6. /\ \A p \in Queues : p # q => Spots(p)' = Spots(p)
      /\ Spots(q)' = 1 .. n /\ Spots(q) = 1 .. n + 1
      /\ \A i \in Spots(q)' : NodeAt(q)'[i] = NodeAt(q)[i + 1]
      /\ \A i \in Spots(q)' : i + 1 \in Spots(q) /\ i + 1 # 1
      /\ 1 \in Spots(q)
  BY <1>2, <1>4 DEF Spots, Shorter
<1>7. /\ \A p \in Queues : NodeAt(p) \in [Spots(p) -> Nodes]
      /\ \A a, b \in Queues : \A k \in Spots(a), l \in Spots(b) :
            NodeAt(a)[k] = NodeAt(b)[l] => a = b /\ k = l
  BY <1>1 DEF Placed, Apart, InLists
<1>8. InLists'
  <2>1. ASSUME NEW p \in Queues
        PROVE  NodeAt(p)' \in [Spots(p)' -> Nodes]
    <3>1. CASE p = q
      <4>1. NodeAt(q)' = [i \in Spots(q)' |-> NodeAt(q)'[i]]
        BY <1>4, <1>6 DEF Shorter
      <4>2. \A i \in Spots(q)' : NodeAt(q)'[i] \in Nodes
        BY <1>6, <1>7
      <4> QED
        BY <3>1, <4>1, <4>2
    <3>2. CASE p # q
      BY <1>4, <1>6, <1>7, <3>2
    <3> QED
      BY <3>1, <3>2
  <2>2. ASSUME NEW p \in Queues, NEW r \in Queues,
               NEW i \in Spots(p)', NEW j \in Spots(r)', NodeAt(p)'[i] = NodeAt(r)'[j]
        PROVE  p = r /\ i = j
    <3>1. PICK k \in Spots(p) : /\ NodeAt(p)'[i] = NodeAt(p)[k]
                                /\ k = IF p = q THEN i + 1 ELSE i
      <4>1. CASE p = q
        BY <1>6, <4>1
      <4>2. CASE p # q
        BY <1>4, <1>6, <4>2
      <4> QED
        BY <4>1, <4>2
    <3>2. PICK l \in Spots(r) : /\ NodeAt(r)'[j] = NodeAt(r)[l]
                                /\ l = IF r = q THEN j + 1 ELSE j
      <4>1. CASE r = q
        BY <1>6, <4>1
      <4>2. CASE r # q
        BY <1>4, <1>6, <4>2
      <4> QED
        BY <4>1, <4>2
    <3>3. p = r /\ k = l
      <4>1. NodeAt(p)[k] = NodeAt(r)[l]
        BY <2>2, <3>1, <3>2
      <4>2. \A a, b \in Queues : \A m \in Spots(a), o \in Spots(b) :
              NodeAt(a)[m] = NodeAt(b)[o] => a = b /\ m = o
        BY <1>7
      <4> QED
        BY <4>1, <4>2
    <3>4. i \in Int /\ j \in Int
      BY DEF Spots
    <3> QED
      BY <3>1, <3>2, <3>3, <3>4
  <2> QED
    BY <2>1, <2>2 DEF InLists
<1>9. ASSUME NEW p \in Queues, NEW i \in Spots(p)'
      PROVE  \E k \in Spots(p) : NodeAt(p)'[i] = NodeAt(p)[k] /\ NodeAt(p)[k] # x
  <2>1. CASE p = q
    <3>1. i + 1 \in Spots(q) /\ i + 1 # 1 /\ NodeAt(q)'[i] = NodeAt(q)[i + 1]
      BY <1>6, <2>1
    <3>2. NodeAt(q)[i + 1] # x
      BY <1>4, <1>6, <1>7, <3>1
    <3> QED
      BY <2>1, <3>1, <3>2
  <2>2. CASE p # q
    <3>1. i \in Spots(p) /\ NodeAt(p)'[i] = NodeAt(p)[i]
      BY <1>4, <1>6, <2>2
    <3>2. NodeAt(p)[i] # x
      BY <1>4, <1>6, <1>7, <2>2, <3>1
    <3> QED
      BY <3>1, <3>2
  <2> QED
    BY <2>1, <2>2
<1>10. Elsewhere'
  <2>1. ASSUME NEW p \in Queues, NEW i \in Spots(p)'
        PROVE  /\ NodeAt(p)'[i] \notin heap_free'
               /\ \A u \in Tasks : node'[u] # NodeAt(p)'[i]
    <3>1. PICK k \in Spots(p) : NodeAt(p)'[i] = NodeAt(p)[k] /\ NodeAt(p)[k] # x
      BY <1>9
    <3> QED
      BY <1>1, <1>5, <3>1 DEF Placed, Apart, Elsewhere
  <2>2. x \notin heap_free /\ \A u \in Tasks : node[u] # x
    BY <1>1, <1>4, <1>6 DEF Placed, Apart, Elsewhere
  <2>3. \A u \in Tasks : node'[u] \notin heap_free'
    BY <1>1, <1>5, <2>2 DEF Placed, Apart, Elsewhere
  <2>4. \A u, w \in Tasks : node'[u] = node'[w] /\ node'[u] # NULL => u = w
    BY <1>1, <1>5, <2>2 DEF Placed, Apart, Elsewhere
  <2> QED
    BY <2>1, <2>3, <2>4 DEF Elsewhere
<1>11. AllKnown'
  <2> SUFFICES ASSUME NEW m \in Nodes
               PROVE  \/ m \in heap_free'
                      \/ \E u \in Tasks : m = node'[u]
                      \/ \E p \in Queues : \E i \in Spots(p)' : m = NodeAt(p)'[i]
    BY DEF AllKnown
  <2>1. CASE m = x
    BY <1>5, <2>1
  <2>2. CASE \E u \in Tasks : m = node[u]
    BY <1>1, <1>5, <2>2
  <2>3. ASSUME m # x, NEW p \in Queues, NEW i \in Spots(p), m = NodeAt(p)[i]
        PROVE  \E k \in Spots(p)' : m = NodeAt(p)'[k]
    <3>1. CASE p = q
      <4>1. i # 1
        BY <1>4, <2>3, <3>1
      <4>2. i - 1 \in Spots(q)' /\ (i - 1) + 1 = i
        BY <1>6, <3>1, <4>1
      <4> QED
        BY <1>6, <2>3, <3>1, <4>2
    <3>2. CASE p # q
      BY <1>4, <1>6, <2>3, <3>2
    <3> QED
      BY <3>1, <3>2
  <2>4. CASE m \in heap_free
    BY <1>5, <2>4
  <2>5. \/ m \in heap_free
        \/ \E u \in Tasks : m = node[u]
        \/ \E p \in Queues : \E i \in Spots(p) : m = NodeAt(p)[i]
    BY <1>1 DEF Placed, Apart, AllKnown
  <2> QED
    BY <2>1, <2>2, <2>3, <2>4, <2>5
<1>12. ASSUME n # 0
       PROVE  n \in Spots(q)' /\ NodeAt(q)'[n] = NodeAt(q)[q_count[q]]
  <2>1. n \in Spots(q)'
    BY <1>6, <1>12
  <2> QED
    BY <1>2, <1>6, <2>1
<1>13. TailsLast'
  <2> SUFFICES ASSUME NEW p \in Queues
               PROVE  tail'[p] = IF q_count'[p] = 0 THEN NULL
                                                  ELSE NodeAt(p)'[q_count'[p]]
    BY DEF TailsLast
  <2>1. \A r \in Queues : tail[r] = IF q_count[r] = 0 THEN NULL
                                                    ELSE NodeAt(r)[q_count[r]]
    BY <1>1 DEF Placed, Apart, TailsLast
  <2>2. CASE p = q /\ n = 0
    BY <1>4, <2>2
  <2>3. CASE p = q /\ n # 0
    <3>1. next[x] # NULL
      BY <1>1, <1>4, <2>3
    <3>2. tail'[q] = NodeAt(q)[q_count[q]]
      BY <1>2, <1>4, <2>1, <3>1
    <3> QED
      BY <1>4, <1>12, <2>3, <3>2
  <2>4. CASE p # q
    BY <1>4, <2>1, <2>4
  <2> QED
    BY <2>2, <2>3, <2>4
<1>14. ListsEnd'
  <2> SUFFICES ASSUME NEW p \in Queues
               PROVE  /\ \A i \in Spots(p)' : data'[NodeAt(p)'[i]] \in Items
                      /\ IF q_count'[p] = 0
                         THEN head'[p] = NULL
                         ELSE next'[NodeAt(p)'[q_count'[p]]] = NULL
    BY DEF ListsEnd, Spots
  <2>1. /\ \A r \in Queues : \A i \in Spots(r) : data[NodeAt(r)[i]] \in Items
        /\ \A r \in Queues : IF q_count[r] = 0 THEN head[r] = NULL
                             ELSE next[NodeAt(r)[q_count[r]]] = NULL
    BY <1>1 DEF Placed, ListsEnd, Spots
  <2>2. \A i \in Spots(p)' : data'[NodeAt(p)'[i]] \in Items
    BY <1>5, <1>9, <2>1
  <2>3. CASE p = q /\ n = 0
    BY <1>4, <2>2, <2>3
  <2>4. CASE p = q /\ n # 0
    BY <1>2, <1>4, <1>5, <1>12, <2>1, <2>2, <2>4
  <2>5. CASE p # q
    <3>1. q_count'[p] = q_count[p] /\ head'[p] = head[p] /\ NodeAt(p)' = NodeAt(p)
      BY <1>4, <2>5
    <3> QED
      BY <1>5, <2>1, <2>2, <3>1
  <2> QED
    BY <2>3, <2>4, <2>5
<1> QED
  BY <1>8, <1>10, <1>11, <1>13, <1>14 DEF Placed, Apart
-----------------------------------------------------------------------------
(* A step of task t, and what it may do to the others: wake them.           *)
QInv == QueueInv /\ NoStrandedItem

Woke(u) == state'[u] = "READY"

Others(t) ==
  \A u \in Tasks : u # t =>
    /\ sent'[u] = sent[u] /\ pc'[u] = pc[u] /\ arg'[u] = arg[u]
    /\ u \in in_heap' <=> u \in in_heap
    /\ \/ state'[u] = state[u] /\ waiting_for_resource'[u] = waiting_for_resource[u]
       \/ Woke(u)

(* Nor does it touch what the others have in hand.                          *)
Hands(t) ==
  \A u \in Tasks : u # t =>
    /\ node'[u] = node[u]
    /\ pc[u] = "queue_link" =>
         next'[node[u]] = next[node[u]] /\ data'[node[u]] = data[node[u]]

(* Until two heap calls overlap, the step shows in no list.                 *)
Quiet == heap_raced' \/ Silent

LEMMA QueueStepKeeps ==
  ASSUME IdleRegistered, QInv, NEW t \in AppTasks, Running(t), UNCHANGED cpuVars,
         QueueTypeOK', Others(t), LocalsOf(t)',
         ~ heap_raced' => BlocksOwned',
         state'[t] = "READY" \/ pc'[t] \in AtYield
  PROVE  QueueInv'
<1>1. SchedInv'
  <2>1. \A u \in Tasks \ {t} : state'[u] \in {state[u], "READY"}
    BY DEF Others, Woke
  <2> QED
    BY <2>1, SchedTaskStep DEF QInv, QueueInv, QueueTypeOK
<1>2. ASSUME NEW u \in Tasks, u # t
      PROVE  LocalsOf(u)'
  <2>1. LocalsOf(u)
    BY DEF QInv, QueueInv, LocalsFollow
  <2>2. /\ sent'[u] = sent[u] /\ pc'[u] = pc[u] /\ arg'[u] = arg[u]
        /\ u \in in_heap' <=> u \in in_heap
    BY <1>2 DEF Others
  <2>3. state'[u] = "QUEUE_RECV_WAITING" =>
          /\ state[u] = "QUEUE_RECV_WAITING"
          /\ waiting_for_resource'[u] = waiting_for_resource[u]
    BY <1>2 DEF Others, Woke
  <2> QED
    BY <2>1, <2>2, <2>3 DEF LocalsOf
<1>3. LocalsFollow'
  BY <1>2 DEF LocalsFollow
<1> QED
  BY <1>1, <1>3 DEF QueueInv

LEMMA OwnedAfter ==
  ASSUME QInv, ~ heap_raced, NEW t \in Tasks, QueueTypeOK', Placed',
         Others(t), Hands(t), HandOf(t)'
  PROVE  BlocksOwned'
<1>1. BlocksAccounted'
  BY AccountedNext DEF Placed
<1>2. ASSUME NEW u \in Tasks, u # t
      PROVE  HandOf(u)'
  <2>1. HandOf(u)
    BY DEF QInv, QueueInv, BlocksOwned
  <2>2. /\ node'[u] = node[u] /\ sent'[u] = sent[u] /\ pc'[u] = pc[u]
        /\ pc[u] = "queue_link" =>
             next'[node[u]] = next[node[u]] /\ data'[node[u]] = data[node[u]]
    BY <1>2 DEF Others, Hands
  <2> QED
    BY <2>1, <2>2 DEF HandOf
<1> QED
  BY <1>1, <1>2 DEF BlocksOwned, Placed

(* The nodes of a race are nobody's, but their variables keep their types.  *)
BlockTypes ==
  /\ head \in [Queues -> Nodes \cup {NULL}]
  /\ tail \in [Queues -> Nodes \cup {NULL}]
  /\ next \in [Nodes -> Nodes \cup {NULL}]
  /\ data \in [Nodes -> Items \cup {NULL}]
  /\ heap_free \subseteq Nodes
  /\ node \in [Tasks -> Nodes \cup {NULL}]
  /\ buffer \in [Tasks -> Items \cup {NULL}]

LEMMA BlockTypesKept ==
  ASSUME QueueTypeOK, UNCHANGED blockVars \/ LoseBlocks
  PROVE  BlockTypes'
<1>1. CASE UNCHANGED blockVars
  BY <1>1 DEF blockVars, BlockTypes, QueueTypeOK
<1>2. CASE LoseBlocks
  BY <1>2 DEF LoseBlocks, BlockTypes
<1> QED
  BY <1>1, <1>2

LEMMA TypesAfter ==
  ASSUME QueueTypeOK, TaskTypeOK', BlockTypes', UNCHANGED switched,
         q_count' \in [Queues -> Nat],
         \A q \in Queues : MaxItems[q] # 0 => q_count'[q] <= MaxItems[q],
         in_heap' \subseteq Senders \cup Receivers,
         heap_raced' \in BOOLEAN,
         sent' \in [Tasks -> Items \cup {NULL}]
  PROVE  QueueTypeOK'
  BY DEF QueueTypeOK, BlockTypes

(* A step of t that leaves the blocks alone.                                *)
LEMMA SameBlocks ==
  ASSUME QInv, ~ heap_raced, NEW t \in Tasks, QueueTypeOK',
         UNCHANGED blockVars, UNCHANGED q_count, Others(t), HandOf(t)'
  PROVE  BlocksOwned' /\ Silent
<1>1. /\ UNCHANGED <<head, tail, next, data, heap_free, node, buffer>>
      /\ UNCHANGED <<listVars, nodeVars, node>>
  BY DEF blockVars, listVars, nodeVars
<1>2. Placed' /\ SameContent
  BY <1>1, PlacedSame DEF QInv
<1>3. Hands(t)
  BY <1>1 DEF Hands
<1> QED
  BY <1>1, <1>2, <1>3, OwnedAfter DEF Silent

(* No item is stranded.                                                     *)
RecvRetriers(q) == Retriers("queue_receive", "recv_yield", q)
RecvWaiters(q)  == Waiters("QUEUE_RECV_WAITING", q)

LEMMA RetriersFinite ==
  ASSUME NEW q
  PROVE  /\ IsFiniteSet(RecvRetriers(q)) /\ IsFiniteSet(RecvRetriers(q)')
         /\ Cardinality(RecvRetriers(q)) \in Nat
         /\ Cardinality(RecvRetriers(q)') \in Nat
<1>1. RecvRetriers(q) \in SUBSET Tasks /\ RecvRetriers(q)' \in SUBSET Tasks
  BY DEF RecvRetriers, Retriers
<1> QED
  BY <1>1, TasksFinite, FS_Subset, FS_CardinalityType

LEMMA ItemMatched ==
  ASSUME QInv, NEW q \in Queues, q_count'[q] \in Nat,
         RecvRetriers(q) \subseteq RecvRetriers(q)',
         \/ RecvWaiters(q)' = {}
         \/ q_count'[q] = 0
         \/ /\ RecvWaiters(q) # {}
            /\ \/ q_count'[q] <= q_count[q]
               \/ /\ q_count'[q] <= q_count[q] + 1
                  /\ RecvRetriers(q)' # RecvRetriers(q)
  PROVE  RecvWaiters(q)' # {} => q_count'[q] <= Cardinality(RecvRetriers(q)')
<1>1. /\ IsFiniteSet(RecvRetriers(q)') /\ IsFiniteSet(RecvRetriers(q))
      /\ Cardinality(RecvRetriers(q)') \in Nat /\ Cardinality(RecvRetriers(q)) \in Nat
  BY RetriersFinite
<1>2. /\ Cardinality(RecvRetriers(q)) <= Cardinality(RecvRetriers(q)')
      /\ RecvRetriers(q)' # RecvRetriers(q) =>
           Cardinality(RecvRetriers(q)) # Cardinality(RecvRetriers(q)')
  BY <1>1, FS_Subset
<1>3. RecvWaiters(q) # {} => q_count[q] <= Cardinality(RecvRetriers(q))
  BY DEF QInv, NoStrandedItem, RecvRetriers, RecvWaiters
<1>4. q_count[q] \in Nat
  BY DEF QInv, QueueInv, QueueTypeOK
<1> QED
  BY <1>1, <1>2, <1>3, <1>4

LEMMA ItemsFrom ==
  ASSUME \A q \in Queues : RecvWaiters(q)' # {} =>
           q_count'[q] <= Cardinality(RecvRetriers(q)')
  PROVE  NoStrandedItem'
  BY DEF NoStrandedItem, RecvRetriers, RecvWaiters

(* A step of a task that is not receiving and moves no count.               *)
LEMMA QuietItems ==
  ASSUME QInv, QueueTypeOK', NEW t \in Tasks, UNCHANGED q_count, Others(t),
         pc[t] \notin {"queue_receive", "recv_yield"},
         state'[t] # "QUEUE_RECV_WAITING"
  PROVE  NoStrandedItem'
<1>1. ASSUME NEW q \in Queues
      PROVE  RecvWaiters(q)' # {} => q_count'[q] <= Cardinality(RecvRetriers(q)')
  <2>1. RecvRetriers(q) \subseteq RecvRetriers(q)'
    BY DEF RecvRetriers, Retriers, Others, Woke
  <2>2. RecvWaiters(q)' \subseteq RecvWaiters(q)
    BY DEF RecvWaiters, Waiters, Others, Woke
  <2>3. q_count'[q] = q_count[q] /\ q_count'[q] \in Nat
    BY DEF QueueTypeOK
  <2>4. RecvWaiters(q)' = {} \/ RecvWaiters(q) # {}
    BY <2>2
  <2> QED
    BY <2>1, <2>3, <2>4, ItemMatched
<1> QED
  BY <1>1, ItemsFrom

(* A task inside a call is READY.                                           *)
LEMMA QueueCaller ==
  ASSUME QInv, NEW t \in AppTasks, Running(t), pc[t] \notin AtYield
  PROVE  t \in Tasks /\ state[t] = "READY" /\ LocalsOf(t)
<1>1. t \in Tasks
  BY TableFacts
<1> QED
  BY <1>1 DEF QInv, QueueInv, SchedInv, RunnerIsReady, LocalsFollow

LEMMA QueueTypes ==
  ASSUME QInv
  PROVE  /\ QueueTypeOK /\ TaskTypeOK
         /\ Queues \subseteq Resources
         /\ Senders \subseteq AppTasks /\ Receivers \subseteq AppTasks
         /\ NULL \notin Nodes
  BY QueueAssumption DEF QInv, QueueInv, QueueTypeOK

(* Until a race the hands of a task are as its place says.                  *)
LEMMA OwnHand ==
  ASSUME QInv, ~ heap_raced, NEW t \in Tasks
  PROVE  HandOf(t)
  BY DEF QInv, QueueInv, BlocksOwned
-----------------------------------------------------------------------------
(* The steps into the heap: the head of a send, the call of os_mfree.       *)
LEMMA EnterFacts ==
  ASSUME QInv, NEW t \in Senders \cup Receivers, EnterHeap(t)
  PROVE  /\ BlockTypes'
         /\ in_heap' \subseteq Senders \cup Receivers
         /\ heap_raced' \in BOOLEAN
         /\ t \in in_heap'
         /\ \A u : u # t => (u \in in_heap' <=> u \in in_heap)
         /\ ~ heap_raced' => ~ heap_raced /\ UNCHANGED blockVars
<1>1. QueueTypeOK
  BY QueueTypes
<1>2. /\ in_heap' = in_heap \cup {t}
      /\ heap_raced' = (heap_raced \/ in_heap # {})
      /\ IF heap_raced \/ in_heap # {} THEN LoseBlocks ELSE UNCHANGED blockVars
  BY DEF EnterHeap
<1>3. BlockTypes'
  BY <1>1, <1>2, BlockTypesKept
<1>4. /\ in_heap' \subseteq Senders \cup Receivers
      /\ t \in in_heap'
      /\ \A u : u # t => (u \in in_heap' <=> u \in in_heap)
  BY <1>1, <1>2 DEF QueueTypeOK
<1>5. heap_raced' \in BOOLEAN
  BY <1>1, <1>2 DEF QueueTypeOK
<1> QED
  BY <1>2, <1>3, <1>4, <1>5

LEMMA CallKeeps ==
  ASSUME IdleRegistered, QInv, NEW t \in Senders, NEW q \in Queues,
         os_queue_send(t, q), UNCHANGED switched
  PROVE  QInv' /\ Quiet
<1>1. /\ QueueTypeOK /\ TaskTypeOK /\ t \in AppTasks /\ q \in Resources
  BY QueueTypes
<1>2. Running(t) /\ pc[t] \in {"run", "queue_send"}
  BY DEF os_queue_send, Calls, At
<1>3. t \in Tasks /\ state[t] = "READY" /\ LocalsOf(t)
  BY <1>1, <1>2, QueueCaller DEF AtYield
<1>4. PICK d \in Items : sent' = [sent EXCEPT ![t] = d]
  <2>1. CASE Calls(t) /\ \E d \in Items : sent' = [sent EXCEPT ![t] = d]
    BY <2>1
  <2>2. CASE At(t, "queue_send") /\ UNCHANGED sent
    <3>1. sent[t] \in Items
      BY <1>3, <2>2 DEF At, LocalsOf, Sending
    <3>2. sent' = [sent EXCEPT ![t] = sent[t]]
      BY <1>1, <2>2 DEF QueueTypeOK
    <3> QED
      BY <3>1, <3>2
  <2> QED
    BY <2>1, <2>2 DEF os_queue_send
<1>5. /\ pc' = [pc EXCEPT ![t] = "queue_send"]
      /\ arg' = [arg EXCEPT ![t] = q]
      /\ EnterHeap(t)
      /\ UNCHANGED <<state, delay_ticks, waiting_for_resource, priority>>
      /\ UNCHANGED q_count /\ UNCHANGED cpuVars
  BY DEF os_queue_send, tcbVars
<1>6. /\ BlockTypes'
      /\ in_heap' \subseteq Senders \cup Receivers
      /\ heap_raced' \in BOOLEAN
      /\ t \in in_heap'
      /\ \A u : u # t => (u \in in_heap' <=> u \in in_heap)
      /\ ~ heap_raced' => ~ heap_raced /\ UNCHANGED blockVars
  BY <1>5, EnterFacts
<1>7. TaskTypeOK'
  BY <1>1, <1>3, <1>5 DEF TaskTypeOK, cpuVars, AtLoop
<1>8. QueueTypeOK'
  <2>1. sent' \in [Tasks -> Items \cup {NULL}]
    BY <1>1, <1>3, <1>4 DEF QueueTypeOK
  <2>2. /\ q_count' \in [Queues -> Nat]
        /\ \A p \in Queues : MaxItems[p] # 0 => q_count'[p] <= MaxItems[p]
    BY <1>1, <1>5 DEF QueueTypeOK
  <2> QED
    BY <1>1, <1>6, <1>7, <2>1, <2>2, TypesAfter
<1>9. Others(t)
  BY <1>1, <1>4, <1>5, <1>6 DEF Others, QueueTypeOK, TaskTypeOK
<1>10. /\ pc'[t] = "queue_send" /\ arg'[t] = q /\ sent'[t] = d /\ state'[t] = "READY"
  BY <1>1, <1>3, <1>4, <1>5 DEF QueueTypeOK, TaskTypeOK
<1>11. LocalsOf(t)'
  BY <1>10 DEF LocalsOf
<1>12. ASSUME ~ heap_raced'
       PROVE  BlocksOwned' /\ Silent
  <2>1. ~ heap_raced /\ UNCHANGED blockVars
    BY <1>6, <1>12
  <2>2. node[t] = NULL
    BY <1>2, <1>3, <2>1, OwnHand DEF HandOf, Holding, AtMfree
  <2>3. HandOf(t)'
    BY <1>10, <2>1, <2>2 DEF HandOf, Holding, AtMfree, blockVars
  <2> QED
    BY <1>3, <1>5, <1>8, <1>9, <2>1, <2>3, SameBlocks
<1>13. QueueInv'
  BY <1>1, <1>2, <1>5, <1>8, <1>9, <1>10, <1>11, <1>12, QueueStepKeeps
<1>14. NoStrandedItem'
  BY <1>2, <1>3, <1>5, <1>8, <1>9, <1>10, QuietItems
<1> QED
  BY <1>12, <1>13, <1>14 DEF QInv, Quiet

LEMMA MfreeBeginsKeeps ==
  ASSUME IdleRegistered, QInv, NEW t \in Senders \cup Receivers,
         MfreeBegins(t), UNCHANGED switched
  PROVE  QInv' /\ Quiet
<1>1. /\ QueueTypeOK /\ TaskTypeOK /\ t \in AppTasks
  BY QueueTypes
<1>2. /\ Running(t) /\ pc[t] \in AtMfree /\ EnterHeap(t)
      /\ UNCHANGED <<pc, arg, state, delay_ticks, waiting_for_resource, priority>>
      /\ UNCHANGED <<q_count, sent>> /\ UNCHANGED q_count /\ UNCHANGED cpuVars
  BY DEF MfreeBegins, tcbVars
<1>3. pc[t] \notin AtYield \cup {"queue_receive", "recv_yield"}
  BY <1>2 DEF AtMfree, AtYield
<1>4. t \in Tasks /\ state[t] = "READY" /\ LocalsOf(t)
  BY <1>1, <1>2, <1>3, QueueCaller
<1>5. /\ BlockTypes'
      /\ in_heap' \subseteq Senders \cup Receivers
      /\ heap_raced' \in BOOLEAN
      /\ t \in in_heap'
      /\ \A u : u # t => (u \in in_heap' <=> u \in in_heap)
      /\ ~ heap_raced' => ~ heap_raced /\ UNCHANGED blockVars
  BY <1>2, EnterFacts
<1>6. TaskTypeOK'
  BY <1>1, <1>2 DEF TaskTypeOK, cpuVars
<1>7. QueueTypeOK'
  <2>1. /\ q_count' \in [Queues -> Nat]
        /\ \A p \in Queues : MaxItems[p] # 0 => q_count'[p] <= MaxItems[p]
        /\ sent' \in [Tasks -> Items \cup {NULL}]
    BY <1>1, <1>2 DEF QueueTypeOK
  <2> QED
    BY <1>1, <1>5, <1>6, <2>1, TypesAfter
<1>8. Others(t)
  BY <1>2, <1>5 DEF Others
<1>9. LocalsOf(t)'
  BY <1>2, <1>4 DEF LocalsOf
<1>10. ASSUME ~ heap_raced'
       PROVE  BlocksOwned' /\ Silent
  <2>1. ~ heap_raced /\ UNCHANGED blockVars
    BY <1>5, <1>10
  <2>2. HandOf(t)
    BY <1>4, <2>1, OwnHand
  <2>3. HandOf(t)'
    BY <1>2, <2>1, <2>2 DEF HandOf, blockVars
  <2> QED
    BY <1>2, <1>4, <1>7, <1>8, <2>1, <2>3, SameBlocks
<1>11. state'[t] = "READY"
  BY <1>2, <1>4
<1>12. QueueInv'
  BY <1>1, <1>2, <1>7, <1>8, <1>9, <1>10, <1>11, QueueStepKeeps
<1>13. NoStrandedItem'
  BY <1>2, <1>3, <1>4, <1>7, <1>8, <1>11, QuietItems
<1> QED
  BY <1>10, <1>12, <1>13 DEF QInv, Quiet
-----------------------------------------------------------------------------
(* The steps of a send.                                                     *)
LEMMA LeaveFacts ==
  ASSUME QInv, NEW t \in Tasks, LeaveHeap(t)
  PROVE  /\ in_heap' \subseteq Senders \cup Receivers
         /\ heap_raced' = heap_raced /\ heap_raced' \in BOOLEAN
         /\ t \notin in_heap'
         /\ \A u : u # t => (u \in in_heap' <=> u \in in_heap)
  BY QueueTypes DEF LeaveHeap, QueueTypeOK

LEMMA AllocKeeps ==
  ASSUME IdleRegistered, QInv, NEW t \in Senders, SendAlloc(t), UNCHANGED switched
  PROVE  QInv' /\ Quiet
<1>1. /\ QueueTypeOK /\ TaskTypeOK /\ t \in AppTasks
  BY QueueTypes
<1>2. /\ Running(t) /\ pc[t] = "queue_send"
      /\ pc' = [pc EXCEPT ![t] = "queue_link"]
      /\ UNCHANGED <<arg, sent, state, delay_ticks, waiting_for_resource, priority>>
      /\ UNCHANGED q_count /\ UNCHANGED cpuVars /\ LeaveHeap(t)
  BY DEF SendAlloc, At, tcbVars
<1>3. t \in Tasks /\ state[t] = "READY" /\ LocalsOf(t)
  BY <1>1, <1>2, QueueCaller DEF AtYield
<1>4. PICK d \in Items : d = sent[t]
  BY <1>2, <1>3 DEF LocalsOf, Sending
<1>5. /\ in_heap' \subseteq Senders \cup Receivers
      /\ heap_raced' = heap_raced /\ heap_raced' \in BOOLEAN
      /\ t \notin in_heap'
      /\ \A u : u # t => (u \in in_heap' <=> u \in in_heap)
  BY <1>2, <1>3, LeaveFacts
<1>6. TaskTypeOK'
  BY <1>1, <1>2, <1>3 DEF TaskTypeOK, cpuVars, Inside
<1>7. Others(t)
  BY <1>1, <1>2, <1>5 DEF Others, TaskTypeOK
<1>8. /\ pc'[t] = "queue_link" /\ arg'[t] = arg[t] /\ sent'[t] = d /\ state'[t] = "READY"
  BY <1>1, <1>2, <1>3, <1>4 DEF TaskTypeOK
<1>9. LocalsOf(t)'
  BY <1>2, <1>3, <1>5, <1>8 DEF LocalsOf, Sending
<1>10. BlockTypes' => QueueTypeOK'
  <2>1. /\ q_count' \in [Queues -> Nat]
        /\ \A p \in Queues : MaxItems[p] # 0 => q_count'[p] <= MaxItems[p]
        /\ sent' \in [Tasks -> Items \cup {NULL}]
    BY <1>1, <1>2 DEF QueueTypeOK
  <2> QED
    BY <1>1, <1>5, <1>6, <2>1, TypesAfter
<1>11. QueueTypeOK' /\ (~ heap_raced' => BlocksOwned' /\ Silent)
  <2>1. CASE heap_raced
    <3>1. UNCHANGED blockVars
      BY <2>1 DEF SendAlloc, UntilRace
    <3> QED
      BY <1>1, <1>5, <1>10, <2>1, <3>1, BlockTypesKept
  <2>2. CASE ~ heap_raced
    <3>1. PICK n \in heap_free :
            /\ heap_free' = heap_free \ {n}
            /\ next' = [next EXCEPT ![n] = NULL] /\ data' = [data EXCEPT ![n] = d]
            /\ node' = [node EXCEPT ![t] = n]
            /\ UNCHANGED <<head, tail, buffer>>
      BY <1>4, <2>2 DEF SendAlloc, UntilRace
    <3>2. n \in Nodes /\ n # NULL
      BY <1>1, QueueTypes DEF QueueTypeOK
    <3>3. QueueTypeOK'
      BY <1>1, <1>10, <3>1, <3>2 DEF BlockTypes, QueueTypeOK
    <3>4. UNCHANGED listVars
      BY <1>2, <3>1 DEF listVars
    <3>5. node[t] = NULL
      BY <1>2, <1>3, <2>2, OwnHand DEF HandOf, Holding, AtMfree
    <3>6. Placed' /\ SameContent
      BY <1>3, <2>2, <3>1, <3>4, <3>5, PlacedAlloc DEF QInv
    <3>7. Hands(t)
      <4>1. \A u \in Tasks : u # t => node'[u] = node[u]
        BY <1>1, <3>1 DEF QueueTypeOK
      <4>2. \A u \in Tasks : pc[u] = "queue_link" => node[u] \in Nodes /\ node[u] # n
        <5>1. Elsewhere /\ \A u \in Tasks : node[u] \in Nodes \cup {NULL}
          BY <2>2, PlacedFacts DEF QInv, Placed, Apart
        <5>2. \A u \in Tasks : pc[u] = "queue_link" => node[u] # NULL
          BY <2>2, OwnHand DEF HandOf, Holding
        <5> QED
          BY <3>1, <5>1, <5>2 DEF Elsewhere
      <4>3. \A m \in Nodes : m # n => next'[m] = next[m] /\ data'[m] = data[m]
        BY <1>1, <3>1 DEF QueueTypeOK
      <4> QED
        BY <4>1, <4>2, <4>3 DEF Hands
    <3>8. HandOf(t)'
      <4>1. node'[t] = n /\ next'[n] = NULL /\ data'[n] = d
        BY <1>1, <1>3, <3>1, <3>2 DEF QueueTypeOK
      <4> QED
        BY <1>8, <3>2, <4>1 DEF HandOf, Holding
    <3> QED
      BY <1>3, <1>7, <2>2, <3>1, <3>3, <3>6, <3>7, <3>8, OwnedAfter DEF Silent
  <2> QED
    BY <2>1, <2>2
<1>12. QueueInv'
  BY <1>1, <1>2, <1>7, <1>8, <1>9, <1>11, QueueStepKeeps
<1>13. NoStrandedItem'
  BY <1>2, <1>3, <1>7, <1>8, <1>11, QuietItems
<1> QED
  BY <1>11, <1>12, <1>13 DEF QInv, Quiet

LEMMA FailsKeeps ==
  ASSUME IdleRegistered, QInv, NEW t \in Senders, SendFails(t), UNCHANGED switched
  PROVE  QInv' /\ Quiet
<1>1. /\ QueueTypeOK /\ TaskTypeOK /\ t \in AppTasks
  BY QueueTypes
<1>2. /\ Running(t) /\ pc[t] = "queue_send"
      /\ pc' = [pc EXCEPT ![t] = "run"] /\ arg' = [arg EXCEPT ![t] = NULL]
      /\ sent' = [sent EXCEPT ![t] = NULL]
      /\ UNCHANGED <<state, delay_ticks, waiting_for_resource, priority>>
      /\ UNCHANGED blockVars /\ UNCHANGED q_count /\ UNCHANGED cpuVars
      /\ LeaveHeap(t)
  BY DEF SendFails, At, Return, tcbVars
<1>3. t \in Tasks /\ state[t] = "READY" /\ LocalsOf(t)
  BY <1>1, <1>2, QueueCaller DEF AtYield
<1>4. /\ in_heap' \subseteq Senders \cup Receivers
      /\ heap_raced' = heap_raced /\ heap_raced' \in BOOLEAN
      /\ t \notin in_heap'
      /\ \A u : u # t => (u \in in_heap' <=> u \in in_heap)
  BY <1>2, <1>3, LeaveFacts
<1>5. TaskTypeOK'
  BY <1>1, <1>2, <1>3 DEF TaskTypeOK, cpuVars
<1>6. QueueTypeOK'
  <2>1. /\ q_count' \in [Queues -> Nat]
        /\ \A p \in Queues : MaxItems[p] # 0 => q_count'[p] <= MaxItems[p]
        /\ sent' \in [Tasks -> Items \cup {NULL}]
    BY <1>1, <1>2, <1>3 DEF QueueTypeOK
  <2>2. BlockTypes'
    BY <1>1, <1>2, BlockTypesKept
  <2> QED
    BY <1>1, <1>4, <1>5, <2>1, <2>2, TypesAfter
<1>7. Others(t)
  BY <1>1, <1>2, <1>4 DEF Others, QueueTypeOK, TaskTypeOK
<1>8. pc'[t] = "run" /\ state'[t] = "READY"
  BY <1>1, <1>2, <1>3 DEF TaskTypeOK
<1>9. LocalsOf(t)'
  BY <1>4, <1>8 DEF LocalsOf, Sending
<1>10. ASSUME ~ heap_raced'
       PROVE  BlocksOwned' /\ Silent
  <2>1. ~ heap_raced /\ node[t] = NULL
    BY <1>2, <1>3, <1>4, <1>10, OwnHand DEF HandOf, Holding, AtMfree
  <2>2. HandOf(t)'
    BY <1>2, <1>8, <2>1 DEF HandOf, Holding, AtMfree, blockVars
  <2> QED
    BY <1>2, <1>3, <1>6, <1>7, <2>1, <2>2, SameBlocks
<1>11. QueueInv'
  BY <1>1, <1>2, <1>6, <1>7, <1>8, <1>9, <1>10, QueueStepKeeps
<1>12. NoStrandedItem'
  BY <1>2, <1>3, <1>6, <1>7, <1>8, QuietItems
<1> QED
  BY <1>10, <1>11, <1>12 DEF QInv, Quiet

(* Whom a send or a receive wakes: one waiter, if there is any.             *)
LEMMA QueueWakesOne ==
  ASSUME TaskTypeOK, NEW q, NEW w_state
  PROVE  /\ queue_wake_one(q, w_state) \subseteq Waiters(w_state, q)
         /\ Waiters(w_state, q) # {} =>
              \E b \in Waiters(w_state, q) : queue_wake_one(q, w_state) = {b}
<1>1. Waiters(w_state, q) \in SUBSET Tasks /\ priority \in [Tasks -> Nat]
  BY DEF Waiters, TaskTypeOK
<1> QED
  BY <1>1, BestIsBest DEF queue_wake_one, Woken

LEMMA LinkKeeps ==
  ASSUME IdleRegistered, QInv, NEW t \in Senders, SendLink(t), UNCHANGED switched
  PROVE  /\ QInv' /\ heap_raced' = heap_raced
         /\ arg[t] \in Queues /\ HasRoom(arg[t])
         /\ ~ heap_raced => Linking(t, arg[t]) /\ UNCHANGED buffer
<1>1. /\ QueueTypeOK /\ TaskTypeOK /\ t \in AppTasks
  BY QueueTypes
<1>2. /\ Running(t) /\ pc[t] = "queue_link" /\ HasRoom(arg[t])
  BY DEF SendLink, At
<1>3. /\ t \in Tasks /\ state[t] = "READY" /\ LocalsOf(t)
  BY <1>1, <1>2, QueueCaller DEF AtYield
<1>4. PICK q \in Queues : q = arg[t] /\ sent[t] \in Items
  BY <1>2, <1>3 DEF LocalsOf, Sending
<1>5. PICK W : W = queue_wake_one(q, "QUEUE_RECV_WAITING")
  OBVIOUS
<1>6. PICK label \in {"run", "wake_yield"} :
        label = AfterWake(W, "wake_yield", "run")
  BY DEF AfterWake
<1>7. /\ q_count' = [q_count EXCEPT ![q] = @ + 1]
      /\ sent' = [sent EXCEPT ![t] = NULL]
      /\ UNCHANGED <<delay_ticks, priority, in_heap, heap_raced>>
      /\ UNCHANGED cpuVars
      /\ state' = [u \in Tasks |-> IF u \in W THEN "READY" ELSE state[u]]
      /\ waiting_for_resource' =
           [u \in Tasks |-> IF u \in W THEN NULL ELSE waiting_for_resource[u]]
      /\ pc' = [pc EXCEPT ![t] = label] /\ arg' = [arg EXCEPT ![t] = NULL]
  BY <1>4, <1>5, <1>6 DEF SendLink, Wake, Return, heapVars
<1>8. TaskTypeOK'
  BY <1>1, <1>3, <1>7 DEF TaskTypeOK, cpuVars, AtYield, os_task_state
<1>9. BlockTypes' => QueueTypeOK'
  <2>1. PICK n \in Nat : n = q_count[q]
    BY <1>1 DEF QueueTypeOK
  <2>2. /\ q_count' \in [Queues -> Nat]
        /\ q_count'[q] = n + 1
        /\ \A p \in Queues : p # q => q_count'[p] = q_count[p]
    BY <1>1, <1>7, <2>1 DEF QueueTypeOK
  <2>3. MaxItems[q] # 0 => n + 1 <= MaxItems[q]
    BY <1>2, <1>4, <2>1, QueueAssumption DEF HasRoom
  <2>4. \A p \in Queues : MaxItems[p] # 0 => q_count'[p] <= MaxItems[p]
    BY <1>1, <2>2, <2>3 DEF QueueTypeOK
  <2>5. sent' \in [Tasks -> Items \cup {NULL}]
    BY <1>1, <1>3, <1>7 DEF QueueTypeOK
  <2>6. in_heap' \subseteq Senders \cup Receivers /\ heap_raced' \in BOOLEAN
    BY <1>1, <1>7 DEF QueueTypeOK
  <2> QED
    BY <1>1, <1>8, <2>2, <2>4, <2>5, <2>6, TypesAfter
<1>10. W \subseteq Waiters("QUEUE_RECV_WAITING", q)
  BY <1>1, <1>5, QueueWakesOne
<1>11. t \notin W
  BY <1>3, <1>10 DEF Waiters
<1>12. Others(t)
  <2>1. \A u \in Tasks : u # t =>
          sent'[u] = sent[u] /\ pc'[u] = pc[u] /\ arg'[u] = arg[u]
    BY <1>1, <1>7 DEF QueueTypeOK, TaskTypeOK
  <2>2. \A u \in Tasks :
          \/ state'[u] = state[u] /\ waiting_for_resource'[u] = waiting_for_resource[u]
          \/ Woke(u)
    BY <1>7 DEF Woke
  <2> QED
    BY <1>7, <2>1, <2>2 DEF Others
<1>13. pc'[t] = label /\ state'[t] = "READY"
  BY <1>1, <1>3, <1>7, <1>11 DEF TaskTypeOK
<1>14. LocalsOf(t)'
  <2>1. t \notin in_heap'
    BY <1>2, <1>3, <1>7 DEF LocalsOf, AtMfree
  <2> QED
    BY <1>13, <2>1 DEF LocalsOf, Sending
<1>15. ASSUME ~ heap_raced
       PROVE  Linking(t, q) /\ UNCHANGED buffer /\ QueueTypeOK' /\ BlocksOwned'
  <2>1. /\ AppendNode(q, node[t])
        /\ node' = [node EXCEPT ![t] = NULL]
        /\ UNCHANGED <<data, heap_free, buffer>>
    BY <1>4, <1>15 DEF SendLink, UntilRace
  <2>2. node[t] # NULL /\ next[node[t]] = NULL /\ data[node[t]] \in Items
    BY <1>2, <1>3, <1>4, <1>15, OwnHand DEF HandOf, Holding
  <2>3. PICK x \in Nodes : x = node[t]
    BY <1>1, <1>3, <2>2 DEF QueueTypeOK
  <2>4. Linking(t, q)
    BY <1>7, <2>1, <2>2 DEF Linking
  <2>5. Placed'
    BY <1>3, <1>15, <2>4, PlacedLink DEF QInv
  <2>6. BlockTypes'
    <3>1. /\ head' \in [Queues -> Nodes \cup {NULL}]
          /\ tail' \in [Queues -> Nodes \cup {NULL}]
          /\ next' \in [Nodes -> Nodes \cup {NULL}]
      BY <1>1, <2>1, <2>3 DEF QueueTypeOK, AppendNode
    <3> QED
      BY <1>1, <1>3, <2>1, <3>1 DEF QueueTypeOK, BlockTypes
  <2>7. Hands(t)
    <3>1. \A u \in Tasks : u # t => node'[u] = node[u]
      BY <1>1, <2>1 DEF QueueTypeOK
    <3>2. ASSUME NEW u \in Tasks, u # t, pc[u] = "queue_link"
          PROVE  next'[node[u]] = next[node[u]]
      <4>1. node[u] # NULL /\ node[u] \in Nodes
        BY <1>1, <1>15, <3>2, OwnHand DEF HandOf, Holding, QueueTypeOK
      <4>2. \A i \in Spots(q) : NodeAt(q)[i] # node[u]
        BY <1>15, PlacedFacts DEF QInv, Placed, Apart, Elsewhere
      <4>3. tail[q] = IF q_count[q] = 0 THEN NULL ELSE NodeAt(q)[q_count[q]]
        BY <1>15, PlacedFacts DEF QInv, Placed, Apart, TailsLast
      <4>4. q_count[q] # 0 => q_count[q] \in Spots(q)
        BY <1>1, NodeAtSolves DEF Spots
      <4>5. tail[q] # node[u]
        BY <4>1, <4>2, <4>3, <4>4
      <4> QED
        BY <1>1, <2>1, <4>1, <4>5 DEF AppendNode, QueueTypeOK
    <3> QED
      BY <2>1, <3>1, <3>2 DEF Hands
  <2>8. HandOf(t)'
    <3>1. node'[t] = NULL
      BY <1>1, <1>3, <2>1 DEF QueueTypeOK
    <3> QED
      BY <1>13, <3>1 DEF HandOf, Holding, AtMfree
  <2> QED
    BY <1>3, <1>9, <1>12, <1>15, <2>1, <2>4, <2>5, <2>6, <2>7, <2>8, OwnedAfter
<1>16. QueueTypeOK'
  <2>1. CASE heap_raced
    <3>1. UNCHANGED blockVars
      BY <2>1 DEF SendLink, UntilRace
    <3> QED
      BY <1>1, <1>9, <3>1, BlockTypesKept
  <2> QED
    BY <1>15, <2>1
<1>17. QueueInv'
  BY <1>1, <1>2, <1>7, <1>12, <1>13, <1>14, <1>15, <1>16, QueueStepKeeps
<1>18. ASSUME NEW r \in Queues
       PROVE  RecvWaiters(r)' # {} => q_count'[r] <= Cardinality(RecvRetriers(r)')
  <2>1. \A u \in RecvRetriers(r) : u # t
    BY <1>2 DEF RecvRetriers, Retriers
  <2>2. RecvRetriers(r) \subseteq RecvRetriers(r)'
    BY <1>12, <2>1 DEF RecvRetriers, Retriers, Others, Woke
  <2>3. RecvWaiters(r)' \subseteq RecvWaiters(r)
    BY <1>12, <1>13 DEF RecvWaiters, Waiters, Others, Woke
  <2>4. q_count'[r] \in Nat /\ q_count[r] \in Nat
    BY <1>1, <1>16 DEF QueueTypeOK
  <2>5. CASE RecvWaiters(r) = {}
    BY <2>2, <2>3, <2>4, <2>5, ItemMatched
  <2>6. CASE RecvWaiters(r) # {} /\ r # q
    <3>1. q_count'[r] <= q_count[r]
      BY <1>1, <1>7, <2>4, <2>6 DEF QueueTypeOK
    <3> QED
      BY <2>2, <2>4, <2>6, <3>1, ItemMatched
  <2>7. CASE RecvWaiters(r) # {} /\ r = q
    <3>1. PICK b \in RecvWaiters(q) : W = {b}
      BY <1>1, <1>5, <2>7, QueueWakesOne DEF RecvWaiters
    <3>2. /\ b \in Tasks /\ b # t /\ state[b] = "QUEUE_RECV_WAITING"
          /\ waiting_for_resource[b] = q
      BY <1>3 DEF RecvWaiters, Waiters
    <3>3. b \notin RecvRetriers(q)
      BY <3>2 DEF RecvRetriers, Retriers
    <3>4. /\ pc[b] \in {"queue_receive", "recv_yield"} /\ arg[b] = q
      BY <3>2 DEF QInv, QueueInv, LocalsFollow, LocalsOf
    <3>5. state'[b] = "READY" /\ pc'[b] = pc[b] /\ arg'[b] = arg[b]
      BY <1>7, <1>12, <3>1, <3>2 DEF Others
    <3>6. b \in RecvRetriers(q)'
      BY <3>2, <3>4, <3>5 DEF RecvRetriers, Retriers
    <3>7. q_count'[q] <= q_count[q] + 1
      BY <1>1, <1>7 DEF QueueTypeOK
    <3> QED
      BY <2>2, <2>4, <2>7, <3>3, <3>6, <3>7, ItemMatched
  <2> QED
    BY <2>5, <2>6, <2>7
<1> QED
  BY <1>2, <1>4, <1>7, <1>15, <1>17, <1>18, ItemsFrom DEF QInv

(* The steps of the branch without room.                                    *)
LEMMA FullKeeps ==
  ASSUME IdleRegistered, QInv, NEW t \in Senders, SendFull(t), UNCHANGED switched
  PROVE  QInv' /\ Quiet
<1>1. /\ QueueTypeOK /\ TaskTypeOK /\ t \in AppTasks
  BY QueueTypes
<1>2. /\ Running(t) /\ pc[t] = "queue_link"
      /\ pc' = [pc EXCEPT ![t] = "queue_full"]
      /\ UNCHANGED <<arg, state, delay_ticks, waiting_for_resource, priority>>
      /\ UNCHANGED blockVars /\ UNCHANGED q_count
      /\ UNCHANGED <<in_heap, heap_raced, sent>> /\ UNCHANGED cpuVars
  BY DEF SendFull, At, tcbVars, queueVars, heapVars
<1>3. /\ t \in Tasks /\ state[t] = "READY" /\ LocalsOf(t)
  BY <1>1, <1>2, QueueCaller DEF AtYield
<1>4. TaskTypeOK'
  BY <1>1, <1>2, <1>3 DEF TaskTypeOK, cpuVars, Inside
<1>5. QueueTypeOK'
  BY <1>1, <1>2, <1>4 DEF QueueTypeOK, blockVars
<1>6. Others(t)
  BY <1>1, <1>2 DEF Others, TaskTypeOK
<1>7. pc'[t] = "queue_full" /\ state'[t] = "READY"
  BY <1>1, <1>2, <1>3 DEF TaskTypeOK
<1>8. LocalsOf(t)'
  BY <1>2, <1>3, <1>7 DEF LocalsOf, Sending, AtMfree
<1>9. ASSUME ~ heap_raced'
      PROVE  BlocksOwned' /\ Silent
  <2>1. ~ heap_raced /\ node[t] # NULL
    BY <1>2, <1>3, <1>9, OwnHand DEF HandOf, Holding
  <2>2. HandOf(t)'
    BY <1>2, <1>7, <2>1 DEF HandOf, Holding, AtMfree, blockVars
  <2> QED
    BY <1>2, <1>3, <1>5, <1>6, <2>1, <2>2, SameBlocks
<1>10. QueueInv'
  BY <1>1, <1>2, <1>5, <1>6, <1>7, <1>8, <1>9, QueueStepKeeps
<1>11. NoStrandedItem'
  BY <1>2, <1>3, <1>5, <1>6, <1>7, QuietItems
<1> QED
  BY <1>9, <1>10, <1>11 DEF QInv, Quiet

LEMMA ParkKeeps ==
  ASSUME IdleRegistered, QInv, NEW t \in Senders, SendPark(t), UNCHANGED switched
  PROVE  QInv' /\ Quiet
<1>1. /\ QueueTypeOK /\ TaskTypeOK /\ t \in AppTasks /\ Queues \subseteq Resources
  BY QueueTypes
<1>2. Running(t) /\ pc[t] = "queue_park"
  BY DEF SendPark, At
<1>3. /\ t \in Tasks /\ state[t] = "READY" /\ LocalsOf(t)
  BY <1>1, <1>2, QueueCaller DEF AtYield
<1>4. PICK q \in Queues : q = arg[t] /\ sent[t] \in Items
  BY <1>2, <1>3 DEF LocalsOf, Sending
<1>5. /\ state' = [state EXCEPT ![t] = "QUEUE_SEND_WAITING"]
      /\ waiting_for_resource' = [waiting_for_resource EXCEPT ![t] = q]
      /\ pc' = [pc EXCEPT ![t] = "send_yield"]
      /\ arg' = [arg EXCEPT ![t] = q]
      /\ UNCHANGED <<delay_ticks, priority>>
      /\ UNCHANGED blockVars /\ UNCHANGED q_count
      /\ UNCHANGED <<in_heap, heap_raced, sent>> /\ UNCHANGED cpuVars
  BY <1>4 DEF SendPark, Park, queueVars, heapVars
<1>6. TaskTypeOK'
  BY <1>1, <1>3, <1>5 DEF TaskTypeOK, cpuVars, AtYield, os_task_state
<1>7. QueueTypeOK'
  BY <1>1, <1>5, <1>6 DEF QueueTypeOK, blockVars
<1>8. Others(t)
  BY <1>1, <1>5 DEF Others, TaskTypeOK
<1>9. /\ pc'[t] = "send_yield" /\ arg'[t] = q /\ state'[t] = "QUEUE_SEND_WAITING"
  BY <1>1, <1>3, <1>5 DEF TaskTypeOK
<1>10. LocalsOf(t)'
  <2>1. t \notin in_heap'
    BY <1>2, <1>3, <1>5 DEF LocalsOf, AtMfree
  <2> QED
    BY <1>4, <1>5, <1>9, <2>1 DEF LocalsOf, Sending
<1>11. ASSUME ~ heap_raced'
       PROVE  BlocksOwned' /\ Silent
  <2>1. ~ heap_raced /\ node[t] = NULL
    BY <1>2, <1>3, <1>5, <1>11, OwnHand DEF HandOf, Holding, AtMfree
  <2>2. HandOf(t)'
    BY <1>5, <1>9, <2>1 DEF HandOf, Holding, AtMfree, blockVars
  <2> QED
    BY <1>3, <1>5, <1>7, <1>8, <2>1, <2>2, SameBlocks
<1>12. QueueInv'
  <2>1. pc'[t] \in AtYield
    BY <1>9 DEF AtYield
  <2> QED
    BY <1>1, <1>2, <1>5, <1>7, <1>8, <1>10, <1>11, <2>1, QueueStepKeeps
<1>13. NoStrandedItem'
  BY <1>2, <1>3, <1>5, <1>7, <1>8, <1>9, QuietItems
<1> QED
  BY <1>11, <1>12, <1>13 DEF QInv, Quiet

(* A send without room and a receive free the block they have in hand.      *)
LEMMA FreeKeeps ==
  ASSUME IdleRegistered, QInv, NEW t \in AppTasks, NEW from \in AtMfree,
         NEW to \in {"queue_park", "run", "wake_yield"},
         pc[t] = from, to = "queue_park" => from = "queue_full",
         MfreeEnds(t), pc' = [pc EXCEPT ![t] = to], UNCHANGED switched
  PROVE  QInv' /\ Quiet
<1>1. QueueTypeOK /\ TaskTypeOK
  BY QueueTypes
<1>2. from \notin AtYield \cup {"queue_receive", "recv_yield", "queue_link"}
  BY DEF AtMfree, AtYield
<1>3. /\ Running(t) /\ LeaveHeap(t)
      /\ UNCHANGED <<arg, state, delay_ticks, waiting_for_resource, priority>>
      /\ UNCHANGED <<q_count, sent>> /\ UNCHANGED q_count /\ UNCHANGED cpuVars
  BY DEF MfreeEnds, tcbVars
<1>4. /\ t \in Tasks /\ state[t] = "READY" /\ LocalsOf(t)
  BY <1>2, <1>3, QueueCaller
<1>5. /\ in_heap' \subseteq Senders \cup Receivers
      /\ heap_raced' = heap_raced /\ heap_raced' \in BOOLEAN
      /\ t \notin in_heap'
      /\ \A u : u # t => (u \in in_heap' <=> u \in in_heap)
  BY <1>3, <1>4, LeaveFacts
<1>6. TaskTypeOK'
  BY <1>1, <1>3, <1>4 DEF TaskTypeOK, cpuVars, Inside, AtYield
<1>7. BlockTypes' => QueueTypeOK'
  <2>1. /\ q_count' \in [Queues -> Nat]
        /\ \A p \in Queues : MaxItems[p] # 0 => q_count'[p] <= MaxItems[p]
        /\ sent' \in [Tasks -> Items \cup {NULL}]
    BY <1>1, <1>3 DEF QueueTypeOK
  <2> QED
    BY <1>1, <1>5, <1>6, <2>1, TypesAfter
<1>8. Others(t)
  BY <1>1, <1>3, <1>5 DEF Others, TaskTypeOK
<1>9. /\ pc'[t] = to /\ state'[t] = "READY" /\ arg'[t] = arg[t] /\ sent'[t] = sent[t]
  BY <1>1, <1>3, <1>4 DEF TaskTypeOK
<1>10. LocalsOf(t)'
  <2>1. to = "queue_park" => arg[t] \in Queues /\ sent[t] \in Items
    BY <1>4 DEF LocalsOf, Sending
  <2> QED
    BY <1>5, <1>9, <2>1 DEF LocalsOf, Sending
<1>11. QueueTypeOK' /\ (~ heap_raced' => BlocksOwned' /\ Silent)
  <2>1. CASE heap_raced
    <3>1. UNCHANGED blockVars
      BY <2>1 DEF MfreeEnds, UntilRace
    <3> QED
      BY <1>1, <1>5, <1>7, <2>1, <3>1, BlockTypesKept
  <2>2. CASE ~ heap_raced
    <3>1. /\ os_mfree(node[t]) /\ node' = [node EXCEPT ![t] = NULL]
          /\ UNCHANGED <<head, tail, buffer>>
      BY <2>2 DEF MfreeEnds, UntilRace
    <3>2. node[t] # NULL
      BY <1>4, <2>2, OwnHand DEF HandOf, Holding
    <3>3. PICK x \in Nodes : x = node[t]
      BY <1>1, <1>4, <3>2 DEF QueueTypeOK
    <3>4. /\ heap_free' = heap_free \cup {x}
          /\ next' = [next EXCEPT ![x] = NULL]
          /\ data' = [data EXCEPT ![x] = NULL]
      BY <3>1, <3>3 DEF os_mfree
    <3>5. QueueTypeOK'
      BY <1>1, <1>4, <1>7, <3>1, <3>4 DEF BlockTypes, QueueTypeOK
    <3>6. UNCHANGED listVars
      BY <1>3, <3>1 DEF listVars
    <3>7. Placed' /\ SameContent
      BY <1>4, <2>2, <3>1, <3>2, <3>6, PlacedFree DEF QInv
    <3>8. Hands(t)
      <4>1. \A u \in Tasks : u # t => node'[u] = node[u]
        BY <1>1, <3>1 DEF QueueTypeOK
      <4>2. ASSUME NEW u \in Tasks, u # t, pc[u] = "queue_link"
            PROVE  node[u] \in Nodes /\ node[u] # x
        <5>1. node[u] # NULL /\ node[u] \in Nodes
          BY <1>1, <2>2, <4>2, OwnHand DEF HandOf, Holding, QueueTypeOK
        <5>2. Elsewhere
          BY <2>2, PlacedFacts DEF QInv, Placed, Apart
        <5> QED
          BY <1>4, <3>3, <4>2, <5>1, <5>2 DEF Elsewhere
      <4>3. \A m \in Nodes : m # x => next'[m] = next[m] /\ data'[m] = data[m]
        BY <1>1, <3>4 DEF QueueTypeOK
      <4> QED
        BY <4>1, <4>2, <4>3 DEF Hands
    <3>9. HandOf(t)'
      <4>1. node'[t] = NULL
        BY <1>1, <1>4, <3>1 DEF QueueTypeOK
      <4> QED
        BY <1>9, <4>1 DEF HandOf, Holding, AtMfree
    <3> QED
      BY <1>4, <1>8, <2>2, <3>1, <3>5, <3>7, <3>8, <3>9, OwnedAfter DEF Silent
  <2> QED
    BY <2>1, <2>2
<1>12. QueueInv'
  BY <1>3, <1>8, <1>9, <1>10, <1>11, QueueStepKeeps
<1>13. NoStrandedItem'
  BY <1>2, <1>3, <1>4, <1>8, <1>9, <1>11, QuietItems
<1> QED
  BY <1>11, <1>12, <1>13 DEF QInv, Quiet

LEMMA SendFreeKeeps ==
  ASSUME IdleRegistered, QInv, NEW t \in Senders, SendFree(t), UNCHANGED switched
  PROVE  QInv' /\ Quiet
<1>1. t \in AppTasks
  BY QueueTypes
<1>2. /\ pc[t] = "queue_full" /\ MfreeEnds(t)
      /\ pc' = [pc EXCEPT ![t] = "queue_park"]
  BY DEF SendFree, At
<1>3. "queue_full" \in AtMfree
  BY DEF AtMfree
<1> QED
  BY <1>1, <1>2, <1>3, FreeKeeps

LEMMA ReceiveFreeKeeps ==
  ASSUME IdleRegistered, QInv, NEW t \in Receivers, ReceiveFree(t), UNCHANGED switched
  PROVE  QInv' /\ Quiet
<1>1. t \in AppTasks
  BY QueueTypes
<1>2. PICK from \in {"queue_free", "queue_free_woke"} : pc[t] = from
  BY DEF ReceiveFree, At
<1>3. PICK to \in {"run", "wake_yield"} :
        pc' = [pc EXCEPT ![t] = to]
  BY <1>2 DEF ReceiveFree
<1>4. MfreeEnds(t)
  BY DEF ReceiveFree
<1>5. from \in AtMfree
  BY DEF AtMfree
<1> QED
  BY <1>1, <1>2, <1>3, <1>4, <1>5, FreeKeeps
-----------------------------------------------------------------------------
(* The critical section of a receive.                                       *)
LEMMA ReceiverReady ==
  ASSUME QInv, NEW t \in Receivers, NEW q, AtHead(t, "queue_receive", q)
  PROVE  /\ t \in AppTasks /\ t \in Tasks /\ Running(t)
         /\ state[t] = "READY" /\ LocalsOf(t) /\ t \notin in_heap
         /\ ~ heap_raced => node[t] = NULL
         /\ pc[t] = "run" \/ (pc[t] = "queue_receive" /\ arg[t] = q)
<1>1. Running(t) /\ (pc[t] = "run" \/ (pc[t] = "queue_receive" /\ arg[t] = q))
  BY DEF AtHead, Calls
<1>2. pc[t] \notin AtYield /\ pc[t] \notin Holding
  BY <1>1 DEF AtYield, Holding, AtMfree
<1>3. t \in AppTasks
  BY QueueTypes
<1>4. t \in Tasks /\ state[t] = "READY" /\ LocalsOf(t)
  BY <1>1, <1>2, <1>3, QueueCaller
<1>5. t \notin in_heap
  BY <1>1, <1>4 DEF LocalsOf, AtMfree
<1>6. ~ heap_raced => node[t] = NULL
  BY <1>2, <1>4, OwnHand DEF HandOf
<1> QED
  BY <1>1, <1>2, <1>3, <1>4, <1>5, <1>6

LEMMA ReceiveTakeKeeps ==
  ASSUME IdleRegistered, QInv, NEW t \in Receivers, NEW q \in Queues,
         os_queue_receive(t, q), q_count[q] > 0, UNCHANGED switched
  PROVE  /\ QInv' /\ heap_raced' = heap_raced
         /\ ~ heap_raced =>
              Unlinking(t, q) /\ buffer' = [buffer EXCEPT ![t] = data[head[q]]]
<1>1. QueueTypeOK /\ TaskTypeOK
  BY QueueTypes
<1>2. /\ t \in AppTasks /\ t \in Tasks /\ Running(t)
      /\ state[t] = "READY" /\ LocalsOf(t) /\ t \notin in_heap
      /\ ~ heap_raced => node[t] = NULL
      /\ pc[t] = "run" \/ (pc[t] = "queue_receive" /\ arg[t] = q)
  BY ReceiverReady DEF os_queue_receive
<1>3. PICK W : W = queue_wake_one(q, "QUEUE_SEND_WAITING")
  OBVIOUS
<1>4. PICK label \in {"queue_free", "queue_free_woke"} :
        label = AfterWake(W, "queue_free_woke", "queue_free")
  BY DEF AfterWake
<1>5. PICK n \in Nat : n + 1 = q_count[q]
  <2>1. q_count[q] \in Nat
    BY <1>1 DEF QueueTypeOK
  <2>2. q_count[q] - 1 \in Nat /\ (q_count[q] - 1) + 1 = q_count[q]
    BY <2>1
  <2> QED
    BY <2>2
<1>6. q_count[q] # 0
  BY <1>5
<1>7. /\ q_count' = [q_count EXCEPT ![q] = @ - 1]
      /\ state' = [u \in Tasks |-> IF u \in W THEN "READY" ELSE state[u]]
      /\ waiting_for_resource' =
           [u \in Tasks |-> IF u \in W THEN NULL ELSE waiting_for_resource[u]]
      /\ pc' = [pc EXCEPT ![t] = label] /\ arg' = [arg EXCEPT ![t] = NULL]
      /\ UNCHANGED <<sent, delay_ticks, priority, in_heap, heap_raced>>
      /\ UNCHANGED cpuVars
  BY <1>3, <1>4, <1>6 DEF os_queue_receive, Wake, Return, heapVars
<1>8. TaskTypeOK'
  BY <1>1, <1>2, <1>7 DEF TaskTypeOK, cpuVars, Inside, os_task_state
<1>9. BlockTypes' => QueueTypeOK'
  <2>1. /\ q_count'[q] = n
        /\ \A p \in Queues : p # q => q_count'[p] = q_count[p]
        /\ q_count' \in [Queues -> Nat]
    <3>1. /\ q_count'[q] = q_count[q] - 1
          /\ \A p \in Queues : p # q => q_count'[p] = q_count[p]
          /\ q_count' = [p \in Queues |-> q_count'[p]]
          /\ \A p \in Queues : q_count[p] \in Nat
      BY <1>1, <1>7 DEF QueueTypeOK
    <3>2. q_count[q] - 1 = n
      BY <1>5
    <3>3. \A p \in Queues : q_count'[p] \in Nat
      BY <3>1, <3>2
    <3> QED
      BY <3>1, <3>2, <3>3
  <2>2. \A p \in Queues : MaxItems[p] # 0 => q_count'[p] <= MaxItems[p]
    BY <1>1, <1>5, <2>1, QueueAssumption DEF QueueTypeOK
  <2>3. /\ sent' \in [Tasks -> Items \cup {NULL}]
        /\ in_heap' \subseteq Senders \cup Receivers /\ heap_raced' \in BOOLEAN
    BY <1>1, <1>7 DEF QueueTypeOK
  <2> QED
    BY <1>1, <1>8, <2>1, <2>2, <2>3, TypesAfter
<1>10. W \subseteq Waiters("QUEUE_SEND_WAITING", q)
  BY <1>1, <1>3, QueueWakesOne
<1>11. t \notin W
  BY <1>2, <1>10 DEF Waiters
<1>12. Others(t)
  <2>1. \A u \in Tasks : u # t =>
          sent'[u] = sent[u] /\ pc'[u] = pc[u] /\ arg'[u] = arg[u]
    BY <1>1, <1>7 DEF QueueTypeOK, TaskTypeOK
  <2>2. \A u \in Tasks :
          \/ state'[u] = state[u] /\ waiting_for_resource'[u] = waiting_for_resource[u]
          \/ Woke(u)
    BY <1>7 DEF Woke
  <2> QED
    BY <1>7, <2>1, <2>2 DEF Others
<1>13. pc'[t] = label /\ state'[t] = "READY"
  BY <1>1, <1>2, <1>7, <1>11 DEF TaskTypeOK
<1>14. LocalsOf(t)'
  BY <1>2, <1>7, <1>13 DEF LocalsOf, Sending
<1>15. ASSUME ~ heap_raced
       PROVE  /\ Unlinking(t, q) /\ buffer' = [buffer EXCEPT ![t] = data[head[q]]]
              /\ QueueTypeOK' /\ BlocksOwned'
  <2>1. /\ buffer' = [buffer EXCEPT ![t] = data[head[q]]]
        /\ head' = [head EXCEPT ![q] = next[head[q]]]
        /\ tail' = [tail EXCEPT ![q] = IF next[head[q]] = NULL THEN NULL ELSE @]
        /\ node' = [node EXCEPT ![t] = head[q]]
        /\ UNCHANGED <<next, data, heap_free>>
    BY <1>6, <1>15 DEF os_queue_receive, UntilRace
  <2>2. Unlinking(t, q)
    BY <1>2, <1>6, <1>7, <1>15, <2>1 DEF Unlinking, nodeVars
  <2>3. Placed'
    BY <1>2, <1>15, <2>2, PlacedUnlink DEF QInv
  <2>4. PICK x \in Nodes : x = head[q] /\ x = NodeAt(q)[1]
    BY <1>2, <1>5, <1>15, <2>2, UnlinkLists DEF QInv
  <2>5. BlockTypes'
    BY <1>1, <1>2, <2>1, <2>4 DEF QueueTypeOK, BlockTypes
  <2>6. Hands(t)
    BY <1>1, <2>1 DEF Hands, QueueTypeOK
  <2>7. HandOf(t)'
    <3>1. node'[t] = x /\ x # NULL
      BY <1>1, <1>2, <2>1, <2>4, QueueTypes DEF QueueTypeOK
    <3> QED
      BY <1>13, <3>1 DEF HandOf, Holding, AtMfree
  <2> QED
    BY <1>2, <1>9, <1>12, <1>15, <2>1, <2>2, <2>3, <2>5, <2>6, <2>7, OwnedAfter
<1>16. QueueTypeOK'
  <2>1. CASE heap_raced
    <3>1. UNCHANGED blockVars
      BY <1>6, <2>1 DEF os_queue_receive, UntilRace
    <3> QED
      BY <1>1, <1>9, <3>1, BlockTypesKept
  <2> QED
    BY <1>15, <2>1
<1>17. QueueInv'
  BY <1>2, <1>7, <1>12, <1>13, <1>14, <1>15, <1>16, QueueStepKeeps
<1>18. ASSUME NEW r \in Queues
       PROVE  RecvWaiters(r)' # {} => q_count'[r] <= Cardinality(RecvRetriers(r)')
  <2>1. RecvWaiters(r)' \subseteq RecvWaiters(r)
    BY <1>12, <1>13 DEF RecvWaiters, Waiters, Others, Woke
  <2>2. RecvRetriers(r) \ {t} \subseteq RecvRetriers(r)'
    BY <1>12 DEF RecvRetriers, Retriers, Others, Woke
  <2>3. q_count'[r] \in Nat /\ q_count[r] \in Nat
    BY <1>1, <1>16 DEF QueueTypeOK
  <2>4. CASE r # q
    <3>1. t \notin RecvRetriers(r)
      BY <1>2, <2>4 DEF RecvRetriers, Retriers
    <3>2. RecvRetriers(r) \subseteq RecvRetriers(r)'
      BY <2>2, <3>1
    <3>3. q_count'[r] <= q_count[r]
      BY <1>1, <1>7, <2>3, <2>4 DEF QueueTypeOK
    <3>4. RecvWaiters(r)' = {} \/ RecvWaiters(r) # {}
      BY <2>1
    <3> QED
      BY <2>3, <3>2, <3>3, <3>4, ItemMatched
  <2>5. CASE r = q
    <3>1. /\ IsFiniteSet(RecvRetriers(q)) /\ IsFiniteSet(RecvRetriers(q)')
          /\ Cardinality(RecvRetriers(q)) \in Nat
          /\ Cardinality(RecvRetriers(q)') \in Nat
      BY RetriersFinite
    <3>2. /\ IsFiniteSet(RecvRetriers(q) \ {t})
          /\ Cardinality(RecvRetriers(q)) - 1 <= Cardinality(RecvRetriers(q) \ {t})
          /\ Cardinality(RecvRetriers(q) \ {t}) \in Nat
      <4>1. PICK c \in Nat : c = Cardinality(RecvRetriers(q))
        BY <3>1
      <4>2. /\ IsFiniteSet(RecvRetriers(q) \ {t})
            /\ Cardinality(RecvRetriers(q) \ {t}) =
                 IF t \in RecvRetriers(q) THEN c - 1 ELSE c
        BY <3>1, <4>1, FS_RemoveElement
      <4>3. Cardinality(RecvRetriers(q) \ {t}) \in Nat
        BY <4>2, FS_CardinalityType
      <4> QED
        BY <4>1, <4>2, <4>3
    <3>3. Cardinality(RecvRetriers(q) \ {t}) <= Cardinality(RecvRetriers(q)')
      BY <2>2, <2>5, <3>1, FS_Subset
    <3>4. RecvWaiters(q) # {} => q_count[q] <= Cardinality(RecvRetriers(q))
      BY DEF QInv, NoStrandedItem, RecvRetriers, RecvWaiters
    <3>5. q_count'[q] = q_count[q] - 1
      BY <1>1, <1>7 DEF QueueTypeOK
    <3> QED
      BY <2>1, <2>3, <2>5, <3>1, <3>2, <3>3, <3>4, <3>5
  <2> QED
    BY <2>4, <2>5
<1>19. NoStrandedItem'
  BY <1>18, ItemsFrom
<1> QED
  BY <1>7, <1>15, <1>17, <1>19 DEF QInv

LEMMA ReceiveParkKeeps ==
  ASSUME IdleRegistered, QInv, NEW t \in Receivers, NEW q \in Queues,
         os_queue_receive(t, q), ~ (q_count[q] > 0), UNCHANGED switched
  PROVE  QInv' /\ Quiet
<1>1. /\ QueueTypeOK /\ TaskTypeOK /\ q \in Resources
  BY QueueTypes
<1>2. /\ t \in AppTasks /\ t \in Tasks /\ Running(t)
      /\ state[t] = "READY" /\ LocalsOf(t) /\ t \notin in_heap
      /\ ~ heap_raced => node[t] = NULL
      /\ pc[t] = "run" \/ (pc[t] = "queue_receive" /\ arg[t] = q)
  BY ReceiverReady DEF os_queue_receive
<1>3. q_count[q] = 0
  BY <1>1 DEF QueueTypeOK
<1>4. /\ state' = [state EXCEPT ![t] = "QUEUE_RECV_WAITING"]
      /\ waiting_for_resource' = [waiting_for_resource EXCEPT ![t] = q]
      /\ pc' = [pc EXCEPT ![t] = "recv_yield"]
      /\ arg' = [arg EXCEPT ![t] = q]
      /\ UNCHANGED <<delay_ticks, priority>>
      /\ UNCHANGED blockVars /\ UNCHANGED q_count
      /\ UNCHANGED <<in_heap, heap_raced, sent>> /\ UNCHANGED cpuVars
  BY <1>3 DEF os_queue_receive, Park, heapVars
<1>5. TaskTypeOK'
  BY <1>1, <1>2, <1>4 DEF TaskTypeOK, cpuVars, AtYield, os_task_state
<1>6. QueueTypeOK'
  BY <1>1, <1>4, <1>5 DEF QueueTypeOK, blockVars
<1>7. Others(t)
  BY <1>1, <1>4 DEF Others, TaskTypeOK
<1>8. /\ pc'[t] = "recv_yield" /\ arg'[t] = q /\ waiting_for_resource'[t] = q
  BY <1>1, <1>2, <1>4 DEF TaskTypeOK
<1>9. LocalsOf(t)'
  BY <1>2, <1>4, <1>8 DEF LocalsOf, Sending
<1>10. ASSUME ~ heap_raced'
       PROVE  BlocksOwned' /\ Silent
  <2>1. ~ heap_raced /\ node[t] = NULL
    BY <1>2, <1>4, <1>10
  <2>2. HandOf(t)'
    BY <1>4, <1>8, <2>1 DEF HandOf, Holding, AtMfree, blockVars
  <2> QED
    BY <1>2, <1>4, <1>6, <1>7, <2>1, <2>2, SameBlocks
<1>11. QueueInv'
  <2>1. pc'[t] \in AtYield
    BY <1>8 DEF AtYield
  <2> QED
    BY <1>2, <1>4, <1>6, <1>7, <1>9, <1>10, <2>1, QueueStepKeeps
<1>12. ASSUME NEW r \in Queues
       PROVE  RecvWaiters(r)' # {} => q_count'[r] <= Cardinality(RecvRetriers(r)')
  <2>1. q_count'[r] = q_count[r] /\ q_count'[r] \in Nat
    BY <1>4, <1>6 DEF QueueTypeOK
  <2>2. CASE r = q
    <3>1. Cardinality(RecvRetriers(q)') \in Nat
      BY RetriersFinite
    <3> QED
      BY <1>3, <2>1, <2>2, <3>1
  <2>3. CASE r # q
    <3>1. t \notin RecvRetriers(r)
      BY <1>2, <2>3 DEF RecvRetriers, Retriers
    <3>2. RecvRetriers(r) \subseteq RecvRetriers(r)'
      BY <1>7, <3>1 DEF RecvRetriers, Retriers, Others, Woke
    <3>3. RecvWaiters(r)' \subseteq RecvWaiters(r)
      BY <1>7, <1>8, <2>3 DEF RecvWaiters, Waiters, Others, Woke
    <3>4. RecvWaiters(r)' = {} \/ RecvWaiters(r) # {}
      BY <3>3
    <3> QED
      BY <2>1, <3>2, <3>4, ItemMatched
  <2> QED
    BY <2>2, <2>3
<1>13. NoStrandedItem'
  BY <1>12, ItemsFrom
<1> QED
  BY <1>10, <1>11, <1>13 DEF QInv, Quiet
-----------------------------------------------------------------------------
(* The steps of module Task.                                                *)
SamePlace(t) ==
  /\ pc'[t] \in Holding <=> pc[t] \in Holding
  /\ pc'[t] \in Sending => pc[t] \in Sending
  /\ pc'[t] = "queue_link" => pc[t] = "queue_link"
  /\ pc[t] \in {"queue_send"} \cup AtMfree => pc'[t] = pc[t]
  /\ pc[t] \in {"queue_receive", "recv_yield"} =>
       pc'[t] \in {"queue_receive", "recv_yield"}

LEMMA QuietTaskStep ==
  ASSUME QInv, SchedInv', UNCHANGED queueVars, UNCHANGED arg, switched' \in BOOLEAN,
         \A t \in Tasks :
           /\ SamePlace(t)
           /\ state'[t] = "QUEUE_RECV_WAITING" =>
                /\ state[t] = "QUEUE_RECV_WAITING"
                /\ waiting_for_resource'[t] = waiting_for_resource[t]
           /\ pc[t] \in {"queue_receive", "recv_yield"} /\ state[t] = "READY" =>
                state'[t] = "READY"
  PROVE  QInv' /\ Quiet
<1>1. /\ UNCHANGED <<head, tail, q_count, next, data, heap_free, node, sent, buffer>>
      /\ UNCHANGED <<in_heap, heap_raced>>
      /\ UNCHANGED <<listVars, nodeVars, node>>
  BY DEF queueVars, blockVars, heapVars, listVars, nodeVars
<1>2. QueueTypeOK'
  BY <1>1 DEF QInv, QueueInv, QueueTypeOK, SchedInv
<1>3. ASSUME ~ heap_raced
      PROVE  BlocksOwned' /\ Silent
  <2>1. Placed' /\ SameContent
    BY <1>1, <1>3, PlacedSame DEF QInv
  <2>2. BlocksAccounted'
    BY <1>2, <2>1, AccountedNext DEF Placed
  <2>3. ASSUME NEW t \in Tasks
        PROVE  HandOf(t)'
    <3>1. HandOf(t)
      BY <1>3, OwnHand
    <3>2. SamePlace(t)
      OBVIOUS
    <3> QED
      BY <1>1, <3>1, <3>2 DEF HandOf, SamePlace
  <2> QED
    BY <1>1, <2>1, <2>2, <2>3 DEF BlocksOwned, Placed, Silent
<1>4. ASSUME NEW t \in Tasks
      PROVE  LocalsOf(t)'
  <2>1. LocalsOf(t)
    BY DEF QInv, QueueInv, LocalsFollow
  <2>2. SamePlace(t)
    OBVIOUS
  <2> QED
    BY <1>1, <2>1, <2>2 DEF LocalsOf, SamePlace
<1>5. LocalsFollow'
  BY <1>4 DEF LocalsFollow
<1>6. QueueInv'
  BY <1>1, <1>2, <1>3, <1>5 DEF QueueInv
<1>7. ASSUME NEW q \in Queues
      PROVE  RecvWaiters(q)' # {} => q_count'[q] <= Cardinality(RecvRetriers(q)')
  <2>1. RecvRetriers(q) \subseteq RecvRetriers(q)'
    BY DEF RecvRetriers, Retriers, SamePlace
  <2>2. RecvWaiters(q)' \subseteq RecvWaiters(q)
    BY DEF RecvWaiters, Waiters
  <2>3. q_count'[q] = q_count[q] /\ q_count'[q] \in Nat
    BY <1>1, <1>2 DEF QueueTypeOK
  <2>4. RecvWaiters(q)' = {} \/ RecvWaiters(q) # {}
    BY <2>2
  <2> QED
    BY <2>1, <2>3, <2>4, ItemMatched
<1> QED
  BY <1>1, <1>3, <1>6, <1>7, ItemsFrom DEF QInv, Quiet

LEMMA TaskStepKeeps ==
  ASSUME IdleRegistered, QInv, TaskNext, UNCHANGED queueVars, switched' \in BOOLEAN
  PROVE  QInv' /\ Quiet
<1>1. SchedInv' /\ TaskTypeOK' /\ TaskTypeOK
  BY SchedNext DEF QInv, QueueInv, SchedInv
<1>2. CASE SysTick_Handler
  <2>1. /\ UNCHANGED <<pc, arg>>
        /\ \A t \in Tasks :
             /\ waiting_for_resource'[t] = waiting_for_resource[t]
             /\ \/ state'[t] = state[t]
                \/ state[t] = "BLOCKED" /\ state'[t] = "READY"
    BY <1>2 DEF SysTick_Handler, Tick, os_decrement_blocked_tasks, Expiring, Sleeping
  <2>2. \A t \in Tasks : SamePlace(t)
    BY <2>1 DEF SamePlace
  <2> QED
    BY <1>1, <2>1, <2>2, QuietTaskStep
<1>3. CASE SwitchStep
  <2>1. UNCHANGED <<state, waiting_for_resource, pc, arg>>
    BY <1>3 DEF SwitchStep, PendSV_Handler, ScanOne, Dispatch, tcbVars
  <2>2. \A t \in Tasks : SamePlace(t)
    BY <2>1 DEF SamePlace
  <2> QED
    BY <1>1, <2>1, <2>2, QuietTaskStep
<1>4. ASSUME NEW t \in Tasks, Yield(t)
      PROVE  QInv' /\ Quiet
  <2>1. /\ UNCHANGED <<state, waiting_for_resource, arg>>
        /\ pc' = [pc EXCEPT ![t] = YieldTo[pc[t]]]
        /\ pc[t] \in AtYield
    BY <1>4 DEF Yield, tcbVars
  <2>2. /\ pc'[t] = YieldTo[pc[t]]
        /\ \A u \in Tasks : u # t => pc'[u] = pc[u]
    BY <1>1, <2>1 DEF TaskTypeOK
  <2>3. SamePlace(t)
    <3>1. PICK y \in AtYield : y = pc[t]
      BY <2>1
    <3>2. PICK z : z = YieldTo[y]
      OBVIOUS
    <3>3. /\ y \notin Holding /\ z \notin Holding
          /\ z \in Sending => y \in Sending
          /\ z # "queue_link"
          /\ y \notin {"queue_send"} \cup AtMfree
          /\ y \in {"queue_receive", "recv_yield"} => z = "queue_receive"
      BY <3>2 DEF AtYield, YieldTo, Holding, Sending, AtMfree
    <3> QED
      BY <2>2, <3>1, <3>2, <3>3 DEF SamePlace
  <2>4. \A u \in Tasks : SamePlace(u)
    BY <2>2, <2>3 DEF SamePlace
  <2> QED
    BY <1>1, <2>1, <2>4, QuietTaskStep
<1>5. ASSUME NEW t \in Tasks, NEW ticks \in Delays, os_delay(t, ticks)
      PROVE  QInv' /\ Quiet
  <2>1. /\ UNCHANGED <<waiting_for_resource, arg>>
        /\ state' = [state EXCEPT ![t] = "BLOCKED"]
        /\ pc' = [pc EXCEPT ![t] = "delay_yield"]
        /\ pc[t] = "run"
    BY <1>5 DEF os_delay, Calls
  <2>2. \A u \in Tasks :
          /\ u # t => state'[u] = state[u] /\ pc'[u] = pc[u]
          /\ u = t => state'[u] = "BLOCKED" /\ pc'[u] = "delay_yield"
    BY <1>1, <2>1 DEF TaskTypeOK
  <2>3. \A u \in Tasks : SamePlace(u)
    BY <2>1, <2>2 DEF SamePlace, Holding, Sending, AtMfree
  <2>4. \A u \in Tasks : pc[u] \in {"queue_receive", "recv_yield"} => u # t
    BY <2>1
  <2> QED
    BY <1>1, <2>1, <2>2, <2>3, <2>4, QuietTaskStep
<1> QED
  BY <1>2, <1>3, <1>4, <1>5 DEF TaskNext

LEMMA QueueStutter ==
  ASSUME QInv, UNCHANGED qVars
  PROVE  QInv' /\ Quiet
<1>1. UNCHANGED taskVars /\ UNCHANGED queueVars /\ switched' \in BOOLEAN
  BY QueueTypes DEF qVars, QueueTypeOK
<1>2. SchedInv'
  BY <1>1, SchedStutter DEF QInv, QueueInv
<1>3. /\ UNCHANGED arg
      /\ \A t \in Tasks : pc'[t] = pc[t] /\ state'[t] = state[t]
                          /\ waiting_for_resource'[t] = waiting_for_resource[t]
  BY <1>1 DEF taskVars
<1>4. \A t \in Tasks : SamePlace(t)
  BY <1>3 DEF SamePlace
<1> QED
  BY <1>1, <1>2, <1>3, <1>4, QuietTaskStep
-----------------------------------------------------------------------------
LEMMA QueueStart == IdleRegistered /\ QueueInit => QInv
<1> SUFFICES ASSUME IdleRegistered, QueueInit
             PROVE  QInv
  OBVIOUS
<1>1. SchedInv /\ TaskTypeOK
  BY SchedInit, TaskInitTypeOK DEF QueueInit
<1>2. QueueTypeOK
  <2>1. \A q \in Queues : q_count[q] = 0
    BY DEF QueueInit, os_queue_init
  <2>2. \A q \in Queues : MaxItems[q] # 0 => q_count[q] <= MaxItems[q]
    BY <2>1, QueueAssumption
  <2>3. q_count \in [Queues -> Nat]
    BY DEF QueueInit, os_queue_init
  <2> QED
    BY <1>1, <2>2, <2>3 DEF QueueInit, os_queue_init, QueueTypeOK
<1>3. /\ \A q \in Queues : q_count[q] = 0 /\ head[q] = NULL /\ tail[q] = NULL
      /\ \A t \in Tasks : node[t] = NULL /\ pc[t] = "run" /\ state[t] = "READY"
      /\ heap_free = Nodes /\ in_heap = {}
  BY DEF QueueInit, os_queue_init, TaskInit
<1>4. \A q \in Queues : Spots(q) = {} /\ NodeAt(q) \in [Spots(q) -> Nodes]
  <2> SUFFICES ASSUME NEW q \in Queues
               PROVE  Spots(q) = {} /\ NodeAt(q) \in [Spots(q) -> Nodes]
    OBVIOUS
  <2>1. Spots(q) = {}
    BY <1>3 DEF Spots
  <2>2. NodeAt(q) = [i \in Spots(q) |-> NodeAt(q)[i]]
    BY <1>2, NodeAtSolves
  <2> QED
    BY <2>1, <2>2
<1>5. Apart
  <2>1. InLists
    BY <1>4 DEF InLists
  <2>2. Elsewhere
    BY <1>3, <1>4, QueueAssumption DEF Elsewhere
  <2>3. AllKnown
    BY <1>3 DEF AllKnown
  <2>4. TailsLast
    BY <1>3 DEF TailsLast
  <2> QED
    BY <2>1, <2>2, <2>3, <2>4 DEF Apart
<1>6. BlocksAccounted
  BY <1>2, <1>5, ApartIsAccounted
<1>7. ListsEnd
  BY <1>3, <1>4 DEF ListsEnd, Spots
<1>8. LocalsFollow /\ \A t \in Tasks : HandOf(t)
  BY <1>3 DEF LocalsFollow, LocalsOf, Sending, HandOf, Holding, AtMfree
<1>9. NoStrandedItem
  BY <1>3 DEF NoStrandedItem, Waiters
<1> QED
  BY <1>1, <1>2, <1>6, <1>7, <1>8, <1>9 DEF QInv, QueueInv, BlocksOwned

LEMMA QueueStepInv ==
  ASSUME IdleRegistered, QInv, [QueueNext]_qVars
  PROVE  QInv'
<1>1. CASE TaskNext /\ UNCHANGED queueVars /\ switched' = (switched \/ ScanEnds)
  <2>1. switched' \in BOOLEAN
    BY <1>1
  <2> QED
    BY <1>1, <2>1, TaskStepKeeps
<1>2. ASSUME NEW t \in Senders, NEW q \in Queues, os_queue_send(t, q), UNCHANGED switched
      PROVE  QInv'
  BY <1>2, CallKeeps
<1>3. ASSUME NEW t \in Senders, UNCHANGED switched,
             \/ SendAlloc(t) \/ SendFails(t) \/ SendLink(t)
             \/ SendFull(t) \/ SendFree(t) \/ SendPark(t)
      PROVE  QInv'
  BY <1>3, AllocKeeps, FailsKeeps, LinkKeeps, FullKeeps, SendFreeKeeps, ParkKeeps
<1>4. ASSUME NEW t \in Receivers, NEW q \in Queues, os_queue_receive(t, q),
             UNCHANGED switched
      PROVE  QInv'
  BY <1>4, ReceiveTakeKeeps, ReceiveParkKeeps
<1>5. ASSUME NEW t \in Receivers, ReceiveFree(t), UNCHANGED switched
      PROVE  QInv'
  BY <1>5, ReceiveFreeKeeps
<1>6. ASSUME NEW t \in Senders \cup Receivers, MfreeBegins(t), UNCHANGED switched
      PROVE  QInv'
  BY <1>6, MfreeBeginsKeeps
<1>7. CASE UNCHANGED qVars
  BY <1>7, QueueStutter
<1> QED
  BY <1>1, <1>2, <1>3, <1>4, <1>5, <1>6, <1>7 DEF QueueNext, QueueStep

LEMMA QueueInvariant ==
  ASSUME IdleRegistered
  PROVE  QueueSpec => []QInv
<1>1. QueueInit => QInv
  BY QueueStart
<1>2. QInv /\ [QueueNext]_qVars => QInv'
  BY QueueStepInv
<1> QED
  BY <1>1, <1>2, PTL DEF QueueSpec

(* As long as no two heap calls have overlapped, every block of the heap is *)
(* free, or in one list once, or in the hands of one task, wherever tasks   *)
(* in the queue's code are preempted; and whatever the heap calls do, types *)
(* and limits hold and a parked receiver waits where it says.               *)
THEOREM BlocksNeverLost ==
  ASSUME IdleRegistered
  PROVE  QueueSpec => []QueueInv
<1>1. QInv => QueueInv
  BY DEF QInv
<1> QED
  BY <1>1, QueueInvariant, PTL

(* While receivers are parked on a queue, each item in it has a woken       *)
(* receiver of its own that will try to take it.                            *)
THEOREM ItemsNeverStranded ==
  ASSUME IdleRegistered
  PROVE  QueueSpec => []NoStrandedItem
<1>1. QInv => NoStrandedItem
  BY DEF QInv
<1> QED
  BY <1>1, QueueInvariant, PTL
-----------------------------------------------------------------------------
(* Who may outrank the task that executes.  A step that is not the task's   *)
(* own leaves no task executing, but for the switch that chose the best.    *)
LEMMA SwitchRanks ==
  ASSUME IdleRegistered, QInv, TaskNext, ScanEnds
  PROVE  NobodyOutranksRunner'
<1>1. SchedInv /\ TaskTypeOK
  BY DEF QInv, QueueInv, SchedInv
<1>2. Dispatch
  BY TableFacts DEF ScanEnds, TaskNext, SwitchStep, SysTick_Handler, Tick, PendSV_Handler,
     ScanOne, Yield, os_delay, Calls, Running, NotScanning
<1>3. UNCHANGED <<state, priority, pc, pendsv>> /\ scan_i = os_task_count
  BY <1>2 DEF Dispatch, tcbVars
<1>4. CASE pendsv
  BY <1>3, <1>4 DEF NobodyOutranksRunner, Running
<1>5. CASE ~ pendsv
  <2>1. os_current_task_ptr' = chosen_index
    BY <1>1, <1>2, ScanComplete, TableFacts DEF Dispatch, None
  <2>2. \A u \in Tasks : state[u] = "READY" => priority[u] <= priority[chosen_index]
    BY <1>1, <1>2, <1>3, <1>5, ScanComplete DEF SchedInv, BestSoFar, ScanEnds
  <2> QED
    BY <1>3, <2>1, <2>2 DEF NobodyOutranksRunner, Running
<1> QED
  BY <1>4, <1>5

LEMMA NoRunnerRanks ==
  ASSUME pendsv' \/ scan_i' # NotScanning
  PROVE  NobodyOutranksRunner'
  BY DEF NobodyOutranksRunner, Running

(* A step of the task that executes, which wakes nobody or owes a yield.    *)
LEMMA OwnStepRanks ==
  ASSUME NobodyOutranksRunner, NEW t \in Tasks, Running(t),
         UNCHANGED cpuVars, UNCHANGED <<priority, switched>>,
         \/ pc'[t] \in OwesYield
         \/ /\ pc[t] \notin OwesYield
            /\ \A u \in Tasks : state'[u] = "READY" => state[u] = "READY"
  PROVE  NobodyOutranksRunner'
<1> SUFFICES ASSUME switched, NEW s \in Tasks, NEW u \in Tasks,
                    Running(s)', pc'[s] \notin OwesYield, state'[u] = "READY"
             PROVE  priority'[u] <= priority'[s]
  BY DEF NobodyOutranksRunner
<1>1. s = t
  BY DEF Running, cpuVars
<1>2. pc[t] \notin OwesYield /\ state[u] = "READY"
  BY <1>1
<1> QED
  BY <1>1, <1>2 DEF NobodyOutranksRunner

LEMMA WakeOwes ==
  ASSUME TaskTypeOK, NEW t \in Tasks, NEW W, NEW yield \in OwesYield, NEW label,
         state' = [u \in Tasks |-> IF u \in W THEN "READY" ELSE state[u]],
         pc' = [pc EXCEPT ![t] = AfterWake(W, yield, label)]
  PROVE  \/ pc'[t] \in OwesYield
         \/ \A u \in Tasks : state'[u] = "READY" => state[u] = "READY"
<1>1. pc'[t] = AfterWake(W, yield, label)
  BY DEF TaskTypeOK
<1> QED
  BY <1>1 DEF AfterWake

LEMMA TaskStepRanks ==
  ASSUME IdleRegistered, QInv, NobodyOutranksRunner, TaskNext,
         switched' = (switched \/ ScanEnds)
  PROVE  NobodyOutranksRunner'
<1>1. CASE ScanEnds
  BY <1>1, SwitchRanks
<1>2. CASE SysTick_Handler \/ \E t \in Tasks : Yield(t)
  BY <1>2, NoRunnerRanks DEF SysTick_Handler, Tick, Yield
<1>3. CASE PendSV_Handler \/ ScanOne
  BY <1>3, TableFacts, NoRunnerRanks DEF PendSV_Handler, ScanOne, NotScanning
<1>4. CASE Dispatch /\ ~ ScanEnds
  BY <1>4, TableFacts DEF Dispatch, ScanEnds, NotScanning
<1>5. ASSUME NEW t \in Tasks, NEW ticks \in Delays, os_delay(t, ticks), ~ ScanEnds
      PROVE  NobodyOutranksRunner'
  <2>1. /\ Running(t) /\ pc[t] = "run" /\ UNCHANGED cpuVars
        /\ UNCHANGED <<priority, switched>>
        /\ state' = [state EXCEPT ![t] = "BLOCKED"]
    BY <1>5, QueueTypes DEF os_delay, Calls, QueueTypeOK
  <2>2. \A u \in Tasks : state'[u] = "READY" => state[u] = "READY"
    BY <2>1, QueueTypes DEF TaskTypeOK
  <2>3. pc[t] \notin OwesYield
    BY <2>1 DEF OwesYield
  <2> QED
    BY <2>1, <2>2, <2>3, OwnStepRanks
<1> QED
  BY <1>1, <1>2, <1>3, <1>4, <1>5 DEF TaskNext, SwitchStep

LEMMA QueueStepRanks ==
  ASSUME QInv, NobodyOutranksRunner, QueueStep, UNCHANGED switched
  PROVE  NobodyOutranksRunner'
<1>1. /\ TaskTypeOK
      /\ \A t \in Senders \cup Receivers : t \in Tasks
  BY QueueTypes, TableFacts
<1>2. "wake_yield" \in OwesYield /\ "queue_free_woke" \in OwesYield
  BY DEF OwesYield
<1>3. ASSUME NEW t \in Senders, SendLink(t)
      PROVE  NobodyOutranksRunner'
  <2>1. PICK W : W = queue_wake_one(arg[t], "QUEUE_RECV_WAITING")
    OBVIOUS
  <2>2. /\ Running(t) /\ pc[t] = "queue_link"
        /\ UNCHANGED cpuVars /\ UNCHANGED <<priority, switched>>
        /\ state' = [u \in Tasks |-> IF u \in W THEN "READY" ELSE state[u]]
        /\ pc' = [pc EXCEPT ![t] = AfterWake(W, "wake_yield", "run")]
    BY <1>3, <2>1 DEF SendLink, At, Wake, Return
  <2>3. pc[t] \notin OwesYield
    BY <2>2 DEF OwesYield
  <2>4. t \in Tasks
    BY <1>1
  <2>5. \/ pc'[t] \in OwesYield
        \/ \A u \in Tasks : state'[u] = "READY" => state[u] = "READY"
    BY <1>1, <1>2, <2>2, <2>4, WakeOwes
  <2> QED
    BY <2>2, <2>3, <2>4, <2>5, OwnStepRanks
<1>4. ASSUME NEW t \in Receivers, NEW q \in Queues, os_queue_receive(t, q), q_count[q] > 0
      PROVE  NobodyOutranksRunner'
  <2>1. PICK W : W = queue_wake_one(q, "QUEUE_SEND_WAITING")
    OBVIOUS
  <2>2. q_count[q] # 0
    BY <1>4, QueueTypes DEF QueueTypeOK
  <2>3. /\ Running(t) /\ pc[t] \in {"run", "queue_receive"}
        /\ UNCHANGED cpuVars /\ UNCHANGED <<priority, switched>>
        /\ state' = [u \in Tasks |-> IF u \in W THEN "READY" ELSE state[u]]
        /\ pc' = [pc EXCEPT ![t] = AfterWake(W, "queue_free_woke", "queue_free")]
    BY <1>4, <2>1, <2>2 DEF os_queue_receive, AtHead, Calls, Wake, Return
  <2>4. pc[t] \notin OwesYield
    BY <2>3 DEF OwesYield
  <2>5. t \in Tasks
    BY <1>1
  <2>6. \/ pc'[t] \in OwesYield
        \/ \A u \in Tasks : state'[u] = "READY" => state[u] = "READY"
    BY <1>1, <1>2, <2>3, <2>5, WakeOwes
  <2> QED
    BY <2>3, <2>4, <2>5, <2>6, OwnStepRanks
<1>5. ASSUME NEW t \in Receivers, NEW q \in Queues, os_queue_receive(t, q),
             ~ (q_count[q] > 0)
      PROVE  NobodyOutranksRunner'
  <2>1. /\ Running(t) /\ pc[t] \in {"run", "queue_receive"}
        /\ UNCHANGED cpuVars /\ UNCHANGED <<priority, switched>>
        /\ state' = [state EXCEPT ![t] = "QUEUE_RECV_WAITING"]
    BY <1>5 DEF os_queue_receive, AtHead, Calls, Park
  <2>2. \A u \in Tasks : state'[u] = "READY" => state[u] = "READY"
    BY <1>1, <2>1 DEF TaskTypeOK
  <2>3. pc[t] \notin OwesYield /\ t \in Tasks
    BY <1>1, <2>1 DEF OwesYield
  <2> QED
    BY <2>1, <2>2, <2>3, OwnStepRanks
<1>6. ASSUME NEW t \in Senders, SendPark(t)
      PROVE  NobodyOutranksRunner'
  <2>1. /\ Running(t) /\ pc[t] = "queue_park"
        /\ UNCHANGED cpuVars /\ UNCHANGED <<priority, switched>>
        /\ state' = [state EXCEPT ![t] = "QUEUE_SEND_WAITING"]
    BY <1>6 DEF SendPark, At, Park
  <2>2. \A u \in Tasks : state'[u] = "READY" => state[u] = "READY"
    BY <1>1, <2>1 DEF TaskTypeOK
  <2>3. pc[t] \notin OwesYield /\ t \in Tasks
    BY <1>1, <2>1 DEF OwesYield
  <2> QED
    BY <2>1, <2>2, <2>3, OwnStepRanks
<1>7. ASSUME NEW t \in Senders,
             \/ \E q \in Queues : os_queue_send(t, q)
             \/ SendAlloc(t) \/ SendFails(t) \/ SendFull(t) \/ SendFree(t)
      PROVE  NobodyOutranksRunner'
  <2>1. /\ Running(t) /\ pc[t] \in {"run", "queue_send", "queue_link", "queue_full"}
        /\ UNCHANGED cpuVars /\ UNCHANGED <<priority, switched>> /\ UNCHANGED state
    BY <1>7 DEF os_queue_send, SendAlloc, SendFails, SendFull, SendFree, MfreeEnds,
       At, Calls, tcbVars
  <2>2. pc[t] \notin OwesYield /\ t \in Tasks
    BY <1>1, <2>1 DEF OwesYield
  <2> QED
    BY <2>1, <2>2, OwnStepRanks
<1>8. ASSUME NEW t \in Receivers, ReceiveFree(t)
      PROVE  NobodyOutranksRunner'
  <2>1. /\ Running(t) /\ pc[t] \in {"queue_free", "queue_free_woke"}
        /\ UNCHANGED cpuVars /\ UNCHANGED <<priority, switched>> /\ UNCHANGED state
        /\ pc' = [pc EXCEPT ![t] =
                    IF pc[t] = "queue_free_woke" THEN "wake_yield" ELSE "run"]
    BY <1>8 DEF ReceiveFree, MfreeEnds, At, tcbVars
  <2>2. t \in Tasks
    BY <1>1
  <2>3. CASE pc[t] = "queue_free"
    <3>1. pc[t] \notin OwesYield
      BY <2>3 DEF OwesYield
    <3> QED
      BY <2>1, <2>2, <3>1, OwnStepRanks
  <2>4. CASE pc[t] = "queue_free_woke"
    <3>1. pc'[t] = "wake_yield"
      BY <1>1, <2>1, <2>2, <2>4 DEF TaskTypeOK
    <3> QED
      BY <1>2, <2>1, <2>2, <3>1, OwnStepRanks
  <2> QED
    BY <2>1, <2>3, <2>4
<1>9. ASSUME NEW t \in Senders \cup Receivers, MfreeBegins(t)
      PROVE  NobodyOutranksRunner'
  <2>1. /\ Running(t) /\ UNCHANGED pc
        /\ UNCHANGED cpuVars /\ UNCHANGED <<priority, switched>> /\ UNCHANGED state
    BY <1>9 DEF MfreeBegins, tcbVars
  <2>2. t \in Tasks
    BY <1>1
  <2> QED
    BY <2>1, <2>2, OwnStepRanks
<1> QED
  BY <1>3, <1>4, <1>5, <1>6, <1>7, <1>8, <1>9 DEF QueueStep

(* A woken task is not kept waiting by a lower one: after a wakeup by a     *)
(* send or a receive, the task that did it goes on only to its own yield,   *)
(* past ticks, switches and the free in between; from the write of ICSR on  *)
(* nobody executes whom a READY task outranks.                              *)
THEOREM RunnerNeverOutranked ==
  ASSUME IdleRegistered
  PROVE  QueueSpec => []NobodyOutranksRunner
<1>1. QueueInit => NobodyOutranksRunner
  BY DEF QueueInit, NobodyOutranksRunner
<1>2. QInv /\ NobodyOutranksRunner /\ [QueueNext]_qVars => NobodyOutranksRunner'
  <2> SUFFICES ASSUME QInv, NobodyOutranksRunner, [QueueNext]_qVars
               PROVE  NobodyOutranksRunner'
    OBVIOUS
  <2>1. CASE UNCHANGED qVars
    BY <2>1 DEF qVars, taskVars, NobodyOutranksRunner, Running
  <2> QED
    BY <2>1, TaskStepRanks, QueueStepRanks DEF QueueNext
<1> QED
  BY <1>1, <1>2, QueueInvariant, PTL DEF QueueSpec
-----------------------------------------------------------------------------
(* A list of blocks is read as the sequence of the items in them.           *)
LEMMA ArrayIsSeq ==
  ASSUME NEW S, NEW n \in Nat, NEW c, c \in [1 .. n -> S]
  PROVE  c \in Seq(S) /\ Len(c) = n
  OBVIOUS

LEMMA LongerIsAppend ==
  ASSUME NEW S, NEW n \in Nat, NEW c \in [1 .. n -> S], NEW d \in S
  PROVE  Longer(c, n, d) = Append(c, d)
<1>1. c \in Seq(S) /\ Len(c) = n
  BY ArrayIsSeq
<1>2. /\ Append(c, d) \in Seq(S) /\ Len(Append(c, d)) = n + 1
      /\ \A i \in 1 .. n : Append(c, d)[i] = c[i]
      /\ Append(c, d)[n + 1] = d
  BY <1>1, AppendProperties
<1>3. PICK m \in Nat : m = n + 1
  OBVIOUS
<1>4. /\ Longer(c, n, d) \in [1 .. m -> S]
      /\ \A i \in 1 .. m : Longer(c, n, d)[i] = IF i <= n THEN c[i] ELSE d
  BY <1>3 DEF Longer
<1>5. Longer(c, n, d) \in Seq(S) /\ Len(Longer(c, n, d)) = m
  BY <1>4, ArrayIsSeq
<1>6. \A i \in 1 .. m : Longer(c, n, d)[i] = Append(c, d)[i]
  <2> SUFFICES ASSUME NEW i \in 1 .. m
               PROVE  Longer(c, n, d)[i] = Append(c, d)[i]
    OBVIOUS
  <2>1. CASE i <= n
    <3>1. i \in 1 .. n
      BY <2>1
    <3> QED
      BY <1>2, <1>4, <2>1, <3>1
  <2>2. CASE ~ (i <= n)
    <3>1. i = n + 1
      BY <1>3, <2>2
    <3> QED
      BY <1>2, <1>4, <2>2, <3>1
  <2> QED
    BY <2>1, <2>2
<1> QED
  BY <1>2, <1>3, <1>5, <1>6, SeqEqual

LEMMA ShorterIsTail ==
  ASSUME NEW S, NEW n \in Nat, NEW m \in Nat, m = n + 1, NEW c \in [1 .. m -> S]
  PROVE  /\ c # << >> /\ Head(c) = c[1]
         /\ Shorter(c, n) = Tail(c)
<1>1. c \in Seq(S) /\ Len(c) = m
  BY ArrayIsSeq
<1>2. c # << >>
  BY <1>1, EmptySeq
<1>3. /\ Tail(c) \in Seq(S) /\ Len(Tail(c)) = n
      /\ \A i \in 1 .. n : Tail(c)[i] = c[i + 1]
  <2>1. /\ Tail(c) \in Seq(S) /\ Len(Tail(c)) = m - 1
        /\ \A i \in 1 .. Len(Tail(c)) : Tail(c)[i] = c[i + 1]
    BY <1>1, <1>2, HeadTailProperties
  <2>2. m - 1 = n
    OBVIOUS
  <2> QED
    BY <2>1, <2>2
<1>4. /\ Shorter(c, n) \in [1 .. n -> S]
      /\ \A i \in 1 .. n : Shorter(c, n)[i] = c[i + 1]
  <2>1. \A i \in 1 .. n : i + 1 \in 1 .. m
    OBVIOUS
  <2> QED
    BY <2>1 DEF Shorter
<1>5. Shorter(c, n) \in Seq(S) /\ Len(Shorter(c, n)) = n
  BY <1>4, ArrayIsSeq
<1>6. Shorter(c, n) = Tail(c)
  BY <1>3, <1>4, <1>5, SeqEqual
<1>7. Head(c) = c[1]
  BY <1>1, <1>2
<1> QED
  BY <1>2, <1>6, <1>7

LEMMA ContentIsSeq ==
  ASSUME QInv, ~ heap_raced, NEW q \in Queues, NEW n \in Nat, n = q_count[q]
  PROVE  /\ Content(q) \in [1 .. n -> Items]
         /\ \A i \in 1 .. n : Content(q)[i] = data[NodeAt(q)[i]]
  BY DEF QInv, QueueInv, BlocksOwned, ListsEnd, Content

(* A linking appends the item, an unlinking takes the first away.           *)
LEMMA LinkAppends ==
  ASSUME QInv, ~ heap_raced, NEW t \in Tasks, NEW q \in Queues, Linking(t, q)
  PROVE  /\ Content(q)' = Append(Content(q), data[node[t]])
         /\ \A p \in Queues : p # q => Content(p)' = Content(p)
<1>1. PICK n \in Nat : n = q_count[q]
  BY NodeAtSolves DEF QInv, QueueInv
<1>2. PICK x : x = node[t]
  OBVIOUS
<1>3. data' = data /\ data[x] \in Items
  BY <1>2 DEF Linking
<1>4. /\ q_count'[q] = n + 1
      /\ NodeAt(q)' = Longer(NodeAt(q), n, x)
      /\ \A p \in Queues : p # q => NodeAt(p)' = NodeAt(p) /\ q_count'[p] = q_count[p]
  BY <1>1, <1>2, LinkLists DEF QInv
<1>5. PICK f : f = NodeAt(q)
  OBVIOUS
<1>6. PICK c \in [1 .. n -> Items] :
        c = Content(q) /\ \A i \in 1 .. n : c[i] = data[f[i]]
  BY <1>1, <1>5, ContentIsSeq
<1>7. Content(q)' = [i \in 1 .. n + 1 |-> data[Longer(f, n, x)[i]]]
  BY <1>3, <1>4, <1>5 DEF Content
<1>8. \A i \in 1 .. n + 1 :
        data[Longer(f, n, x)[i]] = IF i <= n THEN c[i] ELSE data[x]
  <2> SUFFICES ASSUME NEW i \in 1 .. n + 1
               PROVE  data[Longer(f, n, x)[i]] = IF i <= n THEN c[i] ELSE data[x]
    OBVIOUS
  <2>1. Longer(f, n, x)[i] = IF i <= n THEN f[i] ELSE x
    BY DEF Longer
  <2>2. i <= n => i \in 1 .. n
    OBVIOUS
  <2> QED
    BY <1>6, <2>1, <2>2
<1>9. Content(q)' = Longer(c, n, data[x])
  BY <1>7, <1>8 DEF Longer
<1>10. Content(q)' = Append(c, data[x])
  BY <1>3, <1>9, LongerIsAppend
<1>11. \A p \in Queues : p # q => Content(p)' = Content(p)
  BY <1>3, <1>4 DEF Content
<1> QED
  BY <1>2, <1>6, <1>10, <1>11

LEMMA UnlinkTakesHead ==
  ASSUME QInv, ~ heap_raced, NEW t \in Tasks, NEW q \in Queues, Unlinking(t, q)
  PROVE  /\ Content(q) # << >> /\ data[head[q]] = Head(Content(q))
         /\ Content(q)' = Tail(Content(q))
         /\ \A p \in Queues : p # q => Content(p)' = Content(p)
<1>1. PICK m \in Nat : m = q_count[q] /\ m # 0
  BY NodeAtSolves DEF QInv, QueueInv, Unlinking
<1>2. PICK n \in Nat : m = n + 1
  <2>1. m - 1 \in Nat /\ m = (m - 1) + 1
    BY <1>1
  <2> QED
    BY <2>1
<1>3. data' = data
  BY DEF Unlinking, nodeVars
<1>4. n + 1 = q_count[q]
  BY <1>1, <1>2
<1>5. /\ q_count'[q] = n
      /\ NodeAt(q)' = Shorter(NodeAt(q), n)
      /\ head[q] = NodeAt(q)[1]
      /\ \A p \in Queues : p # q => NodeAt(p)' = NodeAt(p) /\ q_count'[p] = q_count[p]
  BY <1>4, UnlinkLists DEF QInv
<1>6. PICK f : f = NodeAt(q)
  OBVIOUS
<1>7. PICK c \in [1 .. m -> Items] :
        c = Content(q) /\ \A i \in 1 .. m : c[i] = data[f[i]]
  BY <1>1, <1>6, ContentIsSeq
<1>8. Content(q)' = [i \in 1 .. n |-> data[Shorter(f, n)[i]]]
  BY <1>3, <1>5, <1>6 DEF Content
<1>9. \A i \in 1 .. n : data[Shorter(f, n)[i]] = c[i + 1]
  <2> SUFFICES ASSUME NEW i \in 1 .. n
               PROVE  data[Shorter(f, n)[i]] = c[i + 1]
    OBVIOUS
  <2>1. Shorter(f, n)[i] = f[i + 1] /\ i + 1 \in 1 .. m
    BY <1>2 DEF Shorter
  <2> QED
    BY <1>7, <2>1
<1>10. Content(q)' = Shorter(c, n)
  BY <1>8, <1>9 DEF Shorter
<1>11. c # << >> /\ Head(c) = c[1] /\ Shorter(c, n) = Tail(c)
  BY <1>2, ShorterIsTail
<1>12. c[1] = data[head[q]]
  <2>1. 1 \in 1 .. m
    BY <1>2
  <2> QED
    BY <1>5, <1>6, <1>7, <2>1
<1>13. \A p \in Queues : p # q => Content(p)' = Content(p)
  BY <1>3, <1>5 DEF Content
<1> QED
  BY <1>7, <1>10, <1>11, <1>12, <1>13

(* What the queues hold is the state of module BoundedFifo.                 *)
Contents == [q \in Queues |-> Content(q)]

LEMMA ContentsMap ==
  /\ Contents = [q \in Queues |-> [i \in 1 .. q_count[q] |-> data[NodeAt(q)[i]]]]
  /\ Contents' = [q \in Queues |-> [i \in 1 .. q_count[q] |-> data[NodeAt(q)[i]]]]'
<1>1. Contents = [q \in Queues |-> [i \in 1 .. q_count[q] |-> data[NodeAt(q)[i]]]]
  BY DEF Contents, Content
<1>2. (Contents = [q \in Queues |-> [i \in 1 .. q_count[q] |-> data[NodeAt(q)[i]]]])'
  BY <1>1, PTL
<1> QED
  BY <1>1, <1>2

LEMMA QuietStutters ==
  ASSUME Quiet
  PROVE  heap_raced' \/ UNCHANGED <<Contents, buffer>>
<1>1. CASE Silent
  BY <1>1 DEF Silent, SameContent, Contents
<1> QED
  BY <1>1 DEF Quiet

LEMMA FifoStart ==
  ASSUME QueueInit
  PROVE  Contents = [q \in Queues |-> << >>] /\ buffer = [t \in Tasks |-> NULL]
<1>1. ASSUME NEW q \in Queues
      PROVE  Content(q) = << >>
  <2>1. q_count[q] = 0
    BY DEF QueueInit, os_queue_init
  <2> QED
    BY <2>1 DEF Content
<1> QED
  BY <1>1 DEF Contents, QueueInit

LEMMA LinkIsSend ==
  ASSUME IdleRegistered, QInv, ~ heap_raced, NEW t \in Senders, SendLink(t),
         UNCHANGED switched
  PROVE  Fifo!Next
<1>1. t \in Tasks
  BY QueueTypes, TableFacts
<1>2. PICK q \in Queues :
        q = arg[t] /\ HasRoom(q) /\ Linking(t, q) /\ UNCHANGED buffer
  BY LinkKeeps
<1>3. PICK d \in Items : d = data[node[t]]
  BY <1>2 DEF Linking
<1>4. PICK n \in Nat : n = q_count[q]
  BY NodeAtSolves DEF QInv, QueueInv
<1>5. Contents[q] \in Seq(Items) /\ Len(Contents[q]) = n
  BY <1>4, ContentIsSeq, ArrayIsSeq DEF Contents
<1>6. MaxItems[q] = 0 \/ Len(Contents[q]) < MaxItems[q]
  BY <1>2, <1>4, <1>5 DEF HasRoom
<1>7. Contents' = [Contents EXCEPT ![q] = Append(@, d)]
  BY <1>1, <1>2, <1>3, LinkAppends DEF Contents
<1>8. Fifo!Send(q, d)
  BY <1>2, <1>6, <1>7, ContentsMap DEF Fifo!Send
<1> QED
  BY <1>8 DEF Fifo!Next

LEMMA TakeIsReceive ==
  ASSUME IdleRegistered, QInv, ~ heap_raced, NEW t \in Receivers, NEW q \in Queues,
         os_queue_receive(t, q), q_count[q] > 0, UNCHANGED switched
  PROVE  Fifo!Next
<1>1. t \in Tasks
  BY QueueTypes, TableFacts
<1>2. Unlinking(t, q) /\ buffer' = [buffer EXCEPT ![t] = data[head[q]]]
  BY ReceiveTakeKeeps
<1>3. /\ Contents[q] # << >>
      /\ Contents' = [Contents EXCEPT ![q] = Tail(@)]
      /\ buffer' = [buffer EXCEPT ![t] = Head(Contents[q])]
  BY <1>1, <1>2, UnlinkTakesHead DEF Contents
<1>4. Fifo!Receive(t, q)
  BY <1>3, ContentsMap DEF Fifo!Receive
<1> QED
  BY <1>1, <1>4 DEF Fifo!Next

LEMMA FifoStep ==
  ASSUME IdleRegistered, QInv, [QueueNext]_qVars
  PROVE  heap_raced' \/ Fifo!Next \/ UNCHANGED <<Contents, buffer>>
<1>1. CASE TaskNext /\ UNCHANGED queueVars /\ switched' = (switched \/ ScanEnds)
  <2>1. switched' \in BOOLEAN
    BY <1>1
  <2> QED
    BY <1>1, <2>1, TaskStepKeeps, QuietStutters
<1>2. ASSUME NEW t \in Senders, NEW q \in Queues, os_queue_send(t, q), UNCHANGED switched
      PROVE  Quiet
  BY <1>2, CallKeeps
<1>3. ASSUME NEW t \in Senders, UNCHANGED switched,
             SendAlloc(t) \/ SendFails(t) \/ SendFull(t) \/ SendFree(t) \/ SendPark(t)
      PROVE  Quiet
  BY <1>3, AllocKeeps, FailsKeeps, FullKeeps, SendFreeKeeps, ParkKeeps
<1>4. ASSUME NEW t \in Senders, SendLink(t), UNCHANGED switched
      PROVE  heap_raced' \/ Fifo!Next
  BY <1>4, LinkIsSend, LinkKeeps
<1>5. ASSUME NEW t \in Receivers, NEW q \in Queues, os_queue_receive(t, q),
             UNCHANGED switched
      PROVE  heap_raced' \/ Fifo!Next \/ Quiet
  BY <1>5, TakeIsReceive, ReceiveTakeKeeps, ReceiveParkKeeps
<1>6. ASSUME NEW t \in Receivers, ReceiveFree(t), UNCHANGED switched
      PROVE  Quiet
  BY <1>6, ReceiveFreeKeeps
<1>7. ASSUME NEW t \in Senders \cup Receivers, MfreeBegins(t), UNCHANGED switched
      PROVE  Quiet
  BY <1>7, MfreeBeginsKeeps
<1>8. CASE UNCHANGED qVars
  BY <1>8, QueueStutter, QuietStutters
<1> QED
  BY <1>1, <1>2, <1>3, <1>4, <1>5, <1>6, <1>7, <1>8, QuietStutters
  DEF QueueNext, QueueStep

(* Until two heap calls overlap, the lists of nodes are bounded FIFOs: a    *)
(* send takes effect when it links its node, a receive when it unlinks one, *)
(* and no other step of a task, no part of a heap call, no tick or switch   *)
(* shows in what the queues hold.                                           *)
THEOREM ListsAreFifos ==
  ASSUME IdleRegistered
  PROVE  QueueSpec => FifoUntilRace
<1>1. QueueInit => Fifo!Init
  <2> SUFFICES ASSUME QueueInit
               PROVE  Fifo!Init
    OBVIOUS
  <2>1. Contents = [q \in Queues |-> << >>] /\ buffer = [t \in Tasks |-> NULL]
    BY FifoStart
  <2> QED
    BY <2>1, ContentsMap DEF Fifo!Init
<1>2. QInv /\ [QueueNext]_qVars => [heap_raced' \/ Fifo!Next]_(Fifo!vars)
  <2> SUFFICES ASSUME QInv, [QueueNext]_qVars
               PROVE  [heap_raced' \/ Fifo!Next]_(Fifo!vars)
    OBVIOUS
  <2>1. CASE heap_raced' \/ Fifo!Next
    BY <2>1
  <2>2. CASE UNCHANGED <<Contents, buffer>>
    BY <2>2, ContentsMap DEF Fifo!vars
  <2> QED
    BY <2>1, <2>2, FifoStep
<1> QED
  BY <1>1, <1>2, QueueInvariant, PTL DEF QueueSpec, FifoUntilRace
=============================================================================
