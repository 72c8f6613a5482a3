-------------------------------- MODULE Task --------------------------------
(***************************************************************************)
(* The scheduling core of AstraRTOS: the table of task control blocks      *)
(* (os_tasks), the two exceptions that drive it (SysTick_Handler and       *)
(* PendSV_Handler with os_schedule_next_task), and os_delay.               *)
(*                                                                         *)
(* There is one CPU.  A step of the model is a stretch of code that no     *)
(* interrupt can split:                                                    *)
(*   - a critical section of a task (cpsid i ... cpsie i);                 *)
(*   - the write of ICSR that follows it, a step of its own because        *)
(*     SysTick may fire between the two;                                   *)
(*   - a whole run of SysTick_Handler (priority 0, nothing preempts it);   *)
(*   - one iteration of the loop of os_schedule_next_task: PendSV has the  *)
(*     lowest priority (SHPR3 = 255) and leaves interrupts enabled, so     *)
(*     SysTick preempts the scan between any two iterations.               *)
(*                                                                         *)
(* The synchronisation modules (Mutex, Semaphore, Queue) extend this one   *)
(* and add operations on the same control blocks.                          *)
(***************************************************************************)
EXTENDS Integers, FiniteSets

CONSTANTS
  OS_MAX_TASKS_NUM,  \* number of slots of os_tasks (20 in the source)
  UserTasks,         \* number of tasks main() creates before os_start()
  UserPriority,      \* the priority each of them is created with
  Delays,            \* the arguments os_delay() is called with
  Resources,         \* the mutexes, semaphores and queues of the application
  NULL,              \* the null pointer
  HeapGarbage        \* what os_task_create leaves in waiting_for_resource

(***************************************************************************)
(* os_task_create() refuses a task when the table is full, and os_start()  *)
(* ignores the refusal: with OS_MAX_TASKS_NUM user tasks there is no idle  *)
(* task.                                                                   *)
(***************************************************************************)
ASSUME TaskAssumption ==
  /\ OS_MAX_TASKS_NUM \in Nat \ {0}
  /\ UserTasks \in 1 .. OS_MAX_TASKS_NUM
  /\ UserPriority \in [0 .. UserTasks - 1 -> Nat]
  /\ Delays \subseteq Nat
  /\ NULL \notin Resources
  /\ HeapGarbage \in Resources \cup {NULL}

IdleRegistered == UserTasks < OS_MAX_TASKS_NUM

os_task_count == IF IdleRegistered THEN UserTasks + 1 ELSE UserTasks

Tasks     == 0 .. os_task_count - 1
AppTasks  == 0 .. UserTasks - 1

base_priority ==
  [t \in Tasks |-> IF t \in AppTasks THEN UserPriority[t] ELSE 0]

os_task_state ==
  { "READY", "BLOCKED", "MUTEX_WAITING", "SEM_WAITING",
    "QUEUE_SEND_WAITING", "QUEUE_RECV_WAITING" }

(***************************************************************************)
(* Where a task is inside the kernel.  "run" is application code.  Every   *)
(* blocking call ends its critical section at a *_yield label, from which  *)
(* the write of ICSR leads to the head of the caller's while(1) loop, or   *)
(* back to the application for calls that do not loop.                     *)
(***************************************************************************)
YieldTo ==
  [ delay_yield |-> "run",
    wake_yield  |-> "run",
    mutex_yield |-> "mutex_take",
    sem_yield   |-> "sem_take",
    send_yield  |-> "queue_send",
    recv_yield  |-> "queue_receive" ]

AtYield == { "delay_yield", "wake_yield", "mutex_yield", "sem_yield",
             "send_yield", "recv_yield" }

AtLoop  == { "mutex_take", "sem_take", "queue_send", "queue_receive" }

Inside  == { "queue_link", "queue_full", "queue_park", "queue_free",
             "queue_free_woke" }

VARIABLES
  state,                 \* os_tcb_t.state, for each task
  delay_ticks,           \* os_tcb_t.delay_ticks
  waiting_for_resource,  \* os_tcb_t.waiting_for_resource
  priority,              \* os_tcb_t.priority, the effective priority
  os_current_task_ptr,   \* the task whose context the CPU holds
  pendsv,                \* bit 28 of ICSR: PendSV is pending
  scan_i,                \* i of os_schedule_next_task, or NotScanning
  chosen_index,          \* its chosen_index, -1 for none
  pc,                    \* for each task, its place in the kernel
  arg                    \* the argument of the call it is inside, or NULL

tcbVars  == <<state, delay_ticks, waiting_for_resource, priority>>
cpuVars  == <<os_current_task_ptr, pendsv, scan_i, chosen_index>>
taskVars == <<state, delay_ticks, waiting_for_resource, priority,
              os_current_task_ptr, pendsv, scan_i, chosen_index, pc, arg>>

NotScanning == -1
None        == -1

(***************************************************************************)
(* After os_start(): every created task is READY and SVC_Handler has       *)
(* launched the first one created, whatever its priority.                  *)
(***************************************************************************)
TaskInit ==
  /\ state = [t \in Tasks |-> "READY"]
  /\ delay_ticks = [t \in Tasks |-> 0]
  /\ waiting_for_resource = [t \in Tasks |-> HeapGarbage]
  /\ priority = base_priority
  /\ os_current_task_ptr = 0
  /\ pendsv = FALSE
  /\ scan_i = NotScanning
  /\ chosen_index = None
  /\ pc = [t \in Tasks |-> "run"]
  /\ arg = [t \in Tasks |-> NULL]

(***************************************************************************)
(* Task t executes: it owns the CPU and no exception handler is active or  *)
(* about to be taken.                                                      *)
(***************************************************************************)
Running(t) ==
  /\ os_current_task_ptr = t
  /\ ~pendsv
  /\ scan_i = NotScanning

(* Task t executes application code and calls the kernel. *)
Calls(t) == t \in AppTasks /\ Running(t) /\ pc[t] = "run"

(***************************************************************************)
(* The scan that os_mutex_give, os_sem_give and queue_wake_one share: of   *)
(* the tasks in a waiting state on a resource, the one of highest          *)
(* priority, the lowest index among equals.                                *)
(***************************************************************************)
Waiters(waiting_state, r) ==
  { t \in Tasks : state[t] = waiting_state /\ waiting_for_resource[t] = r }

Best_low(ws, prio) ==
  CHOOSE t \in ws : \A u \in ws :
    prio[t] < prio[u] \/ (prio[u] = prio[t] /\ t <= u)

Best(ws, prio) ==
  CHOOSE t \in ws : \A u \in ws :
    prio[u] < prio[t] \/ (prio[u] = prio[t] /\ t <= u)

Woken(waiting_state, r, prio) ==
  LET ws == Waiters(waiting_state, r)
  IN  IF ws = {} THEN {} ELSE { Best(ws, prio) }

Wake(woken) ==
  /\ state' = [t \in Tasks |-> IF t \in woken THEN "READY" ELSE state[t]]
  /\ waiting_for_resource' =
       [t \in Tasks |-> IF t \in woken THEN NULL ELSE waiting_for_resource[t]]

(* The critical section with which a task parks itself on a resource. *)
Park(t, waiting_state, r, yield) ==
  /\ state' = [state EXCEPT ![t] = waiting_state]
  /\ waiting_for_resource' = [waiting_for_resource EXCEPT ![t] = r]
  /\ pc' = [pc EXCEPT ![t] = yield]
  /\ arg' = [arg EXCEPT ![t] = r]

(* Task t is at the head of the while(1) loop of a call on r: it just made *)
(* the call, or it was woken and tries again.                              *)
AtHead(t, loop, r) ==
  \/ Calls(t)
  \/ Running(t) /\ pc[t] = loop /\ arg[t] = r

Return(t, label) ==
  /\ pc' = [pc EXCEPT ![t] = label]
  /\ arg' = [arg EXCEPT ![t] = NULL]

(* The woken tasks that have yet to try again. *)
Retriers(loop, yield, r) ==
  { t \in Tasks : /\ state[t] = "READY"
                  /\ pc[t] \in {loop, yield}
                  /\ arg[t] = r }
-----------------------------------------------------------------------------
os_delay(t, ticks) ==
  /\ Calls(t)
  /\ delay_ticks' = [delay_ticks EXCEPT ![t] = ticks]
  /\ state' = [state EXCEPT ![t] = "BLOCKED"]
  /\ pc' = [pc EXCEPT ![t] = "delay_yield"]
  /\ UNCHANGED <<waiting_for_resource, priority, arg>>
  /\ UNCHANGED cpuVars

(***************************************************************************)
(* ICSR |= 1 << 28 after a critical section.  PendSV is taken before the   *)
(* task executes anything else.                                            *)
(***************************************************************************)
Yield(t) ==
  /\ Running(t)
  /\ pc[t] \in AtYield
  /\ pendsv' = TRUE
  /\ pc' = [pc EXCEPT ![t] = YieldTo[pc[t]]]
  /\ UNCHANGED <<os_current_task_ptr, scan_i, chosen_index, arg>>
  /\ UNCHANGED tcbVars

(***************************************************************************)
(* The tick's walk over the task table: sleeping tasks lose a tick, those  *)
(* that have none left wake up.                                            *)
(***************************************************************************)
Sleeping_late(t) == state[t] = "BLOCKED" /\ delay_ticks[t] > 1

Sleeping(t) == state[t] = "BLOCKED" /\ delay_ticks[t] > 0

Expiring(t) == Sleeping(t) /\ delay_ticks[t] = 1

os_decrement_blocked_tasks(woken) ==
  /\ delay_ticks' = [t \in Tasks |->
       IF Sleeping(t) THEN delay_ticks[t] - 1 ELSE delay_ticks[t]]
  /\ state' = [t \in Tasks |->
       IF Expiring(t) \/ t \in woken THEN "READY" ELSE state[t]]
  /\ waiting_for_resource' = [t \in Tasks |->
       IF t \in woken THEN NULL ELSE waiting_for_resource[t]]

(***************************************************************************)
(* A millisecond tick.  os_timer_tick() runs between the walk and the      *)
(* write of ICSR; woken are the tasks its callbacks wake.                  *)
(***************************************************************************)
Tick(woken) ==
  /\ os_decrement_blocked_tasks(woken)
  /\ pendsv' = TRUE
  /\ UNCHANGED <<priority, pc, arg>>
  /\ UNCHANGED <<os_current_task_ptr, scan_i, chosen_index>>

(* A tick on which no timer of the application expires. *)
SysTick_Handler == Tick({})

(* Exception entry clears the pending bit and the scan begins. *)
PendSV_Handler ==
  /\ pendsv
  /\ scan_i = NotScanning
  /\ pendsv' = FALSE
  /\ scan_i' = 0
  /\ chosen_index' = None
  /\ UNCHANGED <<os_current_task_ptr, pc, arg>>
  /\ UNCHANGED tcbVars

(* next_task of iteration i: round robin from the task after the current. *)
next_task_fixed(i) == i % os_task_count

next_task(i) == (os_current_task_ptr + 1 + i) % os_task_count

Preferred_any(t) ==
  chosen_index = None \/ priority[t] > priority[chosen_index]

Preferred_low(t) ==
  state[t] = "READY" /\ (chosen_index = None
                          \/ priority[t] < priority[chosen_index])

Preferred(t) ==
  state[t] = "READY" /\ (chosen_index = None
                          \/ priority[t] > priority[chosen_index])

(* A loop bound of <= for <. *)
ScanOne_overrun ==
  /\ scan_i \in 0 .. os_task_count
  /\ scan_i' = scan_i + 1
  /\ chosen_index' = IF Preferred(next_task(scan_i))
                     THEN next_task(scan_i) ELSE chosen_index
  /\ UNCHANGED <<os_current_task_ptr, pendsv, pc, arg>>
  /\ UNCHANGED tcbVars

(* One iteration of the loop of os_schedule_next_task. *)
ScanOne ==
  /\ scan_i \in 0 .. os_task_count - 1
  /\ scan_i' = scan_i + 1
  /\ chosen_index' = IF Preferred(next_task(scan_i))
                     THEN next_task(scan_i) ELSE chosen_index
  /\ UNCHANGED <<os_current_task_ptr, pendsv, pc, arg>>
  /\ UNCHANGED tcbVars

(* The end of os_schedule_next_task and the return of PendSV_Handler. *)
Dispatch ==
  /\ scan_i = os_task_count
  /\ os_current_task_ptr' = IF chosen_index = None
                            THEN os_current_task_ptr ELSE chosen_index
  /\ scan_i' = NotScanning
  /\ chosen_index' = None
  /\ UNCHANGED <<pendsv, pc, arg>>
  /\ UNCHANGED tcbVars

(* What the kernel does in every composition, the tick apart. *)
SwitchStep == PendSV_Handler \/ ScanOne \/ Dispatch

TaskNext ==
  \/ SysTick_Handler
  \/ SwitchStep
  \/ \E t \in Tasks : Yield(t)
  \/ \E t \in Tasks, ticks \in Delays : os_delay(t, ticks)

(***************************************************************************)
(* The timer never stops, and an exception that is pending or active makes *)
(* progress: nothing of equal or higher priority runs for ever.            *)
(***************************************************************************)
TaskFairness ==
  /\ WF_taskVars(SysTick_Handler)
  /\ WF_taskVars(SwitchStep)

TaskSpec == TaskInit /\ [][TaskNext]_taskVars /\ TaskFairness
-----------------------------------------------------------------------------
(* Types of the control blocks and of the CPU's own state. *)
TaskTypeOK ==
  /\ state \in [Tasks -> os_task_state]
  /\ delay_ticks \in [Tasks -> Nat]
  /\ waiting_for_resource \in [Tasks -> Resources \cup {NULL}]
  /\ priority \in [Tasks -> Nat]
  /\ os_current_task_ptr \in Tasks
  /\ pendsv \in BOOLEAN
  /\ scan_i \in {NotScanning} \cup (0 .. os_task_count)
  /\ chosen_index \in {None} \cup Tasks
  /\ pc \in [Tasks -> {"run"} \cup AtYield \cup AtLoop \cup Inside]
  /\ arg \in [Tasks -> Resources \cup {NULL}]

(***************************************************************************)
(* No call returns early: a task that executes anything but the yield that *)
(* ends a blocking critical section is READY, so os_delay, os_mutex_take,  *)
(* os_sem_take and the queue calls do not continue before they are woken.  *)
(***************************************************************************)
RunnerIsReady ==
  \A t \in Tasks : Running(t) /\ pc[t] \notin AtYield => state[t] = "READY"

(***************************************************************************)
(* A context switch that no tick overtook hands the CPU to a READY task of *)
(* the highest priority.  When a tick fires during the scan the choice may *)
(* be stale, and then PendSV is pending again.                             *)
(***************************************************************************)
DispatchesHighest ==
  [][ scan_i = os_task_count /\ scan_i' = NotScanning /\ ~pendsv =>
        /\ state[os_current_task_ptr'] = "READY"
        /\ \A u \in Tasks : state[u] = "READY" =>
             priority[u] <= priority[os_current_task_ptr'] ]_taskVars

(***************************************************************************)
(* Round robin: a READY task of the highest base priority gets the CPU,    *)
(* whatever its equals do.                                                 *)
(***************************************************************************)
RoundRobin ==
  \A t \in Tasks :
    (\A u \in Tasks : base_priority[u] <= base_priority[t]) =>
      (state[t] = "READY" ~> os_current_task_ptr = t)

(* Every sleep ends: a task that called os_delay is READY again. *)
DelayExpires ==
  \A t \in Tasks : state[t] = "BLOCKED" ~> state[t] = "READY"
-----------------------------------------------------------------------------
(***************************************************************************)
(* The inductive invariant behind RunnerIsReady and DispatchesHighest: the *)
(* idle task is always READY; what the scan has chosen is READY, stays so, *)
(* and is the best of the tasks visited unless a tick came in between; and *)
(* the scan cannot pass the idle task without choosing somebody.           *)
(***************************************************************************)
idle == UserTasks

Visited == { next_task(i) : i \in 0 .. scan_i - 1 }

IdleReady == state[idle] = "READY"

ChosenReady ==
  scan_i # NotScanning /\ chosen_index # None => state[chosen_index] = "READY"

IdleSeen == scan_i # NotScanning /\ idle \in Visited => chosen_index # None

BestSoFar ==
  scan_i # NotScanning /\ ~pendsv =>
    \A u \in Visited : state[u] = "READY" =>
      chosen_index # None /\ priority[u] <= priority[chosen_index]

SchedInv ==
  /\ TaskTypeOK
  /\ IdleReady
  /\ ChosenReady
  /\ IdleSeen
  /\ BestSoFar
  /\ RunnerIsReady
=============================================================================
