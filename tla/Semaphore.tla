------------------------------ MODULE Semaphore ------------------------------
(***************************************************************************)
(* os_sem_t: a counting semaphore on the control blocks of module Task.    *)
(* As with a mutex a waiter is not handed the permit: os_sem_give adds it  *)
(* to the count and makes the best waiter READY, which tries again.        *)
(*                                                                         *)
(* A semaphore has no owner, so a timer callback may give it too, inside   *)
(* SysTick_Handler; the model lets one callback give on one tick.          *)
(***************************************************************************)
EXTENDS Task

CONSTANTS
  Semaphores,      \* the semaphores of the application
  InitialCount,    \* the arguments of os_sem_init() for each of them
  MaxCount,
  TaskGives,       \* those that tasks give
  CallbackGives    \* those that a timer callback gives

ASSUME SemAssumption ==
  /\ Semaphores \subseteq Resources
  /\ MaxCount \in [Semaphores -> Nat \ {0}]
  /\ InitialCount \in [Semaphores -> Nat]
  /\ \A s \in Semaphores : InitialCount[s] <= MaxCount[s]
  /\ TaskGives \subseteq Semaphores
  /\ CallbackGives \subseteq Semaphores

VARIABLE sem_count     \* os_sem_t.count of each semaphore

semVars == <<taskVars, sem_count>>

os_sem_init == sem_count = InitialCount

SemInit == TaskInit /\ os_sem_init
-----------------------------------------------------------------------------
os_sem_take(t, s) ==
  /\ AtHead(t, "sem_take", s)
  /\ \/ /\ sem_count[s] > 0
        /\ sem_count' = [sem_count EXCEPT ![s] = @ - 1]
        /\ Return(t, "run")
        /\ UNCHANGED <<state, waiting_for_resource>>
     \/ /\ sem_count[s] <= 0
        /\ Park(t, "SEM_WAITING", s, "sem_yield")
        /\ UNCHANGED sem_count
  /\ UNCHANGED <<delay_ticks, priority>>
  /\ UNCHANGED cpuVars

(* The permit that a full semaphore drops; the bug keeps it. *)
Added_unbounded(s) == [sem_count EXCEPT ![s] = @ + 1]

Added(s) == [sem_count EXCEPT ![s] = IF @ < MaxCount[s] THEN @ + 1 ELSE @]

(* A give that wakes only when the semaphore was empty. *)
WokenBy_onlyempty(s) ==
  IF sem_count[s] = 0 THEN Woken("SEM_WAITING", s, priority) ELSE {}

(* The best waiter is woken whether or not the count moved. *)
WokenBy(s) == Woken("SEM_WAITING", s, priority)

os_sem_give(t, s) ==
  /\ Calls(t)
  /\ s \in TaskGives
  /\ sem_count' = Added(s)
  /\ Wake(WokenBy(s))
  /\ UNCHANGED <<delay_ticks, priority, pc, arg>>
  /\ UNCHANGED cpuVars

(* A tick on which a timer expires whose callback gives s. *)
SysTickGives(s) ==
  /\ s \in CallbackGives
  /\ sem_count' = Added(s)
  /\ Tick(WokenBy(s))
-----------------------------------------------------------------------------
SemNext ==
  \/ TaskNext /\ UNCHANGED sem_count
  \/ \E s \in Semaphores : SysTickGives(s)
  \/ \E t \in AppTasks, s \in Semaphores : os_sem_take(t, s) \/ os_sem_give(t, s)

SemSpec == SemInit /\ [][SemNext]_semVars

(***************************************************************************)
(* A periodic timer gives each semaphore of CallbackGives again and again, *)
(* the handlers leave CPU time to the tasks, and a task dispatched again   *)
(* and again executes its next step inside the kernel.                     *)
(***************************************************************************)
SemFairness ==
  /\ \A s \in CallbackGives : WF_semVars(SysTickGives(s))
  /\ WF_semVars(SwitchStep /\ UNCHANGED sem_count)
  /\ []<>(scan_i = NotScanning /\ ~pendsv)
  /\ \A t \in AppTasks :
       SF_semVars(\/ Yield(t) /\ UNCHANGED sem_count
                  \/ \E s \in Semaphores :
                       pc[t] = "sem_take" /\ os_sem_take(t, s))

SemFairSpec == SemSpec /\ SemFairness
-----------------------------------------------------------------------------
(* Types; the count stays between zero and the maximum. *)
SemTypeOK ==
  /\ TaskTypeOK
  /\ sem_count \in [Semaphores -> Nat]
  /\ \A s \in Semaphores : sem_count[s] <= MaxCount[s]

(***************************************************************************)
(* No permit is stranded: while tasks are parked on a semaphore, every     *)
(* permit it counts is matched by a woken task that will try to take it,   *)
(* whether gives come faster than takes, come from a callback or find the  *)
(* semaphore full.                                                         *)
(***************************************************************************)
NoStrandedPermit ==
  \A s \in Semaphores : Waiters("SEM_WAITING", s) # {} =>
    sem_count[s] <= Cardinality(Retriers("sem_take", "sem_yield", s))

(***************************************************************************)
(* A waiter of the highest priority is served: if a callback keeps giving, *)
(* a task no other equals gets a permit, whatever the others take.         *)
(***************************************************************************)
TopWaiterServed ==
  \A t \in AppTasks :
    (\A u \in Tasks \ {t} : base_priority[u] < base_priority[t]) =>
      \A s \in CallbackGives :
        (state[t] = "SEM_WAITING" /\ waiting_for_resource[t] = s) ~> pc[t] = "run"
-----------------------------------------------------------------------------
(* The inductive invariant behind them: a task parked on a semaphore will   *)
(* try that semaphore again once it is woken.                               *)
SemWaitersInside ==
  \A t \in Tasks : state[t] = "SEM_WAITING" =>
    pc[t] \in {"sem_take", "sem_yield"} /\ arg[t] = waiting_for_resource[t]

SemInv ==
  /\ SemTypeOK
  /\ SchedInv
  /\ SemWaitersInside
  /\ NoStrandedPermit
=============================================================================
