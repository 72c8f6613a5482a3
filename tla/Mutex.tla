-------------------------------- MODULE Mutex --------------------------------
(***************************************************************************)
(* os_mutex_t: a recursive mutex with priority inheritance, on the control *)
(* blocks of module Task.  A waiter is not handed the mutex: os_mutex_give *)
(* makes the best waiter READY, and that task tries again when it is       *)
(* dispatched; any task that runs before it may take the mutex first.      *)
(* os_mutex_give does not pend PendSV.                                     *)
(***************************************************************************)
EXTENDS Task, FiniteSetsExt

CONSTANTS
  Mutexes,    \* the mutexes of the application, initialised by main()
  MaxDepth    \* bound on recursive_depth, a bound of the model only

ASSUME MutexAssumption ==
  /\ Mutexes \subseteq Resources
  /\ MaxDepth \in Nat \ {0}

VARIABLES
  mutex,      \* for each mutex, its os_mutex_t
  held        \* held[t][m]: takes of m that returned to t, less t's gives

mutexVars == <<mutex, held>>
mtxVars   == <<taskVars, mutex, held>>

NoOwner == -1

Unlocked == [is_locked |-> 0, task_num_owner |-> NoOwner, recursive_depth |-> 0]

LockedBy(t, d) ==
  [is_locked |-> 1, task_num_owner |-> t, recursive_depth |-> d]

os_mutex_init == mutex = [m \in Mutexes |-> Unlocked]

MutexInit ==
  /\ TaskInit
  /\ os_mutex_init
  /\ held = [t \in Tasks |-> [m \in Mutexes |-> 0]]

Owns(t, m) == mutex[m].task_num_owner = t
-----------------------------------------------------------------------------
(* First branch of the loop: the mutex is free. *)
TakeFree(t, m) ==
  /\ mutex[m].is_locked = 0
  /\ mutex' = [mutex EXCEPT ![m] = LockedBy(t, 1)]
  /\ held' = [held EXCEPT ![t][m] = @ + 1]
  /\ Return(t, "run")
  /\ UNCHANGED tcbVars

(* A second branch that forgets to compare the owner. *)
TakeAgain_anyone(t, m) ==
  /\ mutex[m].is_locked = 1
  /\ mutex[m].recursive_depth < MaxDepth
  /\ mutex' = [mutex EXCEPT ![m].recursive_depth = @ + 1]
  /\ held' = [held EXCEPT ![t][m] = @ + 1]
  /\ Return(t, "run")
  /\ UNCHANGED tcbVars

(* Second branch: the caller owns it already. *)
TakeAgain(t, m) ==
  /\ mutex[m].is_locked = 1 /\ Owns(t, m)
  /\ mutex[m].recursive_depth < MaxDepth
  /\ mutex' = [mutex EXCEPT ![m].recursive_depth = @ + 1]
  /\ held' = [held EXCEPT ![t][m] = @ + 1]
  /\ Return(t, "run")
  /\ UNCHANGED tcbVars

(* Third branch: the owner inherits the caller's priority, the caller parks. *)
boost_none(t, owner) == priority

boost(t, owner) ==
  [priority EXCEPT ![owner] = IF priority[t] > @ THEN priority[t] ELSE @]

TakePark(t, m) ==
  /\ mutex[m].is_locked # 0 /\ ~ Owns(t, m)
  /\ priority' = boost(t, mutex[m].task_num_owner)
  /\ Park(t, "MUTEX_WAITING", m, "mutex_yield")
  /\ UNCHANGED delay_ticks
  /\ UNCHANGED mutexVars

os_mutex_take(t, m) ==
  /\ AtHead(t, "mutex_take", m)
  /\ TakeFree(t, m) \/ TakeAgain(t, m) \/ TakePark(t, m)
  /\ UNCHANGED cpuVars
-----------------------------------------------------------------------------
(* The caller is not the owner: nothing happens. *)
GiveIgnored(t, m) ==
  /\ ~ Owns(t, m)
  /\ UNCHANGED <<tcbVars, pc, arg, mutexVars>>

(* The test of the depth before the decrement. *)
GiveInner_zero(t, m) ==
  /\ Owns(t, m) /\ mutex[m].recursive_depth > 0
  /\ mutex' = [mutex EXCEPT ![m].recursive_depth = @ - 1]
  /\ held' = [held EXCEPT ![t][m] = @ - 1]
  /\ UNCHANGED <<tcbVars, pc, arg>>

(* A give of a nested take: one level less, the mutex stays locked. *)
GiveInner(t, m) ==
  /\ Owns(t, m) /\ mutex[m].recursive_depth > 1
  /\ mutex' = [mutex EXCEPT ![m].recursive_depth = @ - 1]
  /\ held' = [held EXCEPT ![t][m] = @ - 1]
  /\ UNCHANGED <<tcbVars, pc, arg>>

(* The priorities t still inherits through the mutexes mx says it owns. *)
Inherited(t, mx) ==
  { priority[u] : u \in { w \in Tasks :
      /\ state[w] = "MUTEX_WAITING"
      /\ mx[waiting_for_resource[w]].task_num_owner = t } }

(* The boost kept until the task owns nothing. *)
new_priority_kept(t, mx) == priority[t]

(* The drop to the base priority, whoever still waits for another mutex. *)
new_priority_base(t, mx) == base_priority[t]

new_priority(t, mx) == Max(Inherited(t, mx) \cup {base_priority[t]})

(* The release that wakes nobody. *)
GiveOuter_silent(t, m) ==
  /\ Owns(t, m) /\ mutex[m].recursive_depth <= 1
  /\ mutex' = [mutex EXCEPT ![m] = Unlocked]
  /\ held' = [held EXCEPT ![t][m] = @ - 1]
  /\ priority' = [priority EXCEPT ![t] = new_priority(t, mutex')]
  /\ UNCHANGED <<state, waiting_for_resource, delay_ticks, pc, arg>>

(* The last give: release, recompute the priority, wake the best waiter. *)
GiveOuter(t, m) ==
  /\ Owns(t, m) /\ mutex[m].recursive_depth <= 1
  /\ mutex' = [mutex EXCEPT ![m] = Unlocked]
  /\ held' = [held EXCEPT ![t][m] = @ - 1]
  /\ priority' = [priority EXCEPT ![t] = new_priority(t, mutex')]
  /\ Wake(Woken("MUTEX_WAITING", m, priority'))
  /\ UNCHANGED <<delay_ticks, pc, arg>>

os_mutex_give(t, m) ==
  /\ Calls(t)
  /\ GiveIgnored(t, m) \/ GiveInner(t, m) \/ GiveOuter(t, m)
  /\ UNCHANGED cpuVars
-----------------------------------------------------------------------------
MutexStep ==
  \E t \in AppTasks, m \in Mutexes : os_mutex_take(t, m) \/ os_mutex_give(t, m)

MutexNext ==
  \/ TaskNext /\ UNCHANGED mutexVars
  \/ MutexStep

MutexSpec == MutexInit /\ [][MutexNext]_mtxVars

(***************************************************************************)
(* For the fairness of the applications: no switch is pending or under     *)
(* way.  A tick comes every 180000 cycles and a context switch takes some  *)
(* hundreds, so the handlers leave CPU time to the tasks.                  *)
(***************************************************************************)
TasksRun == scan_i = NotScanning /\ ~pendsv
-----------------------------------------------------------------------------
LockedMutexes ==
  [is_locked : {1}, task_num_owner : AppTasks, recursive_depth : 1 .. MaxDepth]

(* Types; a mutex is locked exactly when it has an owner and a depth. *)
MutexTypeOK ==
  /\ TaskTypeOK
  /\ mutex \in [Mutexes -> {Unlocked} \cup LockedMutexes]
  /\ held \in [Tasks -> [Mutexes -> Nat]]

(***************************************************************************)
(* What the clients see is a recursive lock: a take returns only while no  *)
(* other task is between a take and its give, over all interleavings of    *)
(* waiters that were woken and tasks that came first.                      *)
(***************************************************************************)
Lock == INSTANCE RecursiveLock
          WITH Clients <- Tasks, Locks <- Mutexes, depth <- held

ImplementsLock == Lock!Spec

(***************************************************************************)
(* A priority is raised only as long as somebody waits for it: a task      *)
(* above its base priority owns a mutex some task of at least that         *)
(* priority is parked on.                                                  *)
(***************************************************************************)
Blocks(t, w) ==
  /\ state[w] = "MUTEX_WAITING"
  /\ Owns(t, waiting_for_resource[w])

NoStaleBoost ==
  \A t \in Tasks : priority[t] # base_priority[t] =>
    /\ priority[t] > base_priority[t]
    /\ \E w \in Tasks : Blocks(t, w) /\ priority[w] >= priority[t]

(***************************************************************************)
(* No wakeup is lost: a free mutex with parked waiters has a woken task    *)
(* that will try it again (os_mutex_give wakes one waiter only, and a task *)
(* that took the mutex first gives it back in its turn).                   *)
(***************************************************************************)
MutexRetriers(m) == Retriers("mutex_take", "mutex_yield", m)

NoLostMutexWakeup ==
  \A m \in Mutexes :
    mutex[m].is_locked = 0 /\ Waiters("MUTEX_WAITING", m) # {} =>
      MutexRetriers(m) # {}

(***************************************************************************)
(* Priority inheritance survives barging: the owner of a mutex runs at     *)
(* least at the base priority of every waiter, or a woken task of at least *)
(* that priority is about to try the mutex and to pass the boost on.       *)
(***************************************************************************)
InheritsOrPending ==
  \A t, w \in Tasks : Blocks(t, w) =>
    \/ priority[t] >= base_priority[w]
    \/ \E r \in MutexRetriers(waiting_for_resource[w]) :
         priority[r] >= base_priority[w]

(***************************************************************************)
(* No unbounded priority inversion: a task of the highest base priority    *)
(* that waits for a mutex is woken, however long tasks of middle priority  *)
(* compute, if critical sections end.                                      *)
(***************************************************************************)
NoUnboundedInversion ==
  \A t \in Tasks :
    (\A u \in Tasks : base_priority[u] <= base_priority[t]) =>
      (state[t] = "MUTEX_WAITING" ~> state[t] = "READY")
-----------------------------------------------------------------------------
(***************************************************************************)
(* The inductive invariant behind the safety properties above.  A waiter   *)
(* is inside os_mutex_take, and somebody drives it: the owner of its mutex *)
(* at its priority, or a woken task about to try the mutex.                *)
(***************************************************************************)
HeldByOwner ==
  \A t \in Tasks, m \in Mutexes :
    held[t][m] = IF Owns(t, m) THEN mutex[m].recursive_depth ELSE 0

WaitersInside ==
  \A w \in Tasks : state[w] = "MUTEX_WAITING" =>
    /\ w \in AppTasks
    /\ pc[w] \in {"mutex_take", "mutex_yield"}
    /\ waiting_for_resource[w] \in Mutexes
    /\ arg[w] = waiting_for_resource[w]

Driven(w, m) ==
  \/ \E t \in Tasks : Owns(t, m) /\ priority[t] >= base_priority[w]
  \/ \E r \in MutexRetriers(m) : priority[r] >= base_priority[w]

WaitersDriven ==
  \A w \in Tasks :
    state[w] = "MUTEX_WAITING" => Driven(w, waiting_for_resource[w])

MutexInv ==
  /\ MutexTypeOK
  /\ SchedInv
  /\ HeldByOwner
  /\ WaitersInside
  /\ NoStaleBoost
  /\ WaitersDriven
=============================================================================
