----------------------------- MODULE MutexProofs -----------------------------
(* Theorems about module Mutex, for every number of tasks and mutexes and   *)
(* every assignment of priorities, in a system that has its idle task.      *)
EXTENDS Mutex, TaskProofs

(* The two shapes of an os_mutex_t. *)
LEMMA MutexShape ==
  ASSUME MutexTypeOK, NEW m \in Mutexes
  PROVE  /\ mutex[m].is_locked = 0 =>
              /\ mutex[m] = Unlocked
              /\ mutex[m].task_num_owner = NoOwner
         /\ mutex[m].is_locked # 0 =>
              /\ mutex[m].is_locked = 1
              /\ mutex[m].task_num_owner \in AppTasks
              /\ mutex[m].recursive_depth \in 1 .. MaxDepth
  BY DEF MutexTypeOK, Unlocked, LockedMutexes

(* The priority a release leaves: the base priority or that of a waiter on  *)
(* a mutex still owned, and no less than any of them.                       *)
Heirs(t, mx) == { w \in Tasks :
  /\ state[w] = "MUTEX_WAITING"
  /\ mx[waiting_for_resource[w]].task_num_owner = t }

LEMMA NewPriority ==
  ASSUME TaskTypeOK, NEW t \in Tasks, NEW mx
  PROVE  /\ new_priority(t, mx) \in Nat
         /\ new_priority(t, mx) >= base_priority[t]
         /\ \A w \in Heirs(t, mx) : new_priority(t, mx) >= priority[w]
         /\ new_priority(t, mx) # base_priority[t] =>
              \E w \in Heirs(t, mx) : new_priority(t, mx) = priority[w]
<1> DEFINE S == Inherited(t, mx) \cup {base_priority[t]}
<1>1. /\ base_priority[t] \in Nat
      /\ \A w \in Heirs(t, mx) : priority[w] \in Nat
      /\ S = { priority[w] : w \in Heirs(t, mx) } \cup {base_priority[t]}
  BY TableFacts DEF TaskTypeOK, Inherited, Heirs
<1>2. \E x \in S : \A y \in S : x >= y
  <2>1. CASE Heirs(t, mx) = {}
    <3>1. S = {base_priority[t]}
      BY <1>1, <2>1
    <3> QED
      BY <1>1, <3>1
  <2>2. CASE Heirs(t, mx) # {}
    <3>1. PICK w \in Heirs(t, mx) : \A u \in Heirs(t, mx) : priority[u] <= priority[w]
      <4>1. Heirs(t, mx) \in SUBSET Tasks /\ priority \in [Tasks -> Nat]
        BY DEF Heirs, TaskTypeOK
      <4> QED
        BY <2>2, <4>1, BestIsBest
    <3>2. /\ priority[w] \in S /\ base_priority[t] \in S
          /\ priority[w] \in Nat /\ base_priority[t] \in Nat
          /\ \A y \in S : y = base_priority[t]
                          \/ \E u \in Heirs(t, mx) : y = priority[u]
      BY <1>1
    <3>3. CASE priority[w] >= base_priority[t]
      <4>1. \A y \in S : priority[w] >= y
        BY <3>1, <3>2, <3>3
      <4> QED
        BY <3>2, <4>1
    <3>4. CASE priority[w] < base_priority[t]
      <4>1. \A u \in Heirs(t, mx) : base_priority[t] >= priority[u]
        BY <1>1, <3>1, <3>2, <3>4
      <4>2. \A y \in S : base_priority[t] >= y
        BY <3>2, <4>1
      <4> QED
        BY <3>2, <4>2
    <3> QED
      BY <3>2, <3>3, <3>4
  <2> QED
    BY <2>1, <2>2
<1>3. /\ new_priority(t, mx) \in S
      /\ \A y \in S : new_priority(t, mx) >= y
  BY <1>2 DEF new_priority, Max
<1> QED
  BY <1>1, <1>3
-----------------------------------------------------------------------------
(* A task that makes a call, or tries again, is READY. *)
LEMMA CallerReady ==
  ASSUME SchedInv, NEW t \in AppTasks, NEW m,
         AtHead(t, "mutex_take", m)
  PROVE  /\ t \in Tasks
         /\ Running(t)
         /\ state[t] = "READY"
         /\ pc[t] = "run" \/ (pc[t] = "mutex_take" /\ arg[t] = m)
<1>1. t \in Tasks
  BY TableFacts
<1>2. Running(t) /\ (pc[t] = "run" \/ (pc[t] = "mutex_take" /\ arg[t] = m))
  BY DEF AtHead, Calls
<1>3. pc[t] \notin AtYield
  BY <1>2 DEF AtYield
<1> QED
  BY <1>1, <1>2, <1>3 DEF SchedInv, RunnerIsReady

(* Whom a release wakes: a waiter of the mutex of the highest priority. *)
LEMMA WokenFacts ==
  ASSUME TaskTypeOK, NEW r, NEW w_state, NEW prio \in [Tasks -> Nat]
  PROVE  /\ Woken(w_state, r, prio) \subseteq Waiters(w_state, r)
         /\ Waiters(w_state, r) # {} =>
              \E b \in Waiters(w_state, r) :
                /\ Woken(w_state, r, prio) = {b}
                /\ \A u \in Waiters(w_state, r) : prio[u] <= prio[b]
<1>1. Waiters(w_state, r) \in SUBSET Tasks
  BY DEF Waiters
<1> QED
  BY <1>1, BestIsBest DEF Woken

LEMMA MutexInitTypeOK == MutexInit => MutexTypeOK
  BY TaskInitTypeOK DEF MutexInit, os_mutex_init, MutexTypeOK

LEMMA TakeTypeOK ==
  ASSUME MutexTypeOK, SchedInv, NEW t \in AppTasks, NEW m \in Mutexes,
         os_mutex_take(t, m)
  PROVE  MutexTypeOK'
<1> USE DEF MutexTypeOK, TaskTypeOK, tcbVars, cpuVars, mutexVars, os_mutex_take
<1>1. t \in Tasks /\ m \in Resources
  BY TableFacts, MutexAssumption
<1>2. CASE TakeFree(t, m)
  <2>1. LockedBy(t, 1) \in LockedMutexes
    BY MutexAssumption DEF LockedBy, LockedMutexes
  <2> QED
    BY <1>1, <1>2, <2>1 DEF TakeFree, Return
<1>3. CASE TakeAgain(t, m)
  <2>1. mutex'[m] \in LockedMutexes
    <3>1. mutex[m] \in LockedMutexes
      BY <1>3 DEF TakeAgain, Unlocked, LockedMutexes
    <3>2. mutex'[m] = [mutex[m] EXCEPT !.recursive_depth = @ + 1]
      BY <1>3 DEF TakeAgain
    <3>3. mutex[m].recursive_depth + 1 \in 1 .. MaxDepth
      BY <1>3, <3>1, MutexAssumption DEF TakeAgain, LockedMutexes
    <3> QED
      BY <3>1, <3>2, <3>3 DEF LockedMutexes
  <2>2. mutex' \in [Mutexes -> {Unlocked} \cup
                      LockedMutexes]
    BY <1>3, <2>1 DEF TakeAgain
  <2> QED
    BY <1>1, <1>3, <2>2 DEF TakeAgain, Return
<1>4. CASE TakePark(t, m)
  <2>1. mutex[m].task_num_owner \in Tasks
    BY <1>4, MutexShape, TableFacts DEF TakePark
  <2>2. priority' \in [Tasks -> Nat]
    BY <1>1, <1>4, <2>1 DEF TakePark, boost
  <2> QED
    BY <1>1, <1>4, <2>2 DEF TakePark, Park, AtYield, os_task_state
<1> QED
  BY <1>2, <1>3, <1>4

LEMMA GiveTypeOK ==
  ASSUME MutexTypeOK, SchedInv, NEW t \in AppTasks, NEW m \in Mutexes,
         HeldByOwner, os_mutex_give(t, m)
  PROVE  MutexTypeOK'
<1> USE DEF MutexTypeOK, TaskTypeOK, tcbVars, cpuVars, mutexVars, os_mutex_give
<1>1. t \in Tasks
  BY TableFacts
<1>2. CASE GiveIgnored(t, m)
  BY <1>2 DEF GiveIgnored
<1>3. ASSUME Owns(t, m)
      PROVE  /\ mutex[m].is_locked = 1
             /\ mutex[m].recursive_depth \in 1 .. MaxDepth
             /\ held[t][m] - 1 \in Nat
  <2>1. mutex[m].is_locked # 0
    <3>1. t # NoOwner
      BY TableFacts DEF NoOwner
    <3> HIDE DEF TaskTypeOK, tcbVars, cpuVars, mutexVars, os_mutex_give
    <3> QED
      BY <1>3, <3>1, MutexShape DEF Owns
  <2>2. mutex[m].recursive_depth \in 1 .. MaxDepth /\ mutex[m].is_locked = 1
    BY <2>1, MutexShape
  <2> QED
    BY <1>1, <1>3, <2>2, MutexAssumption DEF HeldByOwner
<1>4. CASE GiveInner(t, m)
  <2>1. mutex'[m] \in LockedMutexes
    <3>1. mutex[m] \in LockedMutexes
      BY <1>3, <1>4 DEF Unlocked, LockedMutexes, GiveInner
    <3>2. mutex'[m] = [mutex[m] EXCEPT !.recursive_depth = @ - 1]
      BY <1>4 DEF GiveInner
    <3>3. mutex[m].recursive_depth - 1 \in 1 .. MaxDepth
      BY <1>3, <1>4, MutexAssumption DEF GiveInner
    <3> QED
      BY <3>1, <3>2, <3>3 DEF LockedMutexes
  <2>2. mutex' \in [Mutexes -> {Unlocked} \cup
                      LockedMutexes]
    BY <1>4, <2>1 DEF GiveInner
  <2> QED
    BY <1>1, <1>3, <1>4, <2>2 DEF GiveInner
<1>5. CASE GiveOuter(t, m)
  <2>1. priority' \in [Tasks -> Nat]
    BY <1>1, <1>5, NewPriority DEF GiveOuter
  <2>2. held' \in [Tasks -> [Mutexes -> Nat]]
    BY <1>1, <1>3, <1>5 DEF GiveOuter
  <2> QED
    BY <1>5, <2>1, <2>2 DEF GiveOuter, Wake, os_task_state
<1> QED
  BY <1>2, <1>4, <1>5
-----------------------------------------------------------------------------
(* A task executes a step of its own: what the scheduler relies on stays.   *)
LEMMA TakeSched ==
  ASSUME IdleRegistered, MutexInv, NEW t \in AppTasks, NEW m \in Mutexes,
         os_mutex_take(t, m)
  PROVE  MutexTypeOK' /\ SchedInv'
<1>1. MutexTypeOK' /\ TaskTypeOK'
  BY TakeTypeOK DEF MutexInv, MutexTypeOK
<1>2. /\ t \in Tasks
      /\ Running(t)
      /\ state[t] = "READY"
  BY CallerReady DEF os_mutex_take, MutexInv
<1>3. UNCHANGED cpuVars
  BY DEF os_mutex_take
<1>4. /\ \A u \in Tasks \ {t} : state'[u] \in {state[u], "READY"}
      /\ state'[t] = "READY" \/ pc'[t] \in AtYield
  <2>1. CASE TakeFree(t, m) \/ TakeAgain(t, m)
    BY <1>2, <2>1 DEF TakeFree, TakeAgain, tcbVars
  <2>2. CASE TakePark(t, m)
    BY <1>2, <2>2 DEF TakePark, Park, AtYield, MutexInv, MutexTypeOK, TaskTypeOK
  <2> QED
    BY <2>1, <2>2 DEF os_mutex_take
<1> QED
  BY <1>1, <1>2, <1>3, <1>4, SchedTaskStep DEF MutexInv

LEMMA GiveSched ==
  ASSUME IdleRegistered, MutexInv, NEW t \in AppTasks, NEW m \in Mutexes,
         os_mutex_give(t, m)
  PROVE  MutexTypeOK' /\ SchedInv'
<1>1. MutexTypeOK' /\ TaskTypeOK'
  BY GiveTypeOK DEF MutexInv, MutexTypeOK
<1>2. /\ t \in Tasks
      /\ Running(t)
      /\ state[t] = "READY"
  BY CallerReady DEF os_mutex_give, AtHead, MutexInv
<1>3. UNCHANGED cpuVars
  BY DEF os_mutex_give
<1>4. \A u \in Tasks : state'[u] \in {state[u], "READY"}
  BY DEF os_mutex_give, GiveIgnored, GiveInner, GiveOuter, Wake, tcbVars
<1> QED
  BY <1>1, <1>2, <1>3, <1>4, SchedTaskStep DEF MutexInv

(* A branch of os_mutex_take that returns: t owns m afterwards.             *)
LEMMA TakeFreeInv ==
  ASSUME IdleRegistered, MutexInv, NEW t \in AppTasks, NEW m \in Mutexes,
         os_mutex_take(t, m), TakeFree(t, m)
  PROVE  MutexInv'
<1>1. MutexTypeOK' /\ SchedInv' /\ MutexTypeOK /\ TaskTypeOK
  BY TakeSched DEF MutexInv, MutexTypeOK
<1>2. /\ t \in Tasks /\ t \in Nat
      /\ state[t] = "READY"
      /\ pc[t] = "run" \/ (pc[t] = "mutex_take" /\ arg[t] = m)
  BY CallerReady, TableFacts DEF os_mutex_take, MutexInv
<1>3. /\ UNCHANGED <<state, waiting_for_resource, priority>>
      /\ pc' = [pc EXCEPT ![t] = "run"]
      /\ arg' = [arg EXCEPT ![t] = NULL]
      /\ mutex' = [mutex EXCEPT ![m] = LockedBy(t, 1)]
      /\ held' = [held EXCEPT ![t][m] = @ + 1]
  BY DEF TakeFree, Return, tcbVars
<1>4. \A u \in Tasks : ~ Owns(u, m)
  BY <1>1, MutexShape, TableFacts DEF TakeFree, Owns, NoOwner
<1>5. \A u \in Tasks, n \in Mutexes : Owns(u, n)' <=> Owns(u, n) \/ (u = t /\ n = m)
  BY <1>1, <1>3, <1>4 DEF Owns, LockedBy, MutexTypeOK
<1>6. HeldByOwner'
  BY <1>1, <1>2, <1>3, <1>4, <1>5 DEF MutexInv, HeldByOwner, LockedBy, MutexTypeOK
<1>7. WaitersInside'
  BY <1>1, <1>2, <1>3 DEF MutexInv, WaitersInside, TaskTypeOK
<1>8. NoStaleBoost'
  BY <1>3, <1>5 DEF MutexInv, NoStaleBoost, Blocks, WaitersInside
<1>9. WaitersDriven'
  <2> SUFFICES ASSUME NEW w \in Tasks, state[w] = "MUTEX_WAITING"
               PROVE  Driven(w, waiting_for_resource[w])'
    BY <1>3 DEF WaitersDriven
  <2> DEFINE n == waiting_for_resource[w]
  <2>1. n \in Mutexes /\ Driven(w, n)
    BY DEF MutexInv, WaitersInside, WaitersDriven
  <2>2. CASE \E u \in Tasks : Owns(u, n) /\ priority[u] >= base_priority[w]
    BY <1>3, <1>5, <2>1, <2>2 DEF Driven
  <2>3. ASSUME NEW r \in MutexRetriers(n), priority[r] >= base_priority[w]
        PROVE  Driven(w, n)'
    <3>1. CASE r = t
      <4>1. n = m
        BY <1>2, <3>1 DEF MutexRetriers, Retriers
      <4> QED
        BY <1>2, <1>3, <1>5, <2>3, <3>1, <4>1 DEF Driven
    <3>2. CASE r # t
      <4>1. r \in MutexRetriers(n)'
        BY <1>3, <3>2 DEF MutexRetriers, Retriers
      <4> QED
        BY <1>3, <2>3, <4>1 DEF Driven
    <3> QED
      BY <3>1, <3>2
  <2> QED
    BY <1>3, <2>1, <2>2, <2>3 DEF Driven
<1> QED
  BY <1>1, <1>6, <1>7, <1>8, <1>9 DEF MutexInv
LEMMA TakeAgainInv ==
  ASSUME IdleRegistered, MutexInv, NEW t \in AppTasks, NEW m \in Mutexes,
         os_mutex_take(t, m), TakeAgain(t, m)
  PROVE  MutexInv'
<1>1. MutexTypeOK' /\ SchedInv' /\ MutexTypeOK /\ TaskTypeOK
  BY TakeSched DEF MutexInv, MutexTypeOK
<1>2. /\ t \in Tasks /\ t \in Nat
      /\ state[t] = "READY"
      /\ pc[t] = "run" \/ (pc[t] = "mutex_take" /\ arg[t] = m)
      /\ Owns(t, m)
  BY CallerReady, TableFacts DEF os_mutex_take, MutexInv, TakeAgain
<1>3. /\ UNCHANGED <<state, waiting_for_resource, priority>>
      /\ pc' = [pc EXCEPT ![t] = "run"]
      /\ arg' = [arg EXCEPT ![t] = NULL]
      /\ mutex' = [mutex EXCEPT ![m].recursive_depth = @ + 1]
      /\ held' = [held EXCEPT ![t][m] = @ + 1]
  BY DEF TakeAgain, Return, tcbVars
<1>4. /\ mutex[m] \in LockedMutexes
      /\ mutex'[m] = [mutex[m] EXCEPT !.recursive_depth = @ + 1]
      /\ \A n \in Mutexes \ {m} : mutex'[n] = mutex[n]
  BY <1>1, <1>3 DEF MutexTypeOK, TakeAgain, Unlocked
<1>5. \A u \in Tasks, n \in Mutexes : Owns(u, n)' <=> Owns(u, n)
  BY <1>4 DEF Owns, LockedMutexes
<1>6. HeldByOwner'
  <2> SUFFICES ASSUME NEW u \in Tasks, NEW n \in Mutexes
               PROVE  held'[u][n] = IF Owns(u, n)' THEN mutex'[n].recursive_depth ELSE 0
    BY DEF HeldByOwner
  <2>1. held[u][n] = IF Owns(u, n) THEN mutex[n].recursive_depth ELSE 0
    BY DEF MutexInv, HeldByOwner
  <2>2. CASE u = t /\ n = m
    BY <1>1, <1>2, <1>3, <1>4, <1>5, <2>1, <2>2 DEF MutexTypeOK, LockedMutexes
  <2>3. CASE n # m
    BY <1>1, <1>3, <1>4, <1>5, <2>1, <2>3 DEF MutexTypeOK
  <2>4. CASE u # t /\ n = m
    <3>1. ~ Owns(u, n)
      BY <1>2, <2>4 DEF Owns
    <3> QED
      BY <1>1, <1>3, <1>5, <2>1, <2>4, <3>1 DEF MutexTypeOK
  <2> QED
    BY <2>2, <2>3, <2>4
<1>7. WaitersInside'
  BY <1>1, <1>2, <1>3 DEF MutexInv, WaitersInside, TaskTypeOK
<1>8. NoStaleBoost'
  BY <1>3, <1>5 DEF MutexInv, NoStaleBoost, Blocks, WaitersInside
<1>9. WaitersDriven'
  <2> SUFFICES ASSUME NEW w \in Tasks, state[w] = "MUTEX_WAITING"
               PROVE  Driven(w, waiting_for_resource[w])'
    BY <1>3 DEF WaitersDriven
  <2> DEFINE n == waiting_for_resource[w]
  <2>1. n \in Mutexes /\ Driven(w, n)
    BY DEF MutexInv, WaitersInside, WaitersDriven
  <2>2. CASE \E u \in Tasks : Owns(u, n) /\ priority[u] >= base_priority[w]
    BY <1>3, <1>5, <2>1, <2>2 DEF Driven
  <2>3. ASSUME NEW r \in MutexRetriers(n), priority[r] >= base_priority[w]
        PROVE  Driven(w, n)'
    <3>1. CASE r = t
      <4>1. n = m
        BY <1>2, <3>1 DEF MutexRetriers, Retriers
      <4> QED
        BY <1>2, <1>3, <1>5, <2>3, <3>1, <4>1 DEF Driven
    <3>2. CASE r # t
      <4>1. r \in MutexRetriers(n)'
        BY <1>3, <3>2 DEF MutexRetriers, Retriers
      <4> QED
        BY <1>3, <2>3, <4>1 DEF Driven
    <3> QED
      BY <3>1, <3>2
  <2> QED
    BY <1>3, <2>1, <2>2, <2>3 DEF Driven
<1> QED
  BY <1>1, <1>6, <1>7, <1>8, <1>9 DEF MutexInv

(* The branch that parks: the owner inherits at least t's priority, which   *)
(* serves every waiter t was to serve.                                      *)
LEMMA TakeParkInv ==
  ASSUME IdleRegistered, MutexInv, NEW t \in AppTasks, NEW m \in Mutexes,
         os_mutex_take(t, m), TakePark(t, m)
  PROVE  MutexInv'
<1>1. MutexTypeOK' /\ SchedInv' /\ MutexTypeOK /\ TaskTypeOK
  BY TakeSched DEF MutexInv, MutexTypeOK
<1>2. /\ t \in Tasks /\ t \in Nat
      /\ state[t] = "READY"
      /\ pc[t] = "run" \/ (pc[t] = "mutex_take" /\ arg[t] = m)
  BY CallerReady, TableFacts DEF os_mutex_take, MutexInv
<1>3. PICK o \in Tasks :
        /\ o = mutex[m].task_num_owner
        /\ o # t
        /\ Owns(o, m)
        /\ m \in Resources
  BY <1>1, MutexShape, TableFacts, MutexAssumption DEF TakePark, Owns
<1>4. /\ UNCHANGED <<mutex, held>>
      /\ state' = [state EXCEPT ![t] = "MUTEX_WAITING"]
      /\ waiting_for_resource' = [waiting_for_resource EXCEPT ![t] = m]
      /\ pc' = [pc EXCEPT ![t] = "mutex_yield"]
      /\ arg' = [arg EXCEPT ![t] = m]
      /\ priority' = boost(t, o)
  BY <1>3 DEF TakePark, Park, mutexVars
<1>5. /\ \A u \in Tasks : priority[u] \in Nat /\ priority'[u] \in Nat
      /\ \A u \in Tasks : priority'[u] >= priority[u]
      /\ \A u \in Tasks \ {o} : priority'[u] = priority[u]
      /\ priority'[o] >= priority[t]
      /\ priority'[o] = priority[o] \/ priority'[o] = priority[t]
  <2>1. /\ priority \in [Tasks -> Nat]
        /\ priority' = [priority EXCEPT ![o] =
                          IF priority[t] > priority[o] THEN priority[t] ELSE priority[o]]
    BY <1>1, <1>4 DEF boost, TaskTypeOK
  <2>2. /\ \A u \in Tasks \ {o} : priority'[u] = priority[u]
        /\ priority'[o] = IF priority[t] > priority[o] THEN priority[t]
                                                      ELSE priority[o]
    BY <1>3, <2>1
  <2>3. /\ \A u \in Tasks : priority[u] \in Nat
        /\ priority[t] \in Nat /\ priority[o] \in Nat
    BY <1>2, <1>3, <2>1
  <2> QED
    BY <2>2, <2>3
<1>6. \A u \in Tasks :
        /\ base_priority[u] \in Nat
        /\ priority[u] >= base_priority[u]
  <2>1. NoStaleBoost /\ base_priority \in [Tasks -> Nat]
    BY TableFacts DEF MutexInv
  <2> QED
    BY <1>5, <2>1 DEF NoStaleBoost
<1>7. HeldByOwner'
  BY <1>4 DEF MutexInv, HeldByOwner, Owns
<1>8. WaitersInside'
  BY <1>1, <1>2, <1>4 DEF MutexInv, WaitersInside, TaskTypeOK
<1>9. NoStaleBoost'
  <2> SUFFICES ASSUME NEW u \in Tasks, priority'[u] # base_priority[u]
               PROVE  /\ priority'[u] > base_priority[u]
                      /\ \E w \in Tasks : Blocks(u, w)' /\ priority'[w] >= priority'[u]
    BY DEF NoStaleBoost
  <2>1. priority'[u] > base_priority[u]
    BY <1>5, <1>6
  <2>2. CASE priority'[u] = priority[u]
    <3>1. PICK w \in Tasks : Blocks(u, w) /\ priority[w] >= priority[u]
      BY <2>2 DEF MutexInv, NoStaleBoost
    <3>2. w # t
      BY <1>2, <3>1 DEF Blocks
    <3>3. Blocks(u, w)'
      BY <1>4, <3>1, <3>2 DEF Blocks, Owns
    <3>4. priority'[w] >= priority'[u]
      BY <1>5, <2>2, <3>1
    <3> QED
      BY <2>1, <3>3, <3>4
  <2>3. CASE priority'[u] # priority[u]
    <3>1. u = o /\ priority'[u] = priority[t]
      BY <1>5, <2>3
    <3>2. Blocks(o, t)'
      BY <1>1, <1>2, <1>3, <1>4 DEF Blocks, Owns, TaskTypeOK
    <3>3. priority'[t] >= priority'[u]
      BY <1>2, <1>3, <1>5, <3>1
    <3> QED
      BY <1>2, <2>1, <3>1, <3>2, <3>3
  <2> QED
    BY <2>2, <2>3
<1>10. WaitersDriven'
  <2>1. ASSUME NEW w \in Tasks, base_priority[w] <= priority[t]
        PROVE  Driven(w, m)'
    <3>1. priority'[o] >= base_priority[w]
      BY <1>2, <1>3, <1>5, <1>6, <2>1
    <3>2. Owns(o, m)'
      BY <1>3, <1>4 DEF Owns
    <3> QED
      BY <1>3, <3>1, <3>2 DEF Driven
  <2>2. ASSUME NEW w \in Tasks \ {t}, state[w] = "MUTEX_WAITING"
        PROVE  Driven(w, waiting_for_resource[w])'
    <3> DEFINE n == waiting_for_resource[w]
    <3>1. n' = n /\ Driven(w, n)
      BY <1>4, <2>2 DEF MutexInv, WaitersDriven
    <3>2. CASE \E u \in Tasks : Owns(u, n) /\ priority[u] >= base_priority[w]
      <4>1. PICK u \in Tasks : Owns(u, n) /\ priority[u] >= base_priority[w]
        BY <3>2
      <4>2. priority'[u] >= base_priority[w]
        BY <1>5, <1>6, <4>1
      <4>3. Owns(u, n)'
        BY <1>4, <3>1, <4>1 DEF Owns
      <4> QED
        BY <3>1, <4>2, <4>3 DEF Driven
    <3>3. ASSUME NEW r \in MutexRetriers(n), priority[r] >= base_priority[w]
          PROVE  Driven(w, n)'
      <4>1. r \in Tasks
        BY DEF MutexRetriers, Retriers
      <4>2. CASE r = t
        <5>1. n = m
          BY <1>2, <4>2 DEF MutexRetriers, Retriers
        <5> QED
          BY <1>5, <1>6, <2>1, <3>1, <3>3, <4>2, <5>1
      <4>3. CASE r # t
        <5>1. r \in MutexRetriers(n)'
          BY <1>4, <3>1, <4>3 DEF MutexRetriers, Retriers
        <5>2. priority'[r] >= base_priority[w]
          BY <1>5, <1>6, <3>3, <4>1
        <5> QED
          BY <3>1, <5>1, <5>2 DEF Driven
      <4> QED
        BY <4>2, <4>3
    <3> QED
      BY <3>1, <3>2, <3>3 DEF Driven
  <2>3. Driven(t, waiting_for_resource[t])'
    <3>1. waiting_for_resource'[t] = m
      BY <1>1, <1>2, <1>4 DEF TaskTypeOK
    <3>2. Driven(t, m)'
      BY <1>2, <1>6, <2>1
    <3> QED
      BY <3>1, <3>2 DEF Driven
  <2>4. \A w \in Tasks \ {t} : state'[w] = state[w]
    BY <1>4
  <2> QED
    BY <2>2, <2>3, <2>4 DEF WaitersDriven
<1> QED
  BY <1>1, <1>7, <1>8, <1>9, <1>10 DEF MutexInv
-----------------------------------------------------------------------------
(* A step that changes no mutex and no priority, wakes no waiter, parks     *)
(* nobody on a mutex and leaves the woken tasks on their way.               *)
LEMMA QuietStepInv ==
  ASSUME MutexInv, MutexTypeOK', SchedInv',
         UNCHANGED <<mutex, held, priority, arg>>,
         \A w \in Tasks : state'[w] = "MUTEX_WAITING" =>
           /\ state[w] = "MUTEX_WAITING"
           /\ waiting_for_resource'[w] = waiting_for_resource[w],
         \A w \in Tasks : state[w] = "MUTEX_WAITING" =>
           /\ state'[w] = "MUTEX_WAITING"
           /\ pc'[w] \in {"mutex_take", "mutex_yield"},
         \A m \in Mutexes : MutexRetriers(m) \subseteq MutexRetriers(m)'
  PROVE  MutexInv'
<1>1. HeldByOwner'
  BY DEF MutexInv, HeldByOwner, Owns
<1>2. WaitersInside'
  BY DEF MutexInv, WaitersInside
<1>3. NoStaleBoost'
  BY DEF MutexInv, NoStaleBoost, Blocks, Owns
<1>4. WaitersDriven'
  <2> SUFFICES ASSUME NEW w \in Tasks, state[w] = "MUTEX_WAITING",
                      waiting_for_resource'[w] = waiting_for_resource[w]
               PROVE  Driven(w, waiting_for_resource[w])'
    BY DEF WaitersDriven
  <2>1. /\ Driven(w, waiting_for_resource[w])
        /\ waiting_for_resource[w] \in Mutexes
    BY DEF MutexInv, WaitersDriven, WaitersInside
  <2> QED
    BY <2>1 DEF Driven, Owns
<1> QED
  BY <1>1, <1>2, <1>3, <1>4 DEF MutexInv

LEMMA MutexStutter ==
  ASSUME MutexInv, UNCHANGED mtxVars
  PROVE  MutexInv'
<1> USE DEF mtxVars, taskVars
<1>1. SchedInv'
  BY SchedStutter DEF MutexInv
<1>2. MutexTypeOK'
  BY <1>1 DEF MutexInv, MutexTypeOK, SchedInv
<1>3. \A m \in Mutexes : MutexRetriers(m) \subseteq MutexRetriers(m)'
  BY DEF MutexRetriers, Retriers
<1> QED
  BY <1>1, <1>2, <1>3, QuietStepInv DEF MutexInv, WaitersInside

(* The steps of module Task. *)
LEMMA TaskStepInv ==
  ASSUME IdleRegistered, MutexInv, TaskNext, UNCHANGED mutexVars
  PROVE  MutexInv'
<1> USE DEF mutexVars, tcbVars, cpuVars
<1>1. SchedInv' /\ TaskTypeOK' /\ TaskTypeOK
  BY SchedNext DEF MutexInv, SchedInv
<1>2. MutexTypeOK'
  BY <1>1 DEF MutexInv, MutexTypeOK
<1>3. CASE SysTick_Handler
  <2>1. /\ UNCHANGED <<priority, pc, arg>>
        /\ waiting_for_resource' = [w \in Tasks |-> waiting_for_resource[w]]
        /\ \A w \in Tasks : state'[w] = state[w] \/ (state[w] = "BLOCKED" /\ state'[w] = "READY")
    BY <1>3 DEF SysTick_Handler, Tick, os_decrement_blocked_tasks, Expiring, Sleeping
  <2>2. \A m \in Mutexes : MutexRetriers(m) \subseteq MutexRetriers(m)'
    BY <2>1 DEF MutexRetriers, Retriers
  <2> QED
    BY <1>1, <1>2, <2>1, <2>2, QuietStepInv DEF MutexInv, WaitersInside
<1>4. CASE SwitchStep
  <2>1. UNCHANGED <<state, waiting_for_resource, priority, pc, arg>>
    BY <1>4 DEF SwitchStep, PendSV_Handler, ScanOne, Dispatch
  <2>2. \A m \in Mutexes : MutexRetriers(m) \subseteq MutexRetriers(m)'
    BY <2>1 DEF MutexRetriers, Retriers
  <2> QED
    BY <1>1, <1>2, <2>1, <2>2, QuietStepInv DEF MutexInv, WaitersInside
<1>5. ASSUME NEW t \in Tasks, Yield(t)
      PROVE  MutexInv'
  <2>1. /\ UNCHANGED <<state, waiting_for_resource, priority, arg>>
        /\ pc' = [pc EXCEPT ![t] = YieldTo[pc[t]]]
        /\ pc[t] \in AtYield
    BY <1>5 DEF Yield
  <2>2. /\ pc[t] # "mutex_take"
        /\ pc[t] = "mutex_yield" => YieldTo[pc[t]] = "mutex_take"
    BY <2>1 DEF AtYield, YieldTo
  <2>3. \A w \in Tasks : pc[w] \in {"mutex_take", "mutex_yield"} =>
                          pc'[w] \in {"mutex_take", "mutex_yield"}
    BY <1>1, <2>1, <2>2 DEF TaskTypeOK
  <2>4. \A m \in Mutexes : MutexRetriers(m) \subseteq MutexRetriers(m)'
    BY <2>1, <2>3 DEF MutexRetriers, Retriers
  <2> QED
    BY <1>1, <1>2, <2>1, <2>3, <2>4, QuietStepInv DEF MutexInv, WaitersInside
<1>6. ASSUME NEW t \in Tasks, NEW ticks \in Delays, os_delay(t, ticks)
      PROVE  MutexInv'
  <2>1. /\ UNCHANGED <<waiting_for_resource, priority, arg>>
        /\ state' = [state EXCEPT ![t] = "BLOCKED"]
        /\ pc' = [pc EXCEPT ![t] = "delay_yield"]
        /\ t \in AppTasks /\ AtHead(t, "mutex_take", NULL)
        /\ pc[t] = "run"
    BY <1>6 DEF os_delay, Calls, AtHead
  <2>2. state[t] = "READY"
    BY <2>1, CallerReady DEF MutexInv
  <2>3. \A m \in Mutexes : MutexRetriers(m) \subseteq MutexRetriers(m)'
    BY <2>1 DEF MutexRetriers, Retriers
  <2>4. \A w \in Tasks \ {t} : state'[w] = state[w] /\ pc'[w] = pc[w]
    BY <2>1
  <2>5. state'[t] = "BLOCKED"
    BY <1>1, <2>1 DEF TaskTypeOK
  <2>6. \A w \in Tasks : state'[w] = "MUTEX_WAITING" <=> state[w] = "MUTEX_WAITING"
    BY <2>2, <2>4, <2>5
  <2>7. \A w \in Tasks : state[w] = "MUTEX_WAITING" => pc'[w] \in {"mutex_take", "mutex_yield"}
    BY <2>2, <2>4 DEF MutexInv, WaitersInside
  <2> QED
    BY <1>1, <1>2, <2>1, <2>3, <2>6, <2>7, QuietStepInv
<1> QED
  BY <1>3, <1>4, <1>5, <1>6 DEF TaskNext
-----------------------------------------------------------------------------
LEMMA GiveInnerInv ==
  ASSUME IdleRegistered, MutexInv, NEW t \in AppTasks, NEW m \in Mutexes,
         os_mutex_give(t, m), GiveInner(t, m)
  PROVE  MutexInv'
<1>1. MutexTypeOK' /\ SchedInv' /\ MutexTypeOK
  BY GiveSched DEF MutexInv
<1>2. /\ UNCHANGED <<state, waiting_for_resource, priority, pc, arg>>
      /\ mutex' = [mutex EXCEPT ![m].recursive_depth = @ - 1]
      /\ held' = [held EXCEPT ![t][m] = @ - 1]
      /\ Owns(t, m)
      /\ t \in Tasks
  BY TableFacts DEF GiveInner, tcbVars
<1>3. mutex[m] \in LockedMutexes
  BY <1>1, <1>2, TableFacts DEF MutexTypeOK, Owns, Unlocked, NoOwner
<1>4. /\ mutex'[m] = [mutex[m] EXCEPT !.recursive_depth = @ - 1]
      /\ \A n \in Mutexes \ {m} : mutex'[n] = mutex[n]
  BY <1>1, <1>2 DEF MutexTypeOK
<1>5. \A u \in Tasks, n \in Mutexes : Owns(u, n)' <=> Owns(u, n)
  BY <1>3, <1>4 DEF Owns, LockedMutexes
<1>6. HeldByOwner'
  <2> SUFFICES ASSUME NEW u \in Tasks, NEW n \in Mutexes
               PROVE  held'[u][n] = IF Owns(u, n)' THEN mutex'[n].recursive_depth ELSE 0
    BY DEF HeldByOwner
  <2>1. held[u][n] = IF Owns(u, n) THEN mutex[n].recursive_depth ELSE 0
    BY DEF MutexInv, HeldByOwner
  <2>2. CASE u = t /\ n = m
    BY <1>1, <1>2, <1>3, <1>4, <1>5, <2>1, <2>2 DEF MutexTypeOK, LockedMutexes
  <2>3. CASE n # m
    BY <1>1, <1>2, <1>4, <1>5, <2>1, <2>3 DEF MutexTypeOK
  <2>4. CASE u # t /\ n = m
    <3>1. ~ Owns(u, n)
      BY <1>2, <2>4 DEF Owns
    <3> QED
      BY <1>1, <1>2, <1>5, <2>1, <2>4, <3>1 DEF MutexTypeOK
  <2> QED
    BY <2>2, <2>3, <2>4
<1>7. WaitersInside'
  BY <1>2 DEF MutexInv, WaitersInside
<1>8. NoStaleBoost'
  BY <1>2, <1>5 DEF MutexInv, NoStaleBoost, Blocks, WaitersInside
<1>9. WaitersDriven'
  <2> SUFFICES ASSUME NEW w \in Tasks, state[w] = "MUTEX_WAITING"
               PROVE  Driven(w, waiting_for_resource[w])'
    BY <1>2 DEF WaitersDriven
  <2>1. /\ waiting_for_resource[w] \in Mutexes
        /\ Driven(w, waiting_for_resource[w])
    BY DEF MutexInv, WaitersInside, WaitersDriven
  <2> QED
    BY <1>2, <1>5, <2>1 DEF Driven, MutexRetriers, Retriers
<1> QED
  BY <1>1, <1>6, <1>7, <1>8, <1>9 DEF MutexInv

(* The release.  The waiter it wakes is the best one, so it drives those it *)
(* leaves behind; the new priority covers every waiter on a mutex t keeps,  *)
(* and is either the base priority or the priority of one of them.          *)
LEMMA GiveOuterInv ==
  ASSUME IdleRegistered, MutexInv, NEW t \in AppTasks, NEW m \in Mutexes,
         os_mutex_give(t, m), GiveOuter(t, m)
  PROVE  MutexInv'
<1>1. MutexTypeOK' /\ SchedInv' /\ MutexTypeOK /\ TaskTypeOK /\ TaskTypeOK'
  BY GiveSched DEF MutexInv, MutexTypeOK
<1>2. /\ t \in Tasks /\ t \in Nat
      /\ state[t] = "READY"
      /\ pc[t] = "run"
      /\ Owns(t, m)
  <2>1. SchedInv /\ Calls(t) /\ Owns(t, m)
    BY DEF MutexInv, os_mutex_give, GiveOuter
  <2>2. t \in Tasks /\ t \in Nat /\ pc[t] = "run"
    BY <2>1, TableFacts DEF Calls
  <2> QED
    BY <2>1, <2>2 DEF Calls, SchedInv, RunnerIsReady, AtYield
<1> DEFINE ws == Waiters("MUTEX_WAITING", m)
           mx == [mutex EXCEPT ![m] = Unlocked]
<1>3. /\ mutex' = mx
      /\ held' = [held EXCEPT ![t][m] = @ - 1]
      /\ priority' = [priority EXCEPT ![t] = new_priority(t, mx)]
      /\ UNCHANGED <<pc, arg>>
  BY DEF GiveOuter
<1>4. \A u \in Tasks, n \in Mutexes : Owns(u, n)' <=> Owns(u, n) /\ n # m
  <2>1. /\ mutex'[m] = Unlocked
        /\ \A n \in Mutexes : n # m => mutex'[n] = mutex[n]
    BY <1>1, <1>3 DEF MutexTypeOK
  <2>2. \A u \in Tasks : u # NoOwner
    BY TableFacts DEF NoOwner
  <2> QED
    BY <2>1, <2>2 DEF Owns, Unlocked
<1>5. /\ \A u \in Tasks : priority[u] \in Nat /\ base_priority[u] \in Nat
      /\ \A u \in Tasks : priority[u] >= base_priority[u]
      /\ \A u \in Tasks \ {t} : priority'[u] = priority[u]
      /\ priority'[t] = new_priority(t, mx)
  <2>1. \A u \in Tasks : priority[u] \in Nat /\ base_priority[u] \in Nat
    BY <1>1, TableFacts DEF TaskTypeOK
  <2>2. \A u \in Tasks : priority[u] >= base_priority[u]
    BY <2>1 DEF MutexInv, NoStaleBoost
  <2>3. /\ \A u \in Tasks \ {t} : priority'[u] = priority[u]
        /\ priority'[t] = new_priority(t, mx)
    BY <1>1, <1>2, <1>3 DEF TaskTypeOK
  <2> QED
    BY <2>1, <2>2, <2>3
<1>6. PICK woken \in SUBSET ws :
        /\ state' = [u \in Tasks |-> IF u \in woken THEN "READY" ELSE state[u]]
        /\ waiting_for_resource' =
             [u \in Tasks |-> IF u \in woken THEN NULL ELSE waiting_for_resource[u]]
        /\ ws # {} => \E b \in ws :
             woken = {b} /\ \A u \in ws : priority'[u] <= priority'[b]
  <2>1. priority' \in [Tasks -> Nat]
    BY <1>1 DEF TaskTypeOK
  <2>2. Wake(Woken("MUTEX_WAITING", m, priority'))
    BY DEF GiveOuter
  <2> QED
    BY <1>1, <2>1, <2>2, WokenFacts DEF Wake
<1>7. \A w \in Tasks : state'[w] = "MUTEX_WAITING" =>
        /\ state[w] = "MUTEX_WAITING"
        /\ waiting_for_resource'[w] = waiting_for_resource[w]
        /\ w # t
  BY <1>2, <1>6
<1>8. \A w \in Tasks : state[w] = "MUTEX_WAITING" /\ waiting_for_resource[w] # m =>
        /\ state'[w] = "MUTEX_WAITING"
        /\ waiting_for_resource'[w] = waiting_for_resource[w]
  BY <1>6 DEF Waiters
<1>9. \A n \in Mutexes : \A r \in MutexRetriers(n) :
        r \in MutexRetriers(n)' /\ r # t
  BY <1>2, <1>3, <1>6 DEF MutexRetriers, Retriers
<1>10. \A w \in Tasks : w \in Heirs(t, mx) <=>
         /\ state[w] = "MUTEX_WAITING"
         /\ waiting_for_resource[w] # m
         /\ Owns(t, waiting_for_resource[w])
  <2> SUFFICES ASSUME NEW w \in Tasks, state[w] = "MUTEX_WAITING"
               PROVE  mx[waiting_for_resource[w]].task_num_owner = t <=>
                        /\ waiting_for_resource[w] # m
                        /\ Owns(t, waiting_for_resource[w])
    BY DEF Heirs
  <2>1. waiting_for_resource[w] \in Mutexes
    BY DEF MutexInv, WaitersInside
  <2>2. CASE waiting_for_resource[w] = m
    <3>1. mx[m] = Unlocked
      BY <1>1 DEF MutexTypeOK
    <3> QED
      BY <1>2, <2>2, <3>1 DEF Unlocked, NoOwner
  <2>3. CASE waiting_for_resource[w] # m
    BY <1>1, <2>1, <2>3 DEF MutexTypeOK, Owns
  <2> QED
    BY <2>2, <2>3
<1>11. HeldByOwner'
  <2> SUFFICES ASSUME NEW u \in Tasks, NEW n \in Mutexes
               PROVE  held'[u][n] = IF Owns(u, n)' THEN mutex'[n].recursive_depth ELSE 0
    BY DEF HeldByOwner
  <2>1. held[u][n] = IF Owns(u, n) THEN mutex[n].recursive_depth ELSE 0
    BY DEF MutexInv, HeldByOwner
  <2>2. CASE u = t /\ n = m
    <3>1. mutex[m].recursive_depth = 1
      BY <1>1, <1>2, MutexShape, TableFacts, MutexAssumption DEF GiveOuter, Owns, NoOwner
    <3> QED
      BY <1>1, <1>2, <1>3, <1>4, <2>1, <2>2, <3>1 DEF MutexTypeOK
  <2>3. CASE n # m
    BY <1>1, <1>3, <1>4, <2>1, <2>3 DEF MutexTypeOK
  <2>4. CASE u # t /\ n = m
    <3>1. ~ Owns(u, n)
      BY <1>2, <2>4 DEF Owns
    <3> QED
      BY <1>1, <1>3, <1>4, <2>1, <2>4, <3>1 DEF MutexTypeOK
  <2> QED
    BY <2>2, <2>3, <2>4
<1>12. WaitersInside'
  BY <1>3, <1>7 DEF MutexInv, WaitersInside
<1>13. NoStaleBoost'
  <2> SUFFICES ASSUME NEW u \in Tasks, priority'[u] # base_priority[u]
               PROVE  /\ priority'[u] > base_priority[u]
                      /\ \E w \in Tasks : Blocks(u, w)' /\ priority'[w] >= priority'[u]
    BY DEF NoStaleBoost
  <2>1. CASE u = t
    <3>1. PICK w \in Heirs(t, mx) : new_priority(t, mx) = priority[w]
      BY <1>1, <1>2, <1>5, <2>1, NewPriority
    <3>2. w \in Tasks
      BY DEF Heirs
    <3>3. Blocks(t, w)'
      <4>1. /\ state[w] = "MUTEX_WAITING"
            /\ waiting_for_resource[w] # m
            /\ Owns(t, waiting_for_resource[w])
            /\ waiting_for_resource[w] \in Mutexes
        BY <1>10, <3>1, <3>2 DEF MutexInv, WaitersInside
      <4>2. /\ state'[w] = "MUTEX_WAITING"
            /\ waiting_for_resource'[w] = waiting_for_resource[w]
        BY <1>8, <3>2, <4>1
      <4>3. Owns(t, waiting_for_resource[w])'
        BY <1>3, <4>1, <4>2 DEF Owns
      <4> QED
        BY <4>2, <4>3 DEF Blocks
    <3>4. priority'[w] = priority'[t]
      BY <1>5, <1>7, <3>1, <3>2, <3>3 DEF Blocks
    <3>5. priority'[t] > base_priority[t]
      BY <1>1, <1>2, <1>5, <2>1, NewPriority
    <3> QED
      BY <1>5, <2>1, <3>1, <3>2, <3>3, <3>4, <3>5
  <2>2. CASE u # t
    <3>1. PICK w \in Tasks : Blocks(u, w) /\ priority[w] >= priority[u]
      BY <1>5, <2>2 DEF MutexInv, NoStaleBoost
    <3>2. waiting_for_resource[w] # m
      BY <1>2, <2>2, <3>1 DEF Blocks, Owns
    <3>3. Blocks(u, w)'
      BY <1>4, <1>8, <3>1, <3>2 DEF Blocks, MutexInv, WaitersInside
    <3>4. w # t
      BY <1>7, <3>3 DEF Blocks
    <3> QED
      BY <1>5, <2>2, <3>1, <3>3, <3>4
  <2> QED
    BY <2>1, <2>2
<1>14. WaitersDriven'
  <2> SUFFICES ASSUME NEW w \in Tasks, state'[w] = "MUTEX_WAITING"
               PROVE  Driven(w, waiting_for_resource[w])'
    BY DEF WaitersDriven
  <2> DEFINE n == waiting_for_resource[w]
  <2>1. /\ state[w] = "MUTEX_WAITING"
        /\ n' = n
        /\ w # t
        /\ n \in Mutexes
        /\ Driven(w, n)
    BY <1>7 DEF MutexInv, WaitersInside, WaitersDriven
  <2>2. CASE n = m
    <3>1. w \in ws
      BY <2>1, <2>2 DEF Waiters
    <3>2. PICK b \in ws : woken = {b} /\ priority'[w] <= priority'[b]
      BY <1>6, <3>1
    <3>3. b \in Tasks /\ state[b] = "MUTEX_WAITING" /\ b # t
      BY <1>2 DEF Waiters
    <3>4. b \in MutexRetriers(n)'
      <4>1. state'[b] = "READY"
        BY <1>6, <3>2, <3>3
      <4>2. pc'[b] \in {"mutex_take", "mutex_yield"} /\ arg'[b] = m
        BY <1>3, <3>3 DEF MutexInv, WaitersInside, Waiters
      <4> QED
        BY <2>1, <2>2, <3>3, <4>1, <4>2 DEF MutexRetriers, Retriers
    <3>5. priority'[b] >= base_priority[w]
      BY <1>5, <2>1, <3>2, <3>3
    <3> QED
      BY <2>1, <3>4, <3>5 DEF Driven
  <2>3. CASE n # m
    <3>1. CASE Owns(t, n)
      <4>1. w \in Heirs(t, mx)
        BY <1>10, <2>1, <2>3, <3>1
      <4>2. priority'[t] >= base_priority[w]
        BY <1>1, <1>2, <1>5, <2>1, <4>1, NewPriority DEF TaskTypeOK
      <4>3. Owns(t, n)'
        BY <1>2, <1>4, <2>1, <2>3, <3>1 DEF Owns
      <4> QED
        BY <1>2, <2>1, <4>2, <4>3 DEF Driven
    <3>2. ASSUME ~ Owns(t, n), NEW u \in Tasks, Owns(u, n),
                 priority[u] >= base_priority[w]
          PROVE  Driven(w, n)'
      <4>1. u # t
        BY <3>2
      <4>2. Owns(u, n)'
        BY <1>4, <2>1, <2>3, <3>2 DEF Owns
      <4> QED
        BY <1>5, <2>1, <3>2, <4>1, <4>2 DEF Driven
    <3>3. ASSUME NEW r \in MutexRetriers(n), priority[r] >= base_priority[w]
          PROVE  Driven(w, n)'
      <4>1. r \in MutexRetriers(n)' /\ r # t
        BY <1>9, <2>1
      <4>2. r \in Tasks
        BY DEF MutexRetriers, Retriers
      <4> QED
        BY <1>5, <2>1, <3>3, <4>1, <4>2 DEF Driven, MutexRetriers
    <3> QED
      BY <2>1, <3>1, <3>2, <3>3 DEF Driven
  <2> QED
    BY <2>2, <2>3
<1> QED
  BY <1>1, <1>11, <1>12, <1>13, <1>14 DEF MutexInv
-----------------------------------------------------------------------------
LEMMA MutexInitInv == IdleRegistered /\ MutexInit => MutexInv
<1> SUFFICES ASSUME IdleRegistered, MutexInit
             PROVE  MutexInv
  OBVIOUS
<1> USE DEF MutexInit
<1>1. MutexTypeOK /\ SchedInv
  BY MutexInitTypeOK, SchedInit
<1>2. HeldByOwner
  BY TableFacts DEF HeldByOwner, os_mutex_init, Owns, Unlocked, NoOwner
<1>3. WaitersInside /\ WaitersDriven
  BY DEF WaitersInside, WaitersDriven, TaskInit
<1>4. NoStaleBoost
  BY DEF NoStaleBoost, TaskInit
<1> QED
  BY <1>1, <1>2, <1>3, <1>4 DEF MutexInv

LEMMA MutexNextInv ==
  ASSUME IdleRegistered, MutexInv, [MutexNext]_mtxVars
  PROVE  MutexInv'
<1>1. CASE TaskNext /\ UNCHANGED mutexVars
  BY <1>1, TaskStepInv
<1>2. ASSUME NEW t \in AppTasks, NEW m \in Mutexes, os_mutex_take(t, m)
      PROVE  MutexInv'
  BY <1>2, TakeFreeInv, TakeAgainInv, TakeParkInv DEF os_mutex_take
<1>3. ASSUME NEW t \in AppTasks, NEW m \in Mutexes, os_mutex_give(t, m)
      PROVE  MutexInv'
  <2>1. CASE GiveIgnored(t, m)
    BY <1>3, <2>1, MutexStutter
       DEF GiveIgnored, os_mutex_give, mtxVars, taskVars, tcbVars, cpuVars, mutexVars
  <2> QED
    BY <1>3, <2>1, GiveInnerInv, GiveOuterInv DEF os_mutex_give
<1>4. CASE UNCHANGED mtxVars
  BY <1>4, MutexStutter
<1> QED
  BY <1>1, <1>2, <1>3, <1>4 DEF MutexNext, MutexStep

LEMMA MutexInvariant ==
  ASSUME IdleRegistered
  PROVE  MutexSpec => []MutexInv
<1>1. MutexInit => MutexInv
  BY MutexInitInv
<1>2. MutexInv /\ [MutexNext]_mtxVars => MutexInv'
  BY MutexNextInv
<1> QED
  BY <1>1, <1>2, PTL DEF MutexSpec

(* Type correctness: a mutex is locked exactly when it has an owner and a   *)
(* depth, through every path of os_mutex_take and os_mutex_give.            *)
THEOREM MutexTypeCorrect ==
  ASSUME IdleRegistered
  PROVE  MutexSpec => []MutexTypeOK
<1>1. MutexInv => MutexTypeOK
  BY DEF MutexInv
<1> QED
  BY <1>1, MutexInvariant, PTL

(* A priority stays raised only while a task of that priority waits for a   *)
(* mutex of the raised task.                                                *)
THEOREM BoostNeverStale ==
  ASSUME IdleRegistered
  PROVE  MutexSpec => []NoStaleBoost
<1>1. MutexInv => NoStaleBoost
  BY DEF MutexInv
<1> QED
  BY <1>1, MutexInvariant, PTL

(* A free mutex with waiters has a woken task that will try it.             *)
THEOREM MutexWakeupsArrive ==
  ASSUME IdleRegistered
  PROVE  MutexSpec => []NoLostMutexWakeup
<1>1. MutexInv => NoLostMutexWakeup
  <2> SUFFICES ASSUME MutexInv, NEW m \in Mutexes, mutex[m].is_locked = 0,
                      NEW w \in Waiters("MUTEX_WAITING", m)
               PROVE  MutexRetriers(m) # {}
    BY DEF NoLostMutexWakeup
  <2>1. Driven(w, m)
    BY DEF MutexInv, WaitersDriven, Waiters
  <2>2. \A t \in Tasks : ~ Owns(t, m)
    BY MutexShape, TableFacts DEF MutexInv, Owns, NoOwner
  <2> QED
    BY <2>1, <2>2 DEF Driven
<1> QED
  BY <1>1, MutexInvariant, PTL

(* Priority inheritance survives barging: the owner has the base priority   *)
(* of every waiter at least, or a woken task that has it is about to pass   *)
(* it on.                                                                   *)
THEOREM InheritanceSurvivesBarging ==
  ASSUME IdleRegistered
  PROVE  MutexSpec => []InheritsOrPending
<1>1. MutexInv => InheritsOrPending
  <2> SUFFICES ASSUME MutexInv, NEW t \in Tasks, NEW w \in Tasks, Blocks(t, w)
               PROVE  \/ priority[t] >= base_priority[w]
                      \/ \E r \in MutexRetriers(waiting_for_resource[w]) :
                           priority[r] >= base_priority[w]
    BY DEF InheritsOrPending
  <2>1. Driven(w, waiting_for_resource[w])
    BY DEF MutexInv, WaitersDriven, Blocks
  <2>2. \A u \in Tasks : Owns(u, waiting_for_resource[w]) => u = t
    BY DEF Blocks, Owns
  <2> QED
    BY <2>1, <2>2 DEF Driven
<1> QED
  BY <1>1, MutexInvariant, PTL

(* os_mutex_take and os_mutex_give implement a recursive lock: mutual       *)
(* exclusion between the takes that have returned.                          *)
THEOREM MutexImplementsLock ==
  ASSUME IdleRegistered
  PROVE  MutexSpec => ImplementsLock
<1>1. MutexInit => Lock!Init
  BY DEF MutexInit, Lock!Init
<1>2. MutexInv /\ [MutexNext]_mtxVars => [Lock!Next]_held
  <2> SUFFICES ASSUME MutexInv, [MutexNext]_mtxVars
               PROVE  [Lock!Next]_held
    OBVIOUS
  <2>1. ASSUME NEW t \in AppTasks, NEW m \in Mutexes, os_mutex_take(t, m)
        PROVE  [Lock!Next]_held
    <3>1. t \in Tasks
      BY TableFacts
    <3>2. CASE TakeFree(t, m) \/ TakeAgain(t, m)
      <4>1. \A u \in Tasks \ {t} : ~ Owns(u, m)
        BY <3>2, MutexShape, TableFacts
           DEF TakeFree, TakeAgain, Owns, NoOwner, MutexInv
      <4>2. \A u \in Tasks \ {t} : held[u][m] = 0
        BY <4>1 DEF MutexInv, HeldByOwner
      <4>3. held' = [held EXCEPT ![t][m] = @ + 1]
        BY <3>2 DEF TakeFree, TakeAgain
      <4>4. Lock!Take(t, m)
        BY <4>2, <4>3 DEF Lock!Take
      <4> QED
        BY <3>1, <4>4 DEF Lock!Next
    <3>3. CASE TakePark(t, m)
      BY <3>3 DEF TakePark, mutexVars
    <3> QED
      BY <2>1, <3>2, <3>3 DEF os_mutex_take
  <2>2. ASSUME NEW t \in AppTasks, NEW m \in Mutexes, os_mutex_give(t, m)
        PROVE  [Lock!Next]_held
    <3>1. t \in Tasks
      BY TableFacts
    <3>2. CASE GiveIgnored(t, m)
      BY <3>2 DEF GiveIgnored, mutexVars
    <3>3. CASE GiveInner(t, m) \/ GiveOuter(t, m)
      <4>1. Owns(t, m) /\ held' = [held EXCEPT ![t][m] = @ - 1]
        BY <3>3 DEF GiveInner, GiveOuter
      <4>2. mutex[m].recursive_depth \in 1 .. MaxDepth
        BY <4>1, MutexShape, TableFacts DEF MutexInv, Owns, NoOwner
      <4>3. held[t][m] > 0
        BY <3>1, <4>1, <4>2, MutexAssumption DEF MutexInv, HeldByOwner
      <4>4. Lock!Give(t, m)
        BY <4>1, <4>3 DEF Lock!Give
      <4> QED
        BY <3>1, <4>4 DEF Lock!Next
    <3> QED
      BY <2>2, <3>2, <3>3 DEF os_mutex_give
  <2>3. CASE UNCHANGED mtxVars \/ UNCHANGED mutexVars
    BY <2>3 DEF mtxVars, mutexVars
  <2> QED
    BY <2>1, <2>2, <2>3 DEF MutexNext, MutexStep
<1> QED
  BY <1>1, <1>2, MutexInvariant, PTL DEF MutexSpec, ImplementsLock, Lock!Spec
=============================================================================
