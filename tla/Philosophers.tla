---------------------------- MODULE Philosophers ----------------------------
(***************************************************************************)
(* samples/dining_philosopher: the application that stresses the mutexes.  *)
(* Task p, for p < NUM_PHILOSOPHER, is philosopher p; one more task, of    *)
(* the highest priority, prints statistics.  Philosopher p shares fork p   *)
(* with the one before it and fork p + 1 with the one after, takes the     *)
(* lower of the two first, and sleeps while it holds both: an owner of     *)
(* mutexes that os_delay()s, chains of waiters, inheritance through them.  *)
(***************************************************************************)
EXTENDS Mutex

CONSTANT NUM_PHILOSOPHER

(* What main() sets up: the forks, and the tasks in this order with these   *)
(* priorities.  get_random_delay() is never 0: its period is multiplied by  *)
(* ten at least.                                                            *)
ASSUME PhilosophersAssumption ==
  /\ NUM_PHILOSOPHER \in Nat \ {0, 1}
  /\ UserTasks = NUM_PHILOSOPHER + 1
  /\ UserPriority = [t \in 0 .. UserTasks - 1 |-> t + 2]
  /\ Mutexes = 0 .. NUM_PHILOSOPHER - 1
  /\ 0 \notin Delays

Philosophers == 0 .. NUM_PHILOSOPHER - 1
Printer      == NUM_PHILOSOPHER

VARIABLE at    \* for each philosopher, the call it makes next or is inside

philVars == <<mtxVars, at>>

PhilInit == MutexInit /\ at = [p \in Philosophers |-> "THINKING"]
-----------------------------------------------------------------------------
(* get_forks: the two forks of a philosopher, in the order of the mutexes. *)
left(p)  == p
right(p) == (p + 1) % NUM_PHILOSOPHER

get_forks_unordered(p) == [low |-> left(p), high |-> right(p)]

(* A second branch that writes the same fork to both outputs. *)
get_forks_same(p) ==
  IF left(p) < right(p) THEN [low |-> left(p), high |-> right(p)]
                        ELSE [low |-> right(p), high |-> right(p)]

get_forks(p) ==
  IF left(p) < right(p) THEN [low |-> left(p), high |-> right(p)]
                        ELSE [low |-> right(p), high |-> left(p)]

low(p)  == get_forks(p).low
high(p) == get_forks(p).high

(* A call that blocks at most once: the next one follows its yield. *)
Sleep(p, next) ==
  /\ \E ticks \in Delays : os_delay(p, ticks)
  /\ at' = [at EXCEPT ![p] = next]
  /\ UNCHANGED mutexVars

(* A call of os_mutex_take: the philosopher moves on when it returns. *)
TakeFork(p, m, next) ==
  /\ os_mutex_take(p, m)
  /\ at' = [at EXCEPT ![p] = IF pc'[p] = "run" THEN next ELSE @]

GiveFork(p, m, next) ==
  /\ os_mutex_give(p, m)
  /\ at' = [at EXCEPT ![p] = next]

(* The loop of philosopher_task. *)
philosopher_task(p) ==
  \/ at[p] = "THINKING"    /\ Sleep(p, "HUNGRY")
  \/ at[p] = "HUNGRY"      /\ TakeFork(p, low(p), "HOLDING_ONE")
  \/ at[p] = "HOLDING_ONE" /\ TakeFork(p, high(p), "EATING")
  \/ at[p] = "EATING"      /\ Sleep(p, "PUT_HIGH")
  \/ at[p] = "PUT_HIGH"    /\ GiveFork(p, high(p), "PUT_LOW")
  \/ at[p] = "PUT_LOW"     /\ GiveFork(p, low(p), "THINKING")

(* The loop of print_philosopher_stats: it reads and prints, and sleeps. *)
print_philosopher_stats ==
  /\ \E ticks \in Delays : os_delay(Printer, ticks)
  /\ UNCHANGED <<mutexVars, at>>

Kernel(A) == A /\ UNCHANGED <<mutexVars, at>>

PhilNext ==
  \/ Kernel(SysTick_Handler)
  \/ Kernel(SwitchStep)
  \/ \E t \in Tasks : Kernel(Yield(t))
  \/ \E p \in Philosophers : philosopher_task(p)
  \/ print_philosopher_stats

(***************************************************************************)
(* Fairness.  A philosopher sleeps 250 ticks at least and needs            *)
(* microseconds between two sleeps; the printer sends for less time than   *)
(* it sleeps.  So the CPU is idle again and again, and a task dispatched   *)
(* again and again executes.                                               *)
(***************************************************************************)
PhilFairness ==
  /\ WF_philVars(Kernel(SysTick_Handler))
  /\ WF_philVars(Kernel(SwitchStep))
  /\ []<>(TasksRun /\ os_current_task_ptr = idle)
  /\ \A p \in Philosophers :
       SF_philVars(Kernel(Yield(p)) \/ philosopher_task(p))
  /\ SF_philVars(Kernel(Yield(Printer)) \/ print_philosopher_stats)

PhilSpec == PhilInit /\ [][PhilNext]_philVars

PhilFairSpec == PhilSpec /\ PhilFairness
-----------------------------------------------------------------------------
(* Both forks are in p's hands from the return of the second take to the    *)
(* first give.                                                              *)
HoldsBoth(p) == at[p] \in {"EATING", "PUT_HIGH"}

(***************************************************************************)
(* Neighbours never hold the fork between them at the same time, although  *)
(* an eating philosopher sleeps and any number of others is dispatched.    *)
(***************************************************************************)
NeighboursExclude ==
  \A p \in Philosophers :
    ~ (HoldsBoth(p) /\ HoldsBoth((p + 1) % NUM_PHILOSOPHER))

(***************************************************************************)
(* No circular wait: get_forks orders the mutexes, so the philosophers are *)
(* never all parked on forks, in any interleaving of takes, wakeups and    *)
(* takes that came before the woken task.                                  *)
(***************************************************************************)
SomePhilosopherMoves ==
  \E p \in Philosophers : state[p] # "MUTEX_WAITING"

(***************************************************************************)
(* Meals go on: another one always begins, whoever barges in on whom and   *)
(* however long the chain of philosophers that wait for each other.        *)
(***************************************************************************)
MealBegins(p) == at[p] = "HOLDING_ONE" /\ at'[p] = "EATING"

MealsGoOn == []<><<\E p \in Philosophers : MealBegins(p)>>_philVars
-----------------------------------------------------------------------------
(***************************************************************************)
(* The inductive invariant behind NeighboursExclude and                    *)
(* SomePhilosopherMoves: a philosopher owns, once, the forks its place in  *)
(* the loop says, and a take it is inside is of the fork that place says.  *)
(***************************************************************************)
Places ==
  {"THINKING", "HUNGRY", "HOLDING_ONE", "EATING", "PUT_HIGH", "PUT_LOW"}

Has(p) ==
  CASE at[p] \in {"HOLDING_ONE", "PUT_LOW"} -> {low(p)}
    [] at[p] \in {"EATING", "PUT_HIGH"}     -> {low(p), high(p)}
    [] OTHER                                -> {}

ForksAsPlaced ==
  \A m \in Mutexes :
    /\ mutex[m].recursive_depth <= 1
    /\ \A t \in Tasks : Owns(t, m) <=> t \in Philosophers /\ m \in Has(t)

TakesAsPlaced ==
  \A t \in Tasks : pc[t] \in {"mutex_take", "mutex_yield"} =>
    /\ t \in Philosophers
    /\ \/ at[t] = "HUNGRY" /\ arg[t] = low(t)
       \/ at[t] = "HOLDING_ONE" /\ arg[t] = high(t)

PhilInv ==
  /\ MutexInv
  /\ at \in [Philosophers -> Places]
  /\ ForksAsPlaced
  /\ TakesAsPlaced
=============================================================================
