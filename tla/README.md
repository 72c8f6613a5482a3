# Verification of AstraRTOS

TLA+ models of the AstraRTOS kernel, the TLC runs that check them, and proofs
checked by TLAPS. Paths are relative to the repository. Every modelling
definition is tied to its source lines in `PROJECT.json` ("map").

## 1. The system

AstraRTOS is a preemptive, priority-scheduled kernel for one Cortex-M4. User
tasks are created by `main()`, `os_start()` adds an idle task and starts
SysTick; from then on the kernel is the code that tasks call with interrupts
masked (`cpsid i` ... `cpsie i`) and two exceptions: SysTick (priority 0, every
millisecond) and PendSV (lowest priority), which runs `os_schedule_next_task`
with interrupts enabled.

| Component | State | Operations | Interacts with | Hard parts | Correct when |
|---|---|---|---|---|---|
| Scheduler (`kernel/src/task.c`, `kernel/port`) | `os_tasks[]` (state, delay_ticks, waiting_for_resource, priority, base_priority), `os_current_task_ptr`, the PendSV bit | `os_task_create`, `os_start`, `os_delay`, `os_decrement_blocked_tasks`, `os_schedule_next_task`, SysTick and PendSV handlers | everything below writes its control blocks | ticks inside the scan and between a critical section and its yield; full table | no blocked task runs; a switch dispatches the best READY task; equals share the CPU; sleeps end |
| Mutex (`mutex.c`) | is_locked, task_num_owner, recursive_depth | init, take (a retry loop), give | reads and raises `priority` of the owner, wakes waiters | barging between wake and retry, recursion, inheritance through several mutexes | mutual exclusion; boosts neither stale nor lost; no lost wakeup; bounded inversion |
| Semaphore (`sem.c`) | count, max_count | init, take (a retry loop), give | gives from tasks and from timer callbacks in the tick | gives in bursts, at the maximum, from SysTick; barging | no permit stranded while tasks wait; the top waiter is served |
| Message queue (`queue.c`) | head, tail, count; nodes in the heap | init, send, receive, count | allocates and frees nodes outside its critical sections; wakes one task | nodes in the hands of preempted tasks; full test and parking in two sections | FIFO and one owner per node (until two heap calls overlap); no item stranded while receivers wait; a woken task not kept waiting by a lower one |
| First-fit heap (`heap.c`) | list of blocks | init, malloc, mfree | task creation, queue nodes | walks the list with interrupts enabled | blocks tile the arena; no overlap |
| TLSF (`tlsf.c`) | two-level free lists and bitmaps | create, malloc, free | nobody yet | class rounding, coalescing | as the heap; a large enough free block is found |
| Software timers (`timer.c`) | up to 10 timers: remaining, period, state | init, start, stop, reset, tick | callbacks run in SysTick | callbacks that restart timers; starts racing a tick | an armed timer fires once per period |
| UART (`drivers/src/uart.c`) | receive ring per port, the RXNE mask, the data register | IRQ handlers, receive_byte, polling receives, send_char and send_string | its handler preempts tasks and the scan, and pends PendSV | handler against reader; the mask and the timeout of the polls; no lock on the sending side | the ring is a FIFO; a poll reads the byte it saw and ends; lines under a mutex stay whole |
| Stack pool and task creation (`stack_pool.c`, `task.c`) | bump pointer, the table, one control block per task | `os_stack_pool_alloc`, `os_task_create`, `os_start` | heap, pool, MPU | table, heap or pool may refuse | all or nothing; stacks disjoint |
| MPU guard, overflow (`mpu.c`, `overflow.c`) | MPU registers | init; the guard region at each switch; MemManage | PendSV | the region must follow the running task | the runner is guarded, nobody else is |
| Statistics (`stats.c`, `task.c`) | run_count, stack_high_water | reads | dispatch | when the mark is taken | it never falls and covers the context the task runs on |
| Samples (`samples/*/main.c`) | forks, counters, timers | loops of tasks over the kernel's calls | mutexes, UART, timers | five mutexes taken in pairs; counting and printing under a mutex | no deadlock, exclusion, whole lines |
| PWM, GPIO, RCC, clock setup | registers | register writes | - | arithmetic of prescalers | - |

`PROJECT.json` lists all components with their status, and under "hazards" what
is hard to test in this code, each at its line, with the properties that watch
it.

## 2. Modules

| Module | Role |
|---|---|
| `Task` | the control blocks, SysTick, PendSV with the scan one iteration at a time, `os_delay`, and the operators the other modules share (park, wake, best waiter) |
| `Mutex` | extends `Task`: take and give with recursion and priority inheritance |
| `RecursiveLock` | abstract: what clients of a mutex may rely on |
| `Semaphore` | extends `Task`: take, give, and a give from a timer callback |
| `Queue` | extends `Task`: send and receive split at every point where they can be preempted; `Senders` and `Receivers` name the tasks that use each side |
| `BoundedFifo` | abstract: what clients of a queue may rely on |
| `Timer` | software timers: initialisation, the walk of the tick one slot at a time, callbacks, and the calls of tasks write by write |
| `Heap` | the first-fit block list, one loop iteration per step, any number of clients |
| `Stacks` | extends `Heap`: task creation with its failures, the stack pool, `os_start`, SVC, PendSV's contexts, the MPU guard, MemManage, high water marks |
| `Tlsf` | the two-level segregated fit allocator, a call per step |
| `Arena` | abstract: what clients of an allocator may rely on; `Heap` and `Tlsf` are checked against it |
| `UartReceive` | extends `Task`: the receive ring, its interrupt handler and reader, and the polling receives |
| `Printing` | extends `Mutex`: the sample mutex_basic over `uart_send_string` |
| `Philosophers` | extends `Mutex`: the sample dining_philosopher |
| `MCTask`, `MCMutex`, `MCSemaphore`, `MCQueue`, `MCTimer`, `MCUartReceive`, `MCPrinting`, `MCPhilosophers`, `MCStacks` | instances for TLC (`Heap` in the run `heap_race` and `Tlsf` need none) |
| `TaskProofs`, `MutexProofs`, `IpcProofs` (semaphores and queues), `StacksProofs` (heap and stacks), `StandaloneProofs` (software timers and TLSF, which no scheduler enters), `UartProofs`, `PrintingProofs`, `PhilosophersProofs` | theorems and proofs |

`Mutex`, `Semaphore`, `Queue` and `UartReceive` are `Task` with one more
component; `Printing` and `Philosophers` compose scheduler, mutexes and an
application, `Printing` the UART's sending side too; `Stacks` composes heap,
pool, table, context switch and MPU.

### How steps correspond to code

One step is a stretch of code that no interrupt can split. For a task that is a
critical section; the write of ICSR after it is a step of its own (`Yield`),
since SysTick may fire between the two. SysTick runs whole. PendSV has the
lowest priority and leaves interrupts enabled, so its loop is modelled one
iteration per step (`ScanOne`), with `SysTick_Handler` enabled between any two,
and the end of the scan (`Dispatch`) is its assignment of
`os_current_task_ptr`. `Running(t)` holds when the CPU executes task `t`: the
task is current, no scan is active and PendSV is not pending (a pending PendSV
is taken before the task's next instruction).

`pc[t]` says where in the kernel a task is: `"run"` is application code, a
`*_yield` label is the ICSR write that ends a blocking section, `mutex_take`,
`sem_take`, `queue_send`, `queue_receive` are the heads of the `while(1)`
loops to which woken tasks return, and the `queue_*` labels lie between the
queue's sections. `arg[t]` is the object of the call. Application tasks are
unconstrained: each may make any call, on any object, in any order, give a
mutex it does not own, or compute for ever. They never return, and `main()`
initialises every object before `os_start()`.

`waiting_for_resource` is not initialised by `os_task_create`; its first value
is the constant `HeapGarbage`, which the mutex run sets to a live mutex, so a
read of it would be noticed. `held` in `Mutex` is a history variable: it
counts the takes that returned to each task less its gives, and is what
`RecursiveLock` sees.

In `Queue` a heap call has two ends, with preemption between them: a send enters
`os_malloc` (`os_queue_send`) and comes out with a block (`SendAlloc`) or with
NULL (`SendFails`); a call of `os_mfree` begins (`MfreeBegins`) and ends
(`SendFree`, `ReceiveFree`). `in_heap` has the tasks inside. A call that is alone
in the heap takes or gives back one block: that is what the run `stacks` shows of
the code's loops, one caller at a time. As soon as a second task enters, the two
may do anything to the block list (`heap.c` runs with interrupts enabled, and the
run `heap_race` finds one block given to two callers): `EnterHeap` records it in
the history variable `heap_raced` and `LoseBlocks` gives up the nodes, the lists
and the payloads, whose variables stand for nothing from there on. So what is
said of nodes (one owner each, lists that are FIFOs) is said of executions up to
the first overlap, with tasks preempted anywhere, inside a heap call too, by tasks
that stay out of it. What is said of counts, wakeups and yields is said beyond it as
well, on the assumption that the damage stays in the blocks: the code after a race
may also follow a corrupted `next` out of the heap, which the model does not have.

A node that is not linked is in `node[t]`; the fields of a freed node are
abstracted to NULL. `switched` is a history variable too: SVC launches the first
task whatever its priority, so who runs is the scan's choice from the first switch on.

In `Timer` SysTick cannot be preempted by tasks, so `os_timer_tick` is a
sequence of steps (`TickBegins`, one `os_timer_tick` per slot, `TickEnds`)
during which clients stand still. A client's `os_timer_start` and
`os_timer_reset` are a step per write, and any number of ticks fits between
two; so is `os_timer_init`, which one task (`Creator`) calls at run time, as in
samples/software_timers: the fields, then the slot, then the count. A timer
that finds the table full ends there. A callback makes at most one call, on any
initialised timer. Nothing in the module depends on the scheduler: a client may
be anywhere between its writes, which covers every schedule. `begun` and `armed`
are history variables: the ticks since the last call that arms the timer began,
and ended; they stop counting just past the period.

In `Heap` and `Tlsf` addresses and sizes are small integers, headers sit in an
array indexed by address, and `regions`, a history variable, is what clients
were given: the view of `Arena`. A header that a merge absorbs in `Tlsf` is
replaced by `NoHeader`, since those bytes belong to the free block. The bitmaps
of `Tlsf` are the sets of their bits, `1 << n` is the function `Shift`, and a
value of the whole `tlsf_t` is a member of `Pools`, so that the code's helpers
are functions from `Pools` to `Pools`. The two flags share a word with the size
in the code, which the linker script allows: the pool is a multiple of
`TLSF_ALIGN`. 32-bit wrap is modelled in `Heap`'s rounding; in `Tlsf` no size
may come near it, because requests above the pool are refused before anything is
added to them, except the rounding to `TLSF_ALIGN`, whose wrap is not modelled.

In `UartReceive` the handler (`handle_irq`) is one step: its priority is
SysTick's, so it preempts tasks and PendSV but not SysTick. A task's accesses to
a register or to an index of the ring are a step each (`Step`), because nothing
in the driver masks interrupts. The handler pends PendSV without a tick; the
scheduler meets such a switch only here. `at[t]` is the task's place in the
driver; locals of a call are reset when it returns. `waited` is
`system_ticks - initial_ticks` up to the timeout, beyond which the code does not
tell values apart. A byte that finds the data register full is lost, as in
hardware. One task reads the ring and another polls; a string poll with room for
one character is `uart_receive_char_polling`.

`Printing` has the loop of task1 and task2 a step per access (`TakeUart`,
`Load`, `Store`, `SendWait`, `SendWrite`, `GiveUart`, `Sleep`), the peripheral's
`ShiftOut`, and tasks that compute or sleep and never print, which the sample
does not have and any application may add. A character is a record of who sent
it, its place in the line and the line's number; the counter is kept modulo
`WRAP`. `Philosophers` has a step per kernel call; a philosopher's place in its
loop is `at`.

In `Stacks` the heap is at the grain of `Heap`, and what surrounds its calls is
one step (`CreateBegin`, `CreateTask`, `CreateFails`). There is one thread until
`os_start()`, and the module assumes that no UART byte arrives that early
(section 6). After it, `TaskRuns` moves the stack pointer of the running task
within its stack, and `PendSV_Handler` saves the frame, takes any task and moves
the guard: which task is `Task`'s subject. Units are the code's: addresses,
`FRAME`, `STACK_ALIGN`, `Depths` and `stack_high_water` count bytes, `stack_size`
and the sizes asked for count words, and `Bytes` (`sizeof(uint32_t) *`,
`task.c:19`) goes from one to the other. `used` is the code's difference of byte
addresses, from the last word of the stack (`task.c:84`).

## 3. Properties and runs

| Run | Checks | Instance |
|---|---|---|
| `task` | `TaskTypeOK`, `RunnerIsReady`, `DispatchesHighest`, `RoundRobin`, `DelayExpires` | 3 tasks, two of the same top priority, and idle; delays 1 and 2 |
| `mutex` | `MutexTypeOK`, `NoStaleBoost`, `NoLostMutexWakeup`, `InheritsOrPending`, `ImplementsLock` | 3 tasks of 3 priorities, 2 mutexes, recursion to 2, delay 1 |
| `printing` | `LinesWhole`, `NoUnboundedInversion` | printers of priority 1, 3 and 3, a computing task of priority 2, lines of 2 characters, numbers modulo 3 |
| `philosophers` | `NeighboursExclude`, `SomePhilosopherMoves`, `MealsGoOn` | 3 philosophers and the printer, delays 1 and 2 |
| `semaphore` | `SemTypeOK`, `NoStrandedPermit`, `TopWaiterServed` | 3 tasks; a pool of 2 permits given by tasks, an event semaphore of maximum 1 given by tasks and by a callback |
| `queue` | `QueueInv` (`QueueTypeOK`, `BlocksOwned` until a race), `FifoUntilRace`, `NoStrandedItem`, `NobodyOutranksRunner` | 3 tasks of which two send and two receive, 1 queue of 2 items, 3 nodes, 2 payloads |
| `timer` | `TimerTypeOK`, `SlotsFilled`, `NotEarly`, `NeverOverdue` | 2 slots; a one-shot timer of period 3, a periodic one of period 2, a third that finds the table full; 2 clients |
| `uart_receive` | `UartInv` (`UartTypeOK`, `PollOwnsByte`), `RingIsFifo`, `PollEnds` | a reader and a poller of equal priority; ring of 3, two kinds of bytes, one a terminator; strings of 1 and 2, timeout 1 |
| `stacks` | `StacksInv` (`StacksTypeOK`, `StacksApart`), `BlocksTile`, `FindsRoom`, `CreationAllOrNothing`, `ImplementsArena`, `GuardFollows`, `HighWaterHolds` | an arena of 18 for blocks of 4 (control blocks) and 5, a pool of 352 bytes for stacks of 24 and 28 words, up to 3 tasks |
| `tlsf` | `TlsfInv` (`TlsfTypeOK`, `PoolTiled`, `RegionsFit`), `IndexExact`, `GoodFit`, `TlsfImplementsArena` | a pool of 40, headers of 2, least block 4, 4 levels of 2 classes; requests of 0, 1, 5, 9 and one too large |
| `queue_lost_wakeup`, `heap_race` | one property each, violated | section 6 |

The instances are small, and large enough for what they ask. Three priorities
are what an inversion needs (low owner, middle runner, high waiter), two
mutexes what a boost inherited twice needs, three tasks what barging needs (an
owner, a woken waiter, a third that comes first), depth 2 what tells an inner
give from an outer one. Two items and three nodes let a queue be empty, partly
full, full while a sender holds a node, and let the heap run out. Two equal
tasks and the idle task make the round robin wrap; a delay of 2 is counted
down twice. With one task that only sends, one that only receives and one that
does both, both sides of the queue have two users, and any two of them can meet
in the heap: that run has 1.4 million states and takes two minutes, the longest. A one-shot timer with a
periodic one behind it has callbacks that arm a slot already passed and one
still to come; two slots for three timers fill the table. A ring of 3 holds two
bytes and wraps on the third; with a timeout of 1 a poll is met before, at and
after it. Two equal printers above the computing task contend with each other
while the third inherits; lines of two have a first and a last character.
Three philosophers are the least that can wait in a circle with every fork
between two different neighbours (five, as in the sample, are beyond TLC; the
theorems cover them). The arena of `stacks` takes control blocks and other
blocks among them, with exact fits and remainders too small to split; the pool
takes three stacks or only two, at addresses that alignment moves, so that each
of the three refusals (table, heap, pool) happens. The pool of 40 gives blocks
in every class from 4 to 38, so that rounding up crosses classes and levels; as
in the source, the least block is the first size that has a level of its own.
Nodes and payloads are interchangeable, so the queue's runs use symmetry (they
check safety only).

`HeapInv` is evaluated as a part of `StacksInv`, `LocalsFollow` of `QueueInv`:
the strengthenings that the proofs of section 4 need are checked by the runs that
check the properties they strengthen.

`MaxDepth` bounds `recursive_depth` (an `int`), `WRAP` the counter of
`Printing`, `MaxChars` the room of a string poll, `Depths` what a task pushes;
`TIMEOUT`, ages and sizes are scaled, not cut off.

Deadlock is checked in every run but `stacks`, where the handler of a stack
overflow loops for ever (`overflow.c`): `CHECK_DEADLOCK FALSE` there.

### Fairness

Liveness is checked under assumptions the hardware and the code justify:

- SysTick is weakly fair: the timer is never disabled. So is the UART's handler,
  and so is the shift register of its sending side.
- PendSV, once pending, proceeds (`WF SwitchStep`): nothing runs for ever above
  it. In `UartReceive` the handler may interrupt it again and again, and it is
  strongly fair: a byte takes a millisecond, the scan microseconds.
- `[]<>TasksRun` (printing; the same formula in semaphore): a tick comes every
  180000 cycles and the handlers need some hundreds, so tasks execute between
  ticks. Without this the model could preempt every task at every instant.
- `philosophers`: again and again the idle task executes. A philosopher sleeps at
  least 250 ticks between microseconds of work, and the printer sends for less
  time than it sleeps, so the CPU has nothing else to do.
- a task dispatched again and again executes its next step **inside the kernel**,
  or of its own loop in the two samples (strong fairness; it is off the CPU
  between slices). Nothing makes other application code call the kernel, and the
  computing task of `Printing` may compute for ever.
- `uart_receive`: a poller that is current again and again executes.
- `semaphore`: the timer whose callback gives the semaphore is periodic.

## 4. What is proved

TLAPS checks, for any table size, number of tasks, priorities, delays,
mutexes, semaphores, queues, timers, size of the ring, of the arena, of the pools
and of what is asked of them, number of TLSF classes, and bounds:

| Theorem | Property | Assumes |
|---|---|---|
| `TaskTypeCorrect` | `TaskTypeOK` | `TaskAssumption` |
| `RunnerAlwaysReady` | `RunnerIsReady` | and `IdleRegistered` |
| `AlwaysDispatchesHighest` | `DispatchesHighest` | and `IdleRegistered` |
| `MutexTypeCorrect` | `MutexTypeOK` | `MutexAssumption`, `IdleRegistered` |
| `BoostNeverStale` | `NoStaleBoost` | same |
| `MutexWakeupsArrive` | `NoLostMutexWakeup` | same |
| `InheritanceSurvivesBarging` | `InheritsOrPending` | same |
| `MutexImplementsLock` | `ImplementsLock` (refinement of `RecursiveLock`) | same |
| `SemTypeCorrect` | `SemTypeOK` | `SemAssumption`, `IdleRegistered` |
| `PermitsNeverStranded` | `NoStrandedPermit` | same |
| `BlocksNeverLost` | `QueueInv` | `QueueAssumption`, `IdleRegistered` |
| `ItemsNeverStranded` | `NoStrandedItem` | same |
| `RunnerNeverOutranked` | `NobodyOutranksRunner` | same |
| `ListsAreFifos` | `FifoUntilRace` (steps of `BoundedFifo` until two heap calls overlap) | same |
| `NeighboursAlwaysExclude` | `NeighboursExclude` | `PhilosophersAssumption`, `IdleRegistered` |
| `SomePhilosopherAlwaysMoves` | `SomePhilosopherMoves` | same |
| `LinesAlwaysWhole` | `LinesWhole` | `PrintingAssumption`, `IdleRegistered` |
| `PollAlwaysOwnsByte` | `UartInv` | `UartReceiveAssumption` |
| `RingAlwaysFifo` | `RingIsFifo` (refinement of `BoundedFifo`) | same |
| `TimerTypeCorrect` | `TimerTypeOK` | `TimerAssumption`, `InitialisedOnce` |
| `SlotsAlwaysFilled` | `SlotsFilled` | same |
| `NeverEarly` | `NotEarly` | same |
| `NoneOverdue` | `NeverOverdue` | same |
| `StacksStayApart` | `StacksInv` | `HeapAssumption`, `StacksAssumption` |
| `ListTilesArena` | `BlocksTile` | same |
| `FirstFitFinds` | `FindsRoom` | same |
| `NoBlockLeaks` | `CreationAllOrNothing` | same |
| `GuardBelowRunner` | `GuardFollows` | same |
| `HeapIsAnArena` | `ImplementsArena` (refinement of `Arena`) | same |
| `HighWaterRises` | `HighWaterHolds` | same |
| `PoolStaysTiled` | `TlsfInv` | `TlsfAssumption` |
| `IndexStaysExact` | `IndexExact` | same |
| `SearchIsGoodFit` | `GoodFit` | same |
| `TlsfIsAnArena` | `TlsfImplementsArena` (refinement of `Arena`) | same |

`PhilosophersUseMutexes` and `PrintersUseMutexes` prove that every behaviour of
the two applications is a behaviour of `MutexSpec`, so all that is proved of
mutexes holds in them.

`IdleRegistered` says the table has room for the idle task (without it
`RunnerIsReady` fails, section 6); `InitialisedOnce` that no timer is passed to
`os_timer_init` twice, which would register it in two slots and count it down
twice per tick.

**Scheduler.** `RunnerIsReady` is not inductive: whether the current task is
READY after a switch depends on what the scan chose. The inductive `SchedInv`
adds that the idle task is always READY, that what is chosen is READY and
stays so (a tick only makes tasks READY), that the scan cannot pass the idle
task without choosing somebody, and that, unless a tick came in between, the
choice is the best of the tasks visited (`BestSoFar`). The lemma
`ScanVisitsAll` is the arithmetic of the loop: `os_task_count` increments
modulo `os_task_count` visit every index. `SchedInv` is stated on the
scheduler's steps separately (`SchedTick`, `SchedScanOne`, ...) and for a
generic step that keeps what it needs, so other components reuse it.

**Mutex.** `NoLostMutexWakeup` and `InheritsOrPending` are instances of one
inductive fact, `WaitersDriven`: each parked waiter has the owner of its mutex
running at least at its base priority, or a woken task of at least that
priority that will try the mutex. A give keeps it because it wakes the *best*
waiter by effective priority; a barging take keeps it because the woken task is
still there and boosts the new owner when it fails; `new_priority` keeps it for
the owner's other mutexes. With it go the types, `SchedInv`, the history
variable's meaning (`HeldByOwner`), and `WaitersInside`, which rules out that a
`MUTEX_WAITING` task has garbage in `waiting_for_resource`.
`TaskProofs` proves that the scan for the best waiter has a result
(`BestIsBest`): a finite non-empty set has an element that no other beats. It is
proved by counting: each task is beaten by fewer tasks than any it beats, and
the pigeonhole principle gives one that none beats.

**Induction.** The library's induction theorems take an operator as a parameter,
which the provers cannot instantiate. Where a proof needs induction over numbers
it takes the least counterexample, which `LeastNumber` gives for a set of
naturals: that a recursive function (`NodeAt` of a queue, `ReachedIn` of the
heap, `Chain` and `Shift` of TLSF) exists, that it is the only one its equation
has, and what it computes.

**Semaphore.** `NoStrandedPermit` is inductive with `SemWaitersInside` and
`SchedInv`: the permits in the count are matched by woken tasks about to try.
A give adds one permit and, if anybody waits, one retrier; a take removes one
permit and at most one retrier; a task parks only when the count is zero. The
lemmas `GiveCounts` and `PermitMatched` are that arithmetic over the
cardinality of the retriers.

**Queue.** `IpcProofs` holds both components' theorems; neither uses the other's
constants. `QueueInv` has the types, `SchedInv` and what a task between two
sections knows (`LocalsFollow`); and until two heap calls overlap `BlocksOwned`:
`BlocksAccounted` (a block is free, in the hands of one task, or in one list at one
place; the list of a queue has as many blocks as its count says and ends at its
tail), `ListsEnd`, and `HandOf` (a task holds a node exactly at the labels between
`os_malloc` and linking, or between unlinking and the end of `os_mfree`). It is
inductive because no step clears `heap_raced`: a step that begins without a race
either keeps `BlocksOwned` or is the entry of a second task, after which nothing
of it is claimed (`EnterFacts`). Each lemma of a step ends in `Quiet` for the steps
that may not show in a list: a race, or contents unchanged. The proof works with
`Apart`, the same fact as `BlocksAccounted` place by place (`ApartIsAccounted`),
since cardinalities say little to a solver. The list is `NodeAt`, a recursive
function over the `next` fields: `ListKept`, `ListGrows` and `ListShrinks` say what
a write to a block outside the list, linking at the tail and unlinking at the head
make of it. Only linking and unlinking disturb more than one conjunct
(`PlacedLink`, `PlacedUnlink`).

`NoStrandedItem` is the semaphore's argument on receivers: a send adds one item
and wakes one receiver, a receive takes one item and is at most one of those about
to try. The other direction, that no *sender* sleeps while there is room, is false
(section 6). For `NobodyOutranksRunner` a step belongs to the task that executes,
and then it wakes nobody or leaves the task owing a yield (`OwnStepRanks`), a free
included; or it leaves nobody executing (`NoRunnerRanks`); or it is the end of a
scan, which dispatched the best (`SwitchRanks`, from `SchedInv`). In the refinement
of `BoundedFifo` `SendLink` is `Send`, the unlinking is `Receive`, both by lemmas
that turn the list into a sequence (`LinkAppends`, `UnlinkTakesHead`), and every
other step stutters or follows a race.

**Heap.** `HeapInv` says of the list that it tiles the arena (`Tiling`: each block
ends where the next begins, the last at the end of the arena, and all but the head have
a predecessor), that the blocks in use are exactly those handed out
(`RegionsAreBlocks`), and of the call under way that the search has passed no
block that fits and the merge has left no free neighbours behind it (`WalksOn`).
All of it rests on `OneInside`, at most one caller in `os_malloc` or `os_mfree`,
which `Stacks` establishes since `main()` makes all the calls one after the
other; the run `heap_race` shows what happens without it. `TilingReached` says
that a set which tiles the arena is what the walk along `next` reaches, so
that a split or a merge is proved on the set (`TilingSplit`, `TilingMerge`) and
carried over to the walk. `FirstFitFinds` then needs that a hole between used
blocks lies in one free block, since no two free blocks are neighbours; that is
where an incomplete merge would be noticed. In the refinement of `Arena` the
step that marks a block (`Take`) is `Alloc`, `os_mfree`'s clearing of the mark is
`Free`, and splits, merges and searches change no region.

**Stacks.** `StacksInv` adds to `HeapInv` that `main()` holds the control blocks
of the tasks in the table and, between `os_malloc` and the end of
`os_task_create`, one more (`ControlBlocks`); that stacks lie in the order of
their creation, aligned, each below the next, with a whole context in each
(`StacksStacked`, from which `StacksApart` follows); and that the process stack
pointer of the running task and the guard are at its own stack (`RunnerFits`).
Alignment is arithmetic on `%`, which the solver needs in small steps
(`MultipleOf`, `AlignedUp`, `AlignedStep`: rounding up gives a multiple, at most
`STACK_ALIGN` - 1 higher). `HighWaterRises` is a property of every step: the
mark moves only in a switch, upwards, and to the bytes of the context less one word;
that it stays below the bytes of the stack follows from the whole context that
`StacksStacked` finds in it, and `LastWord` is the arithmetic of the code's
`stack_size - 1`.

**Philosophers.** `PhilInv` adds to `MutexInv` that a philosopher owns, at depth
one, exactly the forks its place in the loop says (`ForksAsPlaced`), and that a
take it is inside is of the fork that place says (`TakesAsPlaced`). Two
neighbours that both hold both forks would own the fork between them. If all
were parked, each would wait for a fork that another one owns
(`NoLostMutexWakeup`: were it free, somebody woken would be about to take it, and
nobody is). Take the highest fork waited for: its owner waits for a fork too, as
its second, and so for a higher one.

**Printing.** `PrintInv` adds `SectionOwned` (exactly the printer between its
take and its give owns the mutex) and `LineSoFar` (what it is about to send
continues what was sent last, and between its test of TXE and its write the data
register stays empty). That `LineSoFar` survives another printer's step is
where the mutex is needed.

**UART.** `ReceiveInv` adds to `UartInv` that RXNE is masked from the test of a
poll to its read of DR, and that the ring is not empty between the reader's test
and its write of tail: the handler only adds. The refinement maps the ring to
its stored bytes, less the one the reader has copied and not released. Its core
is two lemmas about indices modulo the size, `PutIsAppend` and `TakeIsTail`; one
slot always stays empty, which is why a full ring never looks empty.

**Timers.** A counter and the age of its timer add up to the period, but for the
tick under way: a slot it has not visited yet is one tick older than its counter
tells (`StillToCome`). `CountersNotEarly` and `CountersNotLate` are the two sides
of that equation, the first against the start of the last arming call, the
second against its end; between the two writes of a call only the first is
claimed. `InitInTurn` keeps a timer whose initialisation is under way out of
everybody's reach.

**TLSF.** `TlsfAssumption` asks of the configuration in `tlsf.h` what the code
relies on: a least block not below the first level (`1 << TLSF_OFFSET`), no more
second levels than a class has sizes, and a pool that is smaller than the last
class. The proof has four layers.
*Sizes:* `InClass` says by two inequalities what a class holds, `ClassFacts` that
`mapping_insert` computes it; from them `SearchFits` (every block of a class the
search may reach is large enough) and `SearchMisses` (a block in no such class is
smaller than the request and one part in `TLSF_SLI_COUNT` more). Both are
arithmetic of `Shift`, `\div` and `%`.
*Lists:* `Chain` is used only through three facts: it holds its first element, is
closed under its successor, and is the least such set. With them `Laid` describes
the walk along the pool and `Linked` a doubly linked list, and `InsertIndex` and
`RemoveIndex` say what `insert_free_block` and `remove_free_block` make of lists
and bitmaps.
*Blocks:* `Settled` is the state between two calls. Inside a call one free block
is in no list and the block behind it may not know of it: `Loose`, which is what
freeing a block (`FreedIsLoose`), taking one out of its list (`TakenIsLoose`) and
absorbing the next one (`AbsorbIsLoose`) establish. `LooseSettles` ends the call:
`TellNext` and the insertion restore `Settled`, provided neither neighbour is free,
which is why both merges are needed. A split is the same lemma for the
remainder.
*Calls:* the inductive invariant `Sound` is `Settled` with the regions given out
being the blocks in use (`Fitted`); `MallocKeepsSound` and `FreeKeepsSound` are its
two steps, and `TlsfInv`, `IndexExact` and `GoodFit` follow from it. Since the
blocks tile the pool, two regions of different blocks are disjoint, and the calls
map to `Alloc` and `Free` of `Arena`.

All these invariants were checked by TLC on the instances above before they
were proved; of `Sound`, the run checks what it says of the reachable blocks, which
is `TlsfInv` and `IndexExact`.

Every safety property that a passing run checks is proved. Only model-checked: the
liveness properties (fairness and ENABLED are out of the prover's reach), which
are `RoundRobin`, `DelayExpires`, `TopWaiterServed`, `NoUnboundedInversion`,
`MealsGoOn` and `PollEnds`; and the two runs that end in a violation. `Heap` with
several callers inside at once has no theorem because it is not correct there.
RECURSIVE operators, which the prover does not support, are not used in any
module.

## 5. Not modelled, and why

- What `HardFault_Handler` and `MemManage_Handler` print, the vector table, the
  copy of .data and the clock setup: they run once, or end the program.
- RCC, GPIO and PWM registers, baud rate, frame format and pins: I/O without
  state that a property could speak of.
- `run_count`, which only `os_task_get_stats` reads, and the 32-bit wrap of
  `run_count` and `system_ticks`. The polling receive compares
  `system_ticks - initial_ticks` unsigned, which the wrap does not disturb.
- Two tasks that call `os_timer_init` at once, and a timer initialised twice: in
  the repository one task initialises each timer once.
- Two readers of one UART's ring, and two pollers: the driver gives them no
  protection and the repository has none.
- A task that pushes beyond its stack: what it destroys before the guard or the
  frame of an exception stops it is memory the model does not have. A frame that
  meets the guard is modelled.
- Stacks of fewer than 16 words (`task.c:24` would lay the first frame below the
  base): every stack in the repository has 64 words or more.
- Freeing what was not allocated, or twice: no caller in the kernel does.
- `os_sem_give` and `os_mutex_give` do not pend PendSV, so a woken task of
  higher priority runs at the next tick or yield, unlike one woken through a
  queue (`NobodyOutranksRunner`). The modules have this behaviour; nothing in the
  repository promises semaphores and mutexes the quicker switch.
- The wrap of `ALIGN` in `heap.c:23` for requests near 2^32 is in `Heap`
  (`WORD`); no instance asks for so much, since no caller does.
- The other samples (queue_mutex, sem_basic, stats_basic, blink_multi_task): the
  kernel modules let tasks make any call, which includes what they do.

## 6. Findings

Two properties the repository promises are violated by what the code does:

- `queue_lost_wakeup`: a sender preempted between the full test (`queue.c:84`)
  and its parking (`queue.c:88`) misses the wakeup of the receive that drains
  the queue; then the sender and the receiver wait for the same queue for ever.
- `heap_race`: `os_malloc` tests `is_free` and clears it with interrupts
  enabled (`heap.c:29`). Queue operations call it outside their critical
  sections, so two senders, one preempted in between, are given the same node.
  What `queue` and the theorems of `IpcProofs` say of nodes holds up to the moment
  in which a second task enters the heap, and not beyond.

Observations met while modelling, which no run checks as a violation:

- `os_delay(0)` never returns (`task.c:51`, `task.c:59`): the tick skips a
  counter that is zero. With 0 among `Delays`, `DelayExpires` is violated.
- With `OS_MAX_TASKS_NUM` user tasks `os_start` gets no idle task and does not
  look (`task.c:102`). When all tasks block, the last one goes on running:
  `RunnerIsReady` is violated without `IdleRegistered`.
- Inheritance is not transitive (`mutex.c:28`): the owner's own wait for a second
  mutex does not pass the boost on. With four philosophers and sleeps as short
  as the time between two preemptions the top one can starve.
- The guard region takes the lowest 32 bytes of the stack itself;
  `docs/blogs/mpu.md:7` places it below. The first task is launched by SVC without
  a guard (`startup_stm32f429zi.s:110`) and has one from its next dispatch on.
- The high water mark is one word short of the context and counts bytes, and
  samples/stats_basic prints it next to `stack_size`, which counts words.
- A string poll unmasks RXNE between two characters (`uart.c:178`), so the handler
  may take one of them into the ring. At its timeout the poll leaves RXNE masked
  (`uart.c:174`): no byte reaches the ring until a later poll succeeds.
- `UART_IRQ_TXE` enables an interrupt that no code serves (`uart.c:121`).
- A byte between `uart_init` and `os_start` pends PendSV in `main()`, when no
  process stack pointer is set (`uart.c:223`).
- `gpio_set_mode` reads and writes MODER in two statements (`gpio.c:6`); tasks that
  configure pins of one port at run time may lose an update.
- `pwm_config_timer` takes the bus clock for the timer's clock (`pwm.c:114`); on
  this part a timer runs at twice the clock of a bus whose prescaler is not 1.

## 7. Plan

Done: the kernel's components (`Task`, `Mutex`, `Semaphore`, `Queue`, `Timer`,
`Heap`, `Tlsf`) with their abstractions; `UartReceive`; `Stacks`; the samples
`Philosophers` and `Printing`; the proofs of section 4.

Left:

1. A queue on the heap of module `Heap`, step by step: with which critical sections
   around its calls `heap_raced` can be dropped from the queue's properties.
2. The rounding of a request near 2^32 in `tlsf.c`, which wraps before the comparison
   with the pool.
