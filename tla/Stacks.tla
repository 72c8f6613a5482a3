------------------------------- MODULE Stacks -------------------------------
(***************************************************************************)
(* Task creation and stacks: os_task_create() takes a control block from   *)
(* the heap and a stack from the stack pool and lays out the first frame;  *)
(* os_start() launches the first task through SVC_Handler; PendSV_Handler  *)
(* saves and restores contexts on the stacks and moves the guard region of *)
(* the MPU (apply_guard_region, os_mpu_configure_region).                  *)
(*                                                                         *)
(* Until os_start() there is one thread, main(), and no interrupt touches  *)
(* what it builds, unless main() has enabled a UART's and a byte comes     *)
(* that early.  Which task a switch takes is module Task's subject and     *)
(* free here.  Stack addresses are bytes from &_sstacks; stack_size alone  *)
(* counts words, as the code's fields do.                                  *)
(***************************************************************************)
EXTENDS Heap, Sequences

CONSTANTS
  OS_MAX_TASKS_NUM,
  Main, App,       \* os_task_create's use of the heap, and all other of main()
  TCB,             \* sizeof(os_tcb_t)
  WORD_BYTES,      \* sizeof(uint32_t)
  StackPool,       \* &_estacks - &_sstacks
  STACK_ALIGN,     \* 32 bytes, of a stack and of a region of the MPU
  FRAME,           \* the bytes of a saved context, 16 words
  StackSizes,      \* the stacks main() asks for, in words
  IdleStack,       \* that of the idle task, in words
  Depths           \* the bytes a task has on its stack when it is switched out

Bytes(words) == WORD_BYTES * words

(* The linker script aligns &_sstacks, so offset 0 is an aligned address;  *)
(* every stack has room for its first frame, and its bytes fit a uint32_t. *)
ASSUME StacksAssumption ==
  /\ OS_MAX_TASKS_NUM \in Nat \ {0}
  /\ Clients = {Main, App} /\ Main # App
  /\ {TCB, WORD_BYTES, STACK_ALIGN} \subseteq Nat \ {0} /\ Depths \subseteq Nat
  /\ FRAME \in Nat /\ FRAME >= WORD_BYTES
  /\ StackPool \in 0 .. WORD - STACK_ALIGN
  /\ StackSizes \cup {IdleStack} \subseteq Nat
  /\ \A size \in StackSizes \cup {IdleStack} : Bytes(size) \in FRAME .. WORD - StackPool

VARIABLES
  stack_pool_ptr,
  os_tasks,             \* the created tasks' control blocks, in order
  os_current_task_ptr,  \* a task number, 0 for none
  creating,             \* stack_size of the os_task_create under way, or 0
  boot,                 \* "main", "start", "tasks", or "fault" for good
  psp,                  \* the stack pointer of the running task
  guard                 \* the base of region 1 of the MPU, or NoGuard

bootVars  == <<stack_pool_ptr, os_tasks, os_current_task_ptr, creating>>
cpuVars   == <<boot, psp, guard>>
stackVars == <<heapVars, bootVars, cpuVars>>

NoGuard == -1

StacksInit ==
  /\ HeapInit
  /\ stack_pool_ptr = 0
  /\ os_tasks = <<>>
  /\ os_current_task_ptr = 0
  /\ creating = 0
  /\ boot = "main"
  /\ psp = 0
  /\ guard = NoGuard

(* main() is between two calls. *)
MainCalls ==
  /\ boot = "main" /\ creating = 0
  /\ \A c \in Clients : pc[c] = "run"
-----------------------------------------------------------------------------
(* os_mpu_init: it has no effect once a task exists. *)
os_mpu_init ==
  /\ MainCalls
  /\ os_current_task_ptr = 0
  /\ mpu_status' = 1
  /\ UNCHANGED <<block, locals, regions, bootVars, cpuVars>>

(* What else main() takes from the heap and gives back. *)
AppHeap ==
  /\ MainCalls
  /\ \/ \E size \in Sizes : os_malloc(App, size)
     \/ \E r \in regions[App] : os_mfree(App, r)
  /\ UNCHANGED <<bootVars, cpuVars>>

(* os_malloc and os_mfree go on; a control block that is refused ends the  *)
(* call of os_task_create.                                                 *)
HeapGoesOn ==
  /\ \E c \in Clients :
       \/ (Search(c) \/ Take(c) \/ Merge(c) \/ MergeEnds(c)) /\ UNCHANGED creating
       \/ GiveUp(c) /\ creating' = 0
  /\ UNCHANGED <<stack_pool_ptr, os_tasks, os_current_task_ptr, cpuVars>>
-----------------------------------------------------------------------------
TableFull == Len(os_tasks) >= OS_MAX_TASKS_NUM

(* os_task_create: the table has room, and a control block is asked for. *)
CreateBegin(size) ==
  /\ ~ TableFull
  /\ os_malloc(Main, TCB)
  /\ creating' = size
  /\ UNCHANGED <<stack_pool_ptr, os_tasks, os_current_task_ptr>>

os_task_create(size) == MainCalls /\ CreateBegin(size) /\ UNCHANGED cpuVars

(* os_stack_pool_alloc: the address it tries, and its test. *)
StackAt == AlignedTo(stack_pool_ptr, STACK_ALIGN)

(* The test on the address before it is aligned. *)
StackFits_before == stack_pool_ptr + Bytes(creating) <= StackPool

StackFits == StackAt + Bytes(creating) <= StackPool

(* The pool pointer that forgets the bytes the alignment skipped. *)
PoolAfter_size == stack_pool_ptr + Bytes(creating)

PoolAfter == StackAt + Bytes(creating)

(* The control block that os_malloc has just returned. *)
NewTcb == CHOOSE r \in regions[Main] : r.at = current[Main] + HEADER

HasTcb == creating > 0 /\ pc[Main] = "run"

CreateFails_leak ==
  /\ HasTcb /\ ~ StackFits
  /\ creating' = 0
  /\ UNCHANGED <<heapVars, stack_pool_ptr, os_tasks, os_current_task_ptr, cpuVars>>

(* The pool refuses the stack: the control block goes back. *)
CreateFails ==
  /\ HasTcb /\ ~ StackFits
  /\ os_mfree(Main, NewTcb)
  /\ creating' = 0
  /\ UNCHANGED <<stack_pool_ptr, os_tasks, os_current_task_ptr, cpuVars>>

(* The first frame lies at the top of the stack. *)
CreateTask ==
  /\ HasTcb /\ StackFits
  /\ stack_pool_ptr' = PoolAfter
  /\ os_tasks' = Append(os_tasks,
       [tcb |-> NewTcb.at, stack_base |-> StackAt, stack_size |-> creating,
        stack_ptr |-> StackAt + Bytes(creating) - FRAME, stack_high_water |-> 0])
  /\ os_current_task_ptr' = IF os_tasks = <<>> THEN 1 ELSE os_current_task_ptr
  /\ creating' = 0
  /\ UNCHANGED <<heapVars, cpuVars>>
-----------------------------------------------------------------------------
(* os_start: the idle task, created if it can be (main() has created one). *)
os_start ==
  /\ MainCalls
  /\ os_tasks # <<>>
  /\ boot' = "start"
  /\ \/ CreateBegin(IdleStack)
     \/ TableFull /\ UNCHANGED <<heapVars, bootVars>>
  /\ UNCHANGED <<psp, guard>>

Top(t) == t.stack_base + Bytes(t.stack_size)

(* SVC 0: the first task starts with an empty stack, without a guard. *)
SVC_Handler ==
  /\ boot = "start" /\ creating = 0 /\ pc[Main] = "run"
  /\ boot' = "tasks"
  /\ psp' = os_tasks[os_current_task_ptr].stack_ptr + FRAME
  /\ UNCHANGED <<heapVars, bootVars, guard>>

Runner == os_tasks[os_current_task_ptr]

Guarded == IF guard = NoGuard THEN {} ELSE guard .. guard + STACK_ALIGN - 1

(* The running task calls and returns: it leaves room in its stack for the *)
(* frame of an exception.                                                  *)
Push(depth) ==
  /\ depth + FRAME <= Bytes(Runner.stack_size)
  /\ psp' = Top(Runner) - depth
  /\ UNCHANGED <<heapVars, bootVars, boot, guard>>

(* apply_guard_region: base & ~0x1F. *)
GuardOf(t) == IF mpu_status = 1 THEN t.stack_base - (t.stack_base % STACK_ALIGN)
                                ELSE guard

(* The switch that moves the guard before it takes the next task. *)
GuardAfter_stale(next) == GuardOf(Runner)

GuardAfter(next) == GuardOf(os_tasks[next])

(* The difference of the pointers without the casts to uint8_t. *)
used_words(t) ==
  (t.stack_base + Bytes(t.stack_size - 1) - t.stack_ptr) \div WORD_BYTES

(* The deepest context a task was resumed with, but for one word: the bytes *)
(* from &stack_base[stack_size - 1] down to its saved stack pointer.        *)
used(t) == t.stack_base + Bytes(t.stack_size - 1) - t.stack_ptr

high_water_last(t) == used(t)

high_water(t) ==
  IF used(t) > t.stack_high_water THEN used(t) ELSE t.stack_high_water

FrameMeetsGuard == (psp - FRAME .. psp - 1) \cap Guarded # {}

(* The frame of the running task is stored, the next one's is loaded. *)
PendSV_Handler(next) ==
  /\ ~ FrameMeetsGuard
  /\ LET saved ==
           [os_tasks EXCEPT ![os_current_task_ptr].stack_ptr = psp - FRAME]
     IN  os_tasks' =
           [saved EXCEPT ![next].stack_high_water = high_water(saved[next])]
  /\ os_current_task_ptr' = next
  /\ psp' = os_tasks'[next].stack_ptr + FRAME
  /\ guard' = GuardAfter(next)
  /\ UNCHANGED <<heapVars, stack_pool_ptr, creating, boot>>

(* A frame that meets the guard: the handler prints and loops for ever. *)
MemManage_Handler ==
  /\ FrameMeetsGuard
  /\ boot' = "fault"
  /\ UNCHANGED <<heapVars, bootVars, psp, guard>>

TaskRuns ==
  /\ boot = "tasks"
  /\ \/ \E depth \in Depths : Push(depth)
     \/ \E next \in 1 .. Len(os_tasks) : PendSV_Handler(next)
     \/ MemManage_Handler

StacksNext ==
  \/ os_mpu_init \/ AppHeap \/ HeapGoesOn
  \/ \E size \in StackSizes : os_task_create(size)
  \/ CreateTask \/ CreateFails
  \/ os_start \/ SVC_Handler
  \/ TaskRuns

StacksSpec == StacksInit /\ [][StacksNext]_stackVars
-----------------------------------------------------------------------------
StacksTypeOK ==
  /\ HeapTypeOK
  /\ stack_pool_ptr \in 0 .. StackPool
  /\ os_tasks \in Seq([tcb : 0 .. ArenaSize, stack_base : 0 .. StackPool,
                       stack_size : {IdleStack} \cup StackSizes,
                       stack_ptr : 0 .. StackPool, stack_high_water : 0 .. StackPool])
  /\ Len(os_tasks) <= OS_MAX_TASKS_NUM
  /\ os_current_task_ptr \in 0 .. Len(os_tasks)
  /\ creating \in {0, IdleStack} \cup StackSizes
  /\ boot \in {"main", "start", "tasks", "fault"}
  /\ psp \in 0 .. StackPool
  /\ guard \in {NoGuard} \cup 0 .. StackPool

(***************************************************************************)
(* Every task has its stack to itself, in the pool, and every context      *)
(* lies in the stack of its task, after any sequence of creations (those   *)
(* that fail included), calls and switches.                                *)
(***************************************************************************)
Stack(t) == t.stack_base .. Top(t) - 1

StacksApart ==
  \A i \in DOMAIN os_tasks :
    LET t == os_tasks[i]
    IN  /\ Stack(t) \subseteq 0 .. StackPool - 1
        /\ t.stack_ptr .. t.stack_ptr + FRAME - 1 \subseteq Stack(t)
        /\ \A j \in DOMAIN os_tasks \ {i} : Stack(t) \cap Stack(os_tasks[j]) = {}

(***************************************************************************)
(* Creation is all or nothing: between calls os_task_create holds exactly  *)
(* the control blocks of the tasks in the table, one each.                 *)
(***************************************************************************)
CreationAllOrNothing ==
  creating = 0 /\ pc[Main] = "run" =>
    /\ { r.at : r \in regions[Main] } = { os_tasks[i].tcb : i \in DOMAIN os_tasks }
    /\ \A i, j \in DOMAIN os_tasks : os_tasks[i].tcb = os_tasks[j].tcb => i = j

(***************************************************************************)
(* The high water mark of a task never falls, stays below the bytes of its *)
(* stack (the mark counts bytes, stack_size words), and covers, but for    *)
(* one word, the context the task resumes.                                 *)
(***************************************************************************)
HighWaterHolds ==
  [][ \A i \in DOMAIN os_tasks :
        LET t == os_tasks'[i]
        IN  /\ t.stack_high_water >= os_tasks[i].stack_high_water
            /\ t.stack_high_water < Bytes(t.stack_size)
            /\ os_current_task_ptr' # os_current_task_ptr /\ os_current_task_ptr' = i =>
                 t.stack_high_water + WORD_BYTES >= Top(t) - t.stack_ptr ]_stackVars

(***************************************************************************)
(* The guard follows the running task: it lies at the bottom of that       *)
(* task's stack and never in another's.                                    *)
(***************************************************************************)
GuardFollows ==
  guard # NoGuard =>
    /\ guard = Runner.stack_base
    /\ \A i \in DOMAIN os_tasks \ {os_current_task_ptr} :
         Guarded \cap Stack(os_tasks[i]) = {}
-----------------------------------------------------------------------------
(* The inductive invariant behind them.  Each task has a control block of   *)
(* its own, and an os_task_create under way one more from the moment it     *)
(* gets it; main() is in one call at a time.                                *)
Pending ==
  IF creating > 0 /\ pc[Main] = "run" THEN {current[Main] + HEADER} ELSE {}

ControlBlocks ==
  /\ { r.at : r \in regions[Main] } =
       { os_tasks[i].tcb : i \in DOMAIN os_tasks } \cup Pending
  /\ \A i, j \in DOMAIN os_tasks : os_tasks[i].tcb = os_tasks[j].tcb => i = j
  /\ \A i \in DOMAIN os_tasks : os_tasks[i].tcb \notin Pending
  /\ creating > 0 => pc[Main] # "merge" /\ pc[App] = "run" /\ ~ TableFull
  /\ pc[Main] \in {"search", "found"} => creating > 0

(* Stacks lie in the order of their creation, aligned, below the pool's     *)
(* pointer, each with a whole context in it.                                *)
StacksStacked ==
  /\ \A i \in DOMAIN os_tasks :
       LET t == os_tasks[i]
       IN  /\ t.stack_base % STACK_ALIGN = 0
           /\ Top(t) <= stack_pool_ptr
           /\ t.stack_base <= t.stack_ptr /\ t.stack_ptr + FRAME <= Top(t)
           /\ t.stack_high_water < Bytes(t.stack_size)
  /\ \A i, j \in DOMAIN os_tasks : i < j => Top(os_tasks[i]) <= os_tasks[j].stack_base

RunnerFits ==
  /\ os_current_task_ptr = 0 <=> os_tasks = <<>>
  /\ boot # "main" => os_tasks # <<>>
  /\ boot = "tasks" => Runner.stack_base + FRAME <= psp /\ psp <= Top(Runner)
  /\ guard # NoGuard =>
       os_current_task_ptr # 0 /\ mpu_status = 1 /\ guard = Runner.stack_base

(* Types, of the heap below as well; a heap that is whole; and stacks apart *)
(* from one another.                                                        *)
StacksInv ==
  /\ StacksTypeOK
  /\ HeapInv
  /\ ControlBlocks
  /\ StacksStacked
  /\ RunnerFits
  /\ StacksApart
=============================================================================
