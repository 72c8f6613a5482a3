------------------------------ MODULE Printing ------------------------------
(***************************************************************************)
(* samples/mutex_basic: tasks that count and print under one mutex, over   *)
(* uart_send_string of drivers/src/uart.c.  The driver polls TXE and then  *)
(* writes the data register, with interrupts enabled and no lock of its    *)
(* own: the order of what leaves the wire is the application's mutex's.    *)
(*                                                                         *)
(* Next to the printing tasks run others that compute, for as long as they *)
(* like, and never touch the mutex.                                        *)
(***************************************************************************)
EXTENDS Mutex

CONSTANTS
  Printers,       \* the tasks that run the loop of task1 and task2
  uart_mutex,     \* counter_mutex
  LineLength,     \* characters of a line
  WRAP            \* bound: the counter is kept modulo WRAP

(* Character i of a line that task t prints about number n. *)
Char(t, i, n) == [from |-> t, index |-> i, number |-> n]

Numbers    == 0 .. WRAP - 1
Characters == { Char(t, i, n) : t \in Tasks, i \in 1 .. LineLength, n \in Numbers }

ASSUME PrintingAssumption ==
  /\ Printers \subseteq 0 .. UserTasks - 1
  /\ uart_mutex \in Mutexes
  /\ LineLength \in Nat \ {0, 1}
  /\ WRAP \in Nat \ {0, 1}
  /\ NULL \notin Characters

VARIABLES
  at,              \* for each printer, what it executes next or is inside
  shared_counter,
  loaded,          \* shared_counter as the increment of a task read it
  k,               \* the next character of the line it sends
  dr,              \* the character written to DR and not shifted out, or NULL
  wire             \* the last character that left

outVars   == <<shared_counter, loaded, k, dr, wire>>
printVars == <<mtxVars, at, outVars>>

PrintInit ==
  /\ MutexInit
  /\ at = [t \in Printers |-> "TAKE"]
  /\ shared_counter = 0
  /\ loaded = [t \in Printers |-> 0]
  /\ k = [t \in Printers |-> 1]
  /\ dr = NULL
  /\ wire = Char(idle, LineLength, 0)
-----------------------------------------------------------------------------
(* A stretch of task t's own code, from one place to the next. *)
Execute(t, here, next) ==
  /\ Calls(t)
  /\ at[t] = here
  /\ at' = [at EXCEPT ![t] = next]
  /\ UNCHANGED mtxVars

(* os_mutex_take: the task moves on when the call returns. *)
TakeUart(t) ==
  /\ at[t] = "TAKE"
  /\ os_mutex_take(t, uart_mutex)
  /\ at' = [at EXCEPT ![t] = IF pc'[t] = "run" THEN "LOAD" ELSE @]
  /\ UNCHANGED outVars

(* shared_counter++ on a volatile: a load and a store. *)
Load(t) ==
  /\ Execute(t, "LOAD", "STORE")
  /\ loaded' = [loaded EXCEPT ![t] = shared_counter]
  /\ UNCHANGED <<shared_counter, k, dr, wire>>

Store(t) ==
  /\ Execute(t, "STORE", "SEND")
  /\ shared_counter' = (loaded[t] + 1) % WRAP
  /\ loaded' = [loaded EXCEPT ![t] = 0]
  /\ UNCHANGED <<k, dr, wire>>

(* uart_send_char: leave the loop on TXE once it reads as set ... *)
SendWait_not(t) ==
  /\ Execute(t, "SEND", "WRITE")
  /\ UNCHANGED outVars

SendWait(t) ==
  /\ dr = NULL
  /\ Execute(t, "SEND", "WRITE")
  /\ UNCHANGED outVars

(* ... and write DR; uart_send_string goes on to the next character. *)
SendWrite(t) ==
  /\ Execute(t, "WRITE", IF k[t] < LineLength THEN "SEND" ELSE "GIVE")
  /\ dr' = Char(t, k[t], shared_counter)
  /\ k' = [k EXCEPT ![t] = IF @ < LineLength THEN @ + 1 ELSE 1]
  /\ UNCHANGED <<shared_counter, loaded, wire>>

GiveUart(t) ==
  /\ at[t] = "GIVE"
  /\ os_mutex_give(t, uart_mutex)
  /\ at' = [at EXCEPT ![t] = "SLEEP"]
  /\ UNCHANGED outVars

Sleep(t) ==
  /\ at[t] = "SLEEP"
  /\ \E ticks \in Delays : os_delay(t, ticks)
  /\ at' = [at EXCEPT ![t] = "TAKE"]
  /\ UNCHANGED <<mutexVars, outVars>>

(* The loop of task1 and task2. *)
print_task(t) ==
  \/ TakeUart(t) \/ Load(t) \/ Store(t)
  \/ SendWait(t) \/ SendWrite(t)
  \/ GiveUart(t) \/ Sleep(t)

(* The peripheral: the character in DR goes out, and TXE is set. *)
ShiftOut ==
  /\ dr # NULL
  /\ wire' = dr
  /\ dr' = NULL
  /\ UNCHANGED <<mtxVars, at, shared_counter, loaded, k>>

Kernel(A) == A /\ UNCHANGED <<mutexVars, at, outVars>>

PrintNext ==
  \/ Kernel(SysTick_Handler)
  \/ Kernel(SwitchStep)
  \/ \E t \in Tasks : Kernel(Yield(t))
  \/ \E t \in AppTasks \ Printers, ticks \in Delays : Kernel(os_delay(t, ticks))
  \/ \E t \in Printers : print_task(t)
  \/ ShiftOut

(***************************************************************************)
(* Fairness.  As in Mutex: the handlers leave CPU time to the tasks, and a *)
(* task dispatched again and again executes the next step of its loop.     *)
(* Nothing is assumed of the tasks that compute.                           *)
(***************************************************************************)
PrintFairness ==
  /\ WF_printVars(Kernel(SysTick_Handler))
  /\ WF_printVars(Kernel(SwitchStep))
  /\ WF_printVars(ShiftOut)
  /\ []<>TasksRun
  /\ \A t \in Printers : SF_printVars(Kernel(Yield(t)) \/ print_task(t))

PrintSpec == PrintInit /\ [][PrintNext]_printVars

PrintFairSpec == PrintSpec /\ PrintFairness
-----------------------------------------------------------------------------
(***************************************************************************)
(* Whole lines, no character missing and no number skipped or repeated     *)
(* leave the wire ("preventing race conditions and interleaved output",    *)
(* samples/mutex_basic/README.md), in any interleaving of the printers.    *)
(***************************************************************************)
Follows(b, a) ==
  IF a.index < LineLength
  THEN b = [a EXCEPT !.index = @ + 1]
  ELSE b.index = 1 /\ b.number = (a.number + 1) % WRAP

LinesWhole == [][wire' # wire => Follows(wire', wire)]_printVars

-----------------------------------------------------------------------------
(***************************************************************************)
(* The inductive invariant behind LinesWhole: the printer between its take *)
(* and its give owns the mutex, so at most one is there; what it is about  *)
(* to send continues what was sent, and when it sees TXE the data register *)
(* stays empty until it writes it.                                         *)
(***************************************************************************)
Section == {"LOAD", "STORE", "SEND", "WRITE", "GIVE"}

SectionOwned ==
  /\ mutex[uart_mutex].recursive_depth <= 1
  /\ \A t \in Tasks :
       Owns(t, uart_mutex) <=> t \in Printers /\ at[t] \in Section

Sending(t) == at[t] \in {"SEND", "WRITE"}

Sent == IF dr = NULL THEN wire ELSE dr

LineSoFar ==
  /\ dr # NULL => Follows(dr, wire)
  /\ \A t \in Printers :
       /\ at[t] = "STORE" => loaded[t] = shared_counter
       /\ at[t] = "WRITE" => dr = NULL
       /\ IF Sending(t) THEN Follows(Char(t, k[t], shared_counter), Sent)
                        ELSE k[t] = 1
  /\ \/ \E t \in Printers : Sending(t)
     \/ Sent.index = LineLength /\ Sent.number = shared_counter

PrintTypeOK ==
  /\ at \in [Printers -> {"TAKE", "SLEEP"} \cup Section]
  /\ shared_counter \in Numbers
  /\ loaded \in [Printers -> Numbers]
  /\ k \in [Printers -> 1 .. LineLength]
  /\ dr \in Characters \cup {NULL}
  /\ wire \in Characters

PrintInv ==
  /\ MutexInv
  /\ PrintTypeOK
  /\ SectionOwned
  /\ LineSoFar
=============================================================================
