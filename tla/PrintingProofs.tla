---------------------------- MODULE PrintingProofs ----------------------------
(* Theorems about module Printing, for every number of printing and of      *)
(* computing tasks, of any priorities: what leaves the wire is whole lines. *)
EXTENDS Printing, MutexProofs

LEMMA Desks ==
  /\ Printers \subseteq AppTasks
  /\ AppTasks \subseteq Tasks
  /\ uart_mutex \in Mutexes
  /\ LineLength \in Nat \ {0, 1}
  /\ WRAP \in Nat \ {0, 1}
  /\ NULL \notin Characters
  BY PrintingAssumption, TableFacts DEF AppTasks

LEMMA NextNumber ==
  ASSUME NEW n \in Numbers
  PROVE  (n + 1) % WRAP \in Numbers
<1>1. WRAP \in Nat \ {0} /\ n + 1 \in Nat
  BY Desks DEF Numbers
<1> QED
  BY <1>1 DEF Numbers

(* What is sent is a character, which the empty register is not.           *)
LEMMA CharIsCharacter ==
  ASSUME NEW t \in Tasks, NEW i \in 1 .. LineLength, NEW n \in Numbers
  PROVE  /\ Char(t, i, n) \in Characters
         /\ Char(t, i, n) # NULL
         /\ Char(t, i, n).index = i
         /\ Char(t, i, n).number = n
  BY Desks DEF Characters, Char

(* The next character of a line follows the one before it.                  *)
LEMMA LineGoesOn ==
  ASSUME NEW t \in Tasks, NEW i \in 1 .. LineLength, i < LineLength,
         NEW n \in Numbers
  PROVE  Follows(Char(t, i + 1, n), Char(t, i, n))
  BY DEF Follows, Char

(* The first character of a line follows the last of the line before.       *)
LEMMA LineBegins ==
  ASSUME NEW t \in Tasks, NEW n, NEW c \in Characters,
         c.index = LineLength, n = (c.number + 1) % WRAP
  PROVE  Follows(Char(t, 1, n), c)
  BY Desks DEF Follows, Char
-----------------------------------------------------------------------------
(* Every step of the application is a step of the mutexes' clients.         *)
LEMMA PrintStepsAreMutexSteps ==
  [PrintNext]_printVars => [MutexNext]_mtxVars
<1> SUFFICES ASSUME [PrintNext]_printVars
             PROVE  [MutexNext]_mtxVars
  OBVIOUS
<1> USE Desks
<1>1. CASE \/ Kernel(SysTick_Handler) \/ Kernel(SwitchStep)
           \/ \E t \in Tasks : Kernel(Yield(t))
           \/ \E t \in AppTasks \ Printers, ticks \in Delays :
                Kernel(os_delay(t, ticks))
  BY <1>1 DEF Kernel, MutexNext, TaskNext
<1>2. ASSUME NEW t \in Printers, print_task(t)
      PROVE  [MutexNext]_mtxVars
  <2>1. CASE TakeUart(t) \/ GiveUart(t)
    BY <2>1 DEF TakeUart, GiveUart, MutexNext, MutexStep
  <2>2. CASE Load(t) \/ Store(t) \/ SendWait(t) \/ SendWrite(t)
    BY <2>2 DEF Load, Store, SendWait, SendWrite, Execute
  <2>3. CASE Sleep(t)
    BY <2>3 DEF Sleep, MutexNext, TaskNext
  <2> QED
    BY <1>2, <2>1, <2>2, <2>3 DEF print_task
<1>3. CASE ShiftOut \/ UNCHANGED printVars
  BY <1>3 DEF ShiftOut, printVars
<1> QED
  BY <1>1, <1>2, <1>3 DEF PrintNext

LEMMA PrintInitInv == IdleRegistered /\ PrintInit => PrintInv
<1> SUFFICES ASSUME IdleRegistered, PrintInit
             PROVE  PrintInv
  OBVIOUS
<1> USE Desks
<1>1. MutexInv
  BY MutexInitInv DEF PrintInit
<1>2. 0 \in Numbers /\ 1 \in 1 .. LineLength /\ LineLength \in 1 .. LineLength
      /\ idle \in Tasks
  BY TaskAssumption DEF Numbers, idle, Tasks, os_task_count, IdleRegistered
<1>3. PrintTypeOK
  BY <1>2, CharIsCharacter DEF PrintInit, PrintTypeOK
<1>4. SectionOwned
  <2>1. mutex[uart_mutex] = Unlocked
    BY DEF PrintInit, MutexInit, os_mutex_init
  <2>2. \A t \in Tasks : ~ Owns(t, uart_mutex)
    BY <2>1, TableFacts DEF Owns, Unlocked, NoOwner
  <2> QED
    BY <2>1, <2>2 DEF SectionOwned, Unlocked, PrintInit, Section
<1>5. LineSoFar
  BY <1>2, CharIsCharacter DEF PrintInit, LineSoFar, Sending, Sent
<1> QED
  BY <1>1, <1>3, <1>4, <1>5 DEF PrintInv
-----------------------------------------------------------------------------
(* What a step of a task inside its section finds: it is alone there.       *)
LEMMA AloneInSection ==
  ASSUME PrintInv, NEW t \in Printers, at[t] \in Section
  PROVE  \A u \in Printers \ {t} : at[u] \notin Section
  BY Desks DEF PrintInv, SectionOwned, Owns

(* A step that leaves the mutex and everyone's place and output alone.      *)
LEMMA PrintStays ==
  ASSUME PrintInv, MutexInv', UNCHANGED <<mutex, at, outVars>>
  PROVE  PrintInv'
<1>1. PrintTypeOK'
  BY DEF PrintInv, PrintTypeOK, outVars
<1>2. SectionOwned'
  BY DEF PrintInv, SectionOwned, Owns
<1>3. LineSoFar'
  BY DEF PrintInv, LineSoFar, Sending, Sent, outVars
<1> QED
  BY <1>1, <1>2, <1>3 DEF PrintInv

(* A step inside the section leaves the mutex alone: the task keeps it.     *)
LEMMA SectionGoesOn ==
  ASSUME PrintInv, NEW t \in Printers, NEW next \in Section,
         at[t] \in Section, mutex' = mutex, at' = [at EXCEPT ![t] = next]
  PROVE  SectionOwned'
  BY DEF PrintInv, PrintTypeOK, SectionOwned, Owns

LEMMA TakeUartInv ==
  ASSUME PrintInv, MutexInv', NEW t \in Printers, TakeUart(t)
  PROVE  PrintInv'
<1> USE Desks
<1>1. /\ t \in Tasks /\ at[t] = "TAKE"
      /\ PrintTypeOK /\ LineSoFar
      /\ mutex \in [Mutexes -> {Unlocked} \cup LockedMutexes]
      /\ pc \in [Tasks -> {"run"} \cup AtYield \cup AtLoop \cup Inside]
      /\ UNCHANGED outVars
  BY DEF PrintInv, MutexInv, MutexTypeOK, TaskTypeOK, TakeUart
<1>2. ~ Owns(t, uart_mutex)
  BY <1>1 DEF PrintInv, SectionOwned, Section
<1>3. CASE TakeFree(t, uart_mutex)
  <2>1. /\ mutex' = [mutex EXCEPT ![uart_mutex] = LockedBy(t, 1)]
        /\ pc'[t] = "run"
        /\ at' = [at EXCEPT ![t] = "LOAD"]
    BY <1>1, <1>3 DEF TakeFree, Return, TakeUart
  <2>2. \A u \in Tasks : ~ Owns(u, uart_mutex)
    BY <1>1, <1>3, MutexShape, TableFacts
       DEF TakeFree, Owns, NoOwner, PrintInv, MutexInv
  <2>3. SectionOwned'
    BY <1>1, <2>1, <2>2
       DEF PrintInv, PrintTypeOK, SectionOwned, Section, Owns, LockedBy
  <2>4. PrintTypeOK'
    BY <1>1, <2>1 DEF PrintTypeOK, Section, outVars
  <2>5. LineSoFar'
    BY <1>1, <2>1 DEF PrintTypeOK, LineSoFar, Sending, Sent, outVars
  <2> QED
    BY <2>3, <2>4, <2>5 DEF PrintInv
<1>4. CASE TakePark(t, uart_mutex)
  <2>1. UNCHANGED mutex /\ pc'[t] = "mutex_yield"
    BY <1>1, <1>4 DEF TakePark, Park, mutexVars
  <2>2. UNCHANGED at
    BY <1>1, <2>1 DEF TakeUart, PrintTypeOK
  <2> QED
    BY <1>1, <2>1, <2>2, PrintStays
<1> QED
  BY <1>2, <1>3, <1>4 DEF TakeUart, os_mutex_take, TakeAgain

LEMMA GiveUartInv ==
  ASSUME PrintInv, MutexInv', NEW t \in Printers, GiveUart(t)
  PROVE  PrintInv'
<1> USE Desks
<1>1. /\ t \in Tasks /\ at[t] = "GIVE"
      /\ PrintTypeOK /\ LineSoFar
      /\ mutex \in [Mutexes -> {Unlocked} \cup LockedMutexes]
      /\ at' = [at EXCEPT ![t] = "SLEEP"]
      /\ UNCHANGED outVars
  BY DEF PrintInv, MutexInv, MutexTypeOK, GiveUart
<1>2. Owns(t, uart_mutex) /\ mutex[uart_mutex].recursive_depth <= 1
  BY <1>1 DEF PrintInv, SectionOwned, Section
<1>3. mutex[uart_mutex].recursive_depth \in Nat
  BY <1>1, MutexAssumption DEF Unlocked, LockedMutexes
<1>4. mutex' = [mutex EXCEPT ![uart_mutex] = Unlocked]
  BY <1>2, <1>3 DEF GiveUart, os_mutex_give, GiveIgnored, GiveInner, GiveOuter
<1>5. SectionOwned'
  <2>1. \A u \in Tasks : ~ Owns(u, uart_mutex)' /\ (u # t => ~ Owns(u, uart_mutex))
    BY <1>1, <1>2, <1>4, TableFacts DEF Owns, Unlocked, NoOwner
  <2> QED
    BY <1>1, <1>4, <2>1
       DEF PrintInv, PrintTypeOK, SectionOwned, Section, Owns, Unlocked
<1>6. PrintTypeOK'
  BY <1>1 DEF PrintTypeOK, outVars
<1>7. LineSoFar'
  BY <1>1 DEF PrintTypeOK, LineSoFar, Sending, Sent, outVars
<1> QED
  BY <1>5, <1>6, <1>7 DEF PrintInv

LEMMA SleepInv ==
  ASSUME PrintInv, MutexInv', NEW t \in Printers, Sleep(t)
  PROVE  PrintInv'
<1>1. /\ at[t] = "SLEEP" /\ at' = [at EXCEPT ![t] = "TAKE"]
      /\ UNCHANGED <<mutex, outVars>>
      /\ PrintTypeOK /\ LineSoFar
  BY DEF Sleep, mutexVars, PrintInv
<1>2. SectionOwned'
  BY <1>1 DEF PrintInv, PrintTypeOK, SectionOwned, Section, Owns
<1>3. PrintTypeOK'
  BY <1>1 DEF PrintTypeOK, outVars
<1>4. LineSoFar'
  BY <1>1 DEF PrintTypeOK, LineSoFar, Sending, Sent, outVars
<1> QED
  BY <1>2, <1>3, <1>4 DEF PrintInv

(* The counter: the task that loads and stores is alone in the section, so  *)
(* what it stores is one more than what was last printed.                   *)
LEMMA LoadInv ==
  ASSUME PrintInv, MutexInv', NEW t \in Printers, Load(t)
  PROVE  PrintInv'
<1>1. /\ at[t] = "LOAD" /\ at' = [at EXCEPT ![t] = "STORE"]
      /\ loaded' = [loaded EXCEPT ![t] = shared_counter]
      /\ UNCHANGED <<mutex, shared_counter, k, dr, wire>>
      /\ PrintTypeOK /\ LineSoFar
  BY DEF Load, Execute, mtxVars, mutexVars, PrintInv
<1>2. SectionOwned'
  BY <1>1, SectionGoesOn DEF Section
<1>3. PrintTypeOK'
  BY <1>1 DEF PrintTypeOK, Section
<1>4. LineSoFar'
  BY <1>1 DEF PrintTypeOK, LineSoFar, Sending, Sent
<1> QED
  BY <1>2, <1>3, <1>4 DEF PrintInv

LEMMA StoreInv ==
  ASSUME PrintInv, MutexInv', NEW t \in Printers, Store(t)
  PROVE  PrintInv'
<1> USE Desks
<1>1. /\ at[t] = "STORE" /\ at' = [at EXCEPT ![t] = "SEND"]
      /\ shared_counter' = (loaded[t] + 1) % WRAP
      /\ loaded' = [loaded EXCEPT ![t] = 0]
      /\ UNCHANGED <<mutex, k, dr, wire>>
      /\ PrintTypeOK /\ LineSoFar
  BY DEF Store, Execute, mtxVars, mutexVars, PrintInv
<1>2. SectionOwned'
  BY <1>1, SectionGoesOn DEF Section
<1>3. \A u \in Printers \ {t} : at[u] \notin Section /\ at'[u] = at[u]
  BY <1>1, AloneInSection DEF Section, PrintTypeOK
<1>4. 0 \in Numbers /\ shared_counter' \in Numbers
  BY <1>1, NextNumber DEF PrintTypeOK, Numbers
<1>5. PrintTypeOK'
  BY <1>1, <1>4 DEF PrintTypeOK, Section
<1>6. /\ Sent.index = LineLength
      /\ Sent.number = loaded[t]
      /\ Sent \in Characters
      /\ k[t] = 1
  BY <1>1, <1>3 DEF LineSoFar, Sending, Sent, Section, PrintTypeOK
<1>7. Follows(Char(t, 1, shared_counter'), Sent)
  BY <1>1, <1>6, LineBegins
<1>8. LineSoFar'
  <2>1. Sent' = Sent
    BY <1>1 DEF Sent
  <2>2. Sending(t)' /\ \A u \in Printers \ {t} : ~ Sending(u)' /\ ~ Sending(u)
    BY <1>1, <1>3 DEF Sending, Section, PrintTypeOK
  <2>3. \A u \in Printers : at'[u] \notin {"STORE", "WRITE"}
    BY <1>1, <1>3 DEF Section, PrintTypeOK
  <2> QED
    BY <1>1, <1>6, <1>7, <2>1, <2>2, <2>3 DEF LineSoFar
<1> QED
  BY <1>2, <1>5, <1>8 DEF PrintInv
-----------------------------------------------------------------------------
LEMMA SendWaitInv ==
  ASSUME PrintInv, MutexInv', NEW t \in Printers, SendWait(t)
  PROVE  PrintInv'
<1>1. /\ at[t] = "SEND" /\ at' = [at EXCEPT ![t] = "WRITE"]
      /\ dr = NULL
      /\ UNCHANGED <<mutex, outVars>>
      /\ PrintTypeOK /\ LineSoFar
  BY DEF SendWait, Execute, mtxVars, mutexVars, PrintInv
<1>2. SectionOwned'
  BY <1>1, SectionGoesOn DEF Section
<1>3. PrintTypeOK'
  BY <1>1 DEF PrintTypeOK, Section, outVars
<1>4. LineSoFar'
  BY <1>1 DEF PrintTypeOK, LineSoFar, Sending, Sent, outVars
<1> QED
  BY <1>2, <1>3, <1>4 DEF PrintInv

LEMMA SendWriteInv ==
  ASSUME PrintInv, MutexInv', NEW t \in Printers, SendWrite(t)
  PROVE  PrintInv'
<1> USE Desks
<1> DEFINE c == Char(t, k[t], shared_counter)
<1>1. /\ at[t] = "WRITE"
      /\ at' = [at EXCEPT ![t] = IF k[t] < LineLength THEN "SEND" ELSE "GIVE"]
      /\ dr' = c
      /\ k' = [k EXCEPT ![t] = IF @ < LineLength THEN @ + 1 ELSE 1]
      /\ UNCHANGED <<mutex, shared_counter, loaded, wire>>
      /\ PrintTypeOK /\ LineSoFar
  BY DEF SendWrite, Execute, mtxVars, mutexVars, PrintInv
<1>2. SectionOwned'
  <2>1. (IF k[t] < LineLength THEN "SEND" ELSE "GIVE") \in Section
    BY DEF Section
  <2> QED
    BY <1>1, <2>1, SectionGoesOn DEF Section
<1>3. /\ t \in Tasks /\ k[t] \in 1 .. LineLength /\ shared_counter \in Numbers
      /\ c \in Characters /\ c # NULL
      /\ c.index = k[t] /\ c.number = shared_counter
  BY <1>1, CharIsCharacter DEF PrintTypeOK
<1>4. PrintTypeOK'
  BY <1>1, <1>3 DEF PrintTypeOK, Section
<1>5. \A u \in Printers \ {t} :
        at[u] \notin Section /\ at'[u] = at[u] /\ k'[u] = k[u]
  BY <1>1, AloneInSection DEF Section, PrintTypeOK
<1>6. LineSoFar'
  <2>1. dr = NULL /\ Follows(c, wire)
    BY <1>1 DEF LineSoFar, Sending, Sent
  <2>2. Sent' = c
    BY <1>1, <1>3 DEF Sent
  <2>3. \A u \in Printers \ {t} : ~ Sending(u)' /\ k'[u] = 1
    BY <1>1, <1>5 DEF Sending, Section, LineSoFar
  <2>4. \A u \in Printers : at'[u] \notin {"STORE", "WRITE"}
    BY <1>1, <1>5 DEF Section, PrintTypeOK
  <2>5. CASE k[t] < LineLength
    <3>1. Sending(t)' /\ k'[t] = k[t] + 1
      BY <1>1, <2>5 DEF Sending, PrintTypeOK
    <3>2. Follows(Char(t, k'[t], shared_counter'), c)
      BY <1>1, <1>3, <2>5, <3>1, LineGoesOn
    <3> QED
      BY <1>1, <2>1, <2>2, <2>3, <2>4, <3>1, <3>2 DEF LineSoFar
  <2>6. CASE ~ (k[t] < LineLength)
    <3>1. ~ Sending(t)' /\ k'[t] = 1
      BY <1>1, <2>6 DEF Sending, PrintTypeOK
    <3>2. c.index = LineLength /\ c.number = shared_counter'
      BY <1>1, <1>3, <2>6
    <3> QED
      BY <1>1, <2>1, <2>2, <2>3, <2>4, <3>1, <3>2 DEF LineSoFar
  <2> QED
    BY <2>5, <2>6
<1> QED
  BY <1>2, <1>4, <1>6 DEF PrintInv

LEMMA ShiftOutInv ==
  ASSUME PrintInv, MutexInv', ShiftOut
  PROVE  PrintInv'
<1>1. /\ dr # NULL /\ wire' = dr /\ dr' = NULL
      /\ UNCHANGED <<mutex, at, shared_counter, loaded, k>>
      /\ PrintTypeOK /\ LineSoFar
  BY DEF ShiftOut, mtxVars, mutexVars, PrintInv
<1>2. SectionOwned'
  BY <1>1 DEF PrintInv, SectionOwned, Owns
<1>3. PrintTypeOK'
  BY <1>1 DEF PrintTypeOK
<1>4. LineSoFar'
  <2>1. Sent' = Sent
    BY <1>1 DEF Sent
  <2> QED
    BY <1>1, <2>1 DEF LineSoFar, Sending
<1> QED
  BY <1>2, <1>3, <1>4 DEF PrintInv

LEMMA PrintNextInv ==
  ASSUME IdleRegistered, PrintInv, [PrintNext]_printVars
  PROVE  PrintInv'
<1>1. MutexInv'
  BY PrintStepsAreMutexSteps, MutexNextInv DEF PrintInv
<1>2. CASE \/ Kernel(SysTick_Handler) \/ Kernel(SwitchStep)
           \/ \E t \in Tasks : Kernel(Yield(t))
           \/ \E t \in AppTasks \ Printers, ticks \in Delays :
                Kernel(os_delay(t, ticks))
  BY <1>1, <1>2, PrintStays DEF Kernel, mutexVars
<1>3. ASSUME NEW t \in Printers, print_task(t)
      PROVE  PrintInv'
  BY <1>1, <1>3, TakeUartInv, LoadInv, StoreInv, SendWaitInv, SendWriteInv,
     GiveUartInv, SleepInv DEF print_task
<1>4. CASE ShiftOut
  BY <1>1, <1>4, ShiftOutInv
<1>5. CASE UNCHANGED printVars
  BY <1>1, <1>5, PrintStays DEF printVars, mtxVars, mutexVars
<1> QED
  BY <1>2, <1>3, <1>4, <1>5 DEF PrintNext
-----------------------------------------------------------------------------
(* The application uses the mutex as its specification says: what is proved *)
(* of MutexSpec holds of the printers.                                      *)
THEOREM PrintersUseMutexes == PrintSpec => MutexSpec
<1>1. PrintInit => MutexInit
  BY DEF PrintInit
<1> QED
  BY <1>1, PrintStepsAreMutexSteps, PTL DEF PrintSpec, MutexSpec

(* Lines leave the wire whole, their numbers one after another, whatever    *)
(* the number and the priorities of the printing and the computing tasks.   *)
THEOREM LinesAlwaysWhole ==
  ASSUME IdleRegistered
  PROVE  PrintSpec => LinesWhole
<1>1. PrintInit => PrintInv
  BY PrintInitInv
<1>2. PrintInv /\ [PrintNext]_printVars => PrintInv'
  BY PrintNextInv
<1>3. PrintInv /\ [PrintNext]_printVars =>
        [wire' # wire => Follows(wire', wire)]_printVars
  <2> SUFFICES ASSUME PrintInv, PrintNext, wire' # wire
               PROVE  Follows(wire', wire)
    OBVIOUS
  <2>1. ShiftOut
    BY DEF PrintNext, Kernel, outVars, print_task, TakeUart, Load, Store,
           SendWait, SendWrite, GiveUart, Sleep
  <2> QED
    BY <2>1 DEF ShiftOut, PrintInv, LineSoFar
<1> QED
  BY <1>1, <1>2, <1>3, PTL DEF PrintSpec, LinesWhole
=============================================================================
