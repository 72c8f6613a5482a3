-------------------------------- MODULE Timer --------------------------------
(***************************************************************************)
(* Software timers (os_timer_t): os_timer_tick() walks the registered      *)
(* timers inside SysTick_Handler, one slot per step here, and tasks cannot *)
(* run meanwhile.  Tasks call os_timer_start, os_timer_stop and            *)
(* os_timer_reset without masking interrupts, so any number of ticks may   *)
(* pass between the two writes of a start or of a reset.  A callback makes *)
(* at most one such call, on any timer, its own included.                  *)
(*                                                                         *)
(* One task initialises the timers, as in samples/software_timers, while   *)
(* ticks come; os_timer_init masks nothing either.                         *)
(***************************************************************************)
EXTENDS Naturals, Sequences

CONSTANTS
  OS_MAX_TIMERS,   \* number of slots (10 in the source)
  Timers,
  Created,         \* the order of the calls of os_timer_init()
  Creator,         \* the task that makes them
  period_ticks,    \* their arguments
  repeating,
  Clients,         \* the tasks that use timers
  NULL

ASSUME TimerAssumption ==
  /\ OS_MAX_TIMERS \in Nat \ {0}
  /\ Created \in Seq(Timers)
  /\ Creator \in Clients
  /\ period_ticks \in [Timers -> Nat \ {0}]
  /\ repeating \in [Timers -> BOOLEAN]
  /\ NULL \notin Timers

VARIABLES
  os_timers,   \* the slots, NULL where none was written
  os_timer_count,
  inits,       \* calls of os_timer_init() that have returned
  timer,       \* state and remaining_ticks of each timer
  tick_i,      \* the slot os_timer_tick() is at, 0 outside it
  pc,          \* where each client is: "run", or between two writes
  arg,         \* the timer of the call it is inside
  begun,       \* ticks since a call that arms the timer began, or its reload
  armed        \* ticks since such a call ended, or its reload

tableVars == <<os_timers, os_timer_count, inits>>
timerVars == <<tableVars, timer, tick_i, pc, arg, begun, armed>>

TimerInit ==
  /\ os_timers = [i \in 1 .. OS_MAX_TIMERS |-> NULL]
  /\ os_timer_count = 0
  /\ inits = 0
  /\ timer = [t \in Timers |-> [state |-> "STOPPED", remaining_ticks |-> 0]]
  /\ tick_i = 0
  /\ pc = [c \in Clients |-> "run"]
  /\ arg = [c \in Clients |-> NULL]
  /\ begun = [t \in Timers |-> 0]
  /\ armed = [t \in Timers |-> 0]
-----------------------------------------------------------------------------
(* What the calls write, as functions of the timers' values.               *)
Rearmed(tm, t) == [tm EXCEPT ![t].remaining_ticks = period_ticks[t]]

WithState(tm, t, s) == [tm EXCEPT ![t].state = s]

(* A reset that leaves the expired counter as it is. *)
Restarted_norearm(tm, t) ==
  IF tm[t].state = "EXPIRED" THEN WithState(tm, t, "RUNNING") ELSE Rearmed(tm, t)

Restarted(tm, t) ==
  IF tm[t].state = "EXPIRED"
  THEN WithState(Rearmed(tm, t), t, "RUNNING")
  ELSE Rearmed(tm, t)

Started(tm, t) == WithState(Rearmed(tm, t), t, "RUNNING")

(* The decrement without its guard: zero wraps past every period. *)
Decremented_unguarded(tm, t) ==
  [tm EXCEPT ![t].remaining_ticks = IF @ = 0 THEN period_ticks[t] + 1 ELSE @ - 1]

Decremented(tm, t) ==
  [tm EXCEPT ![t].remaining_ticks = IF @ > 0 THEN @ - 1 ELSE @]

(* The end of an expiry, after the callback: reload, or TIMER_EXPIRED. *)
Expired(tm, t) ==
  IF repeating[t] THEN Rearmed(tm, t) ELSE WithState(tm, t, "EXPIRED")

(* The timers the application may use. *)
Initialised == { Created[n] : n \in 1 .. inits }

(* What a callback may call, and what the call does inside the tick. *)
CallbackCalls == [op : {"none", "start", "stop", "reset"}, on : Initialised]

Effect(tm, f) ==
  CASE f.op = "none"  -> tm
    [] f.op = "start" -> Started(tm, f.on)
    [] f.op = "stop"  -> WithState(tm, f.on, "STOPPED")
    [] f.op = "reset" -> Restarted(tm, f.on)
-----------------------------------------------------------------------------
(* Bookkeeping for the properties, saturated past the period.              *)
Older(age) ==
  [t \in Timers |-> IF age[t] <= period_ticks[t] THEN age[t] + 1 ELSE age[t]]

Zeroed(age, ts) == [t \in Timers |-> IF t \in ts THEN 0 ELSE age[t]]

ArmedBy(t, f) ==
  (IF repeating[t] THEN {t} ELSE {})
    \cup (IF f.op \in {"start", "reset"} THEN {f.on} ELSE {})

Due(t) ==
  /\ timer[t].state = "RUNNING"
  /\ Decremented(timer, t)[t].remaining_ticks = 0

TickBegins ==
  /\ tick_i = 0
  /\ tick_i' = 1
  /\ begun' = Older(begun)
  /\ armed' = Older(armed)
  /\ UNCHANGED <<tableVars, timer, pc, arg>>

(* A loop that stops one slot early. *)
InTick_short == tick_i \in 1 .. os_timer_count - 1

InTick == tick_i \in 1 .. os_timer_count

(* One slot of os_timer_tick(): skip, count down, or fire. *)
Slot(t) ==
  \/ /\ timer[t].state # "RUNNING"
     /\ UNCHANGED <<timer, begun, armed>>
  \/ /\ timer[t].state = "RUNNING" /\ ~ Due(t)
     /\ timer' = Decremented(timer, t)
     /\ UNCHANGED <<begun, armed>>
  \/ /\ Due(t)
     /\ \E f \in CallbackCalls :
          /\ timer' = Expired(Effect(Decremented(timer, t), f), t)
          /\ begun' = Zeroed(begun, ArmedBy(t, f))
          /\ armed' = Zeroed(armed, ArmedBy(t, f))

os_timer_tick ==
  /\ InTick
  /\ Slot(os_timers[tick_i])
  /\ tick_i' = tick_i + 1
  /\ UNCHANGED <<tableVars, pc, arg>>

TickEnds ==
  /\ tick_i > 0 /\ ~ InTick
  /\ tick_i' = 0
  /\ UNCHANGED <<tableVars, timer, pc, arg, begun, armed>>
-----------------------------------------------------------------------------
At(c, label, t) == tick_i = 0 /\ pc[c] = label /\ arg[c] = t

Goto(c, label, t) ==
  /\ pc' = [pc EXCEPT ![c] = label]
  /\ arg' = [arg EXCEPT ![c] = IF label = "run" THEN NULL ELSE t]
  /\ UNCHANGED tick_i

(***************************************************************************)
(* os_timer_init: the fields of a timer no tick can see yet and the test   *)
(* for a free slot; the slot; the count.  With all slots taken the call    *)
(* ends at the test and the timer will never tick.                         *)
(***************************************************************************)
InitFields(t) ==
  /\ At(Creator, "run", NULL)
  /\ inits < Len(Created) /\ Created[inits + 1] = t
  /\ timer' = [timer EXCEPT
       ![t] = [state |-> "STOPPED", remaining_ticks |-> period_ticks[t]]]
  /\ IF os_timer_count < OS_MAX_TIMERS
     THEN Goto(Creator, "init_slot", t) /\ UNCHANGED inits
     ELSE inits' = inits + 1 /\ UNCHANGED <<tick_i, pc, arg>>
  /\ UNCHANGED <<os_timers, os_timer_count>>

(* The count before the slot. *)
InitSlot_last(t) ==
  /\ At(Creator, "init_slot", t)
  /\ os_timer_count' = os_timer_count + 1
  /\ Goto(Creator, "init_count", t)
  /\ UNCHANGED <<os_timers, inits, timer>>

InitSlot(t) ==
  /\ At(Creator, "init_slot", t)
  /\ os_timers' = [os_timers EXCEPT ![os_timer_count + 1] = t]
  /\ Goto(Creator, "init_count", t)
  /\ UNCHANGED <<os_timer_count, inits, timer>>

InitCount(t) ==
  /\ At(Creator, "init_count", t)
  /\ os_timer_count' = os_timer_count + 1
  /\ inits' = inits + 1
  /\ Goto(Creator, "run", t)
  /\ UNCHANGED <<os_timers, timer>>

os_timer_init(t) ==
  /\ InitFields(t) \/ InitSlot(t) \/ InitCount(t)
  /\ UNCHANGED <<begun, armed>>

(* The first write of os_timer_start and of os_timer_reset. *)
Rearm(c, t, label) ==
  /\ At(c, "run", NULL)
  /\ timer' = Rearmed(timer, t)
  /\ begun' = Zeroed(begun, {t})
  /\ Goto(c, label, t)
  /\ UNCHANGED armed

(* A call ends by writing TIMER_RUNNING. *)
SetRunning(c, t, label) ==
  /\ At(c, label, t)
  /\ timer' = WithState(timer, t, "RUNNING")
  /\ armed' = Zeroed(armed, {t})
  /\ Goto(c, "run", t)
  /\ UNCHANGED begun

os_timer_start(c, t) == Rearm(c, t, "start") \/ SetRunning(c, t, "start")

os_timer_stop(c, t) ==
  /\ At(c, "run", NULL)
  /\ timer' = WithState(timer, t, "STOPPED")
  /\ UNCHANGED <<tick_i, pc, arg, begun, armed>>

os_timer_reset(c, t) ==
  \/ Rearm(c, t, "reset")
  \/ /\ At(c, "reset", t) /\ timer[t].state = "EXPIRED"
     /\ Goto(c, "restart", t)
     /\ UNCHANGED <<timer, begun, armed>>
  \/ /\ At(c, "reset", t) /\ timer[t].state # "EXPIRED"
     /\ armed' = Zeroed(armed, {t})
     /\ Goto(c, "run", t)
     /\ UNCHANGED <<timer, begun>>
  \/ SetRunning(c, t, "restart")

TimerNext ==
  \/ TickBegins \/ os_timer_tick \/ TickEnds
  \/ \E t \in Timers : os_timer_init(t)
  \/ \E c \in Clients, t \in Initialised :
       /\ os_timer_start(c, t) \/ os_timer_stop(c, t) \/ os_timer_reset(c, t)
       /\ UNCHANGED tableVars

TimerSpec == TimerInit /\ [][TimerNext]_timerVars
-----------------------------------------------------------------------------
(* Types; a counter never exceeds its period. *)
TimerTypeOK ==
  /\ os_timers \in [1 .. OS_MAX_TIMERS -> Timers \cup {NULL}]
  /\ os_timer_count \in 0 .. OS_MAX_TIMERS
  /\ inits \in 0 .. Len(Created)
  /\ timer \in [Timers -> [state : {"STOPPED", "RUNNING", "EXPIRED"},
                           remaining_ticks : Nat]]
  /\ \A t \in Timers : timer[t].remaining_ticks <= period_ticks[t]
  /\ tick_i \in 0 .. os_timer_count + 1
  /\ pc \in [Clients -> {"run", "start", "reset", "restart",
                          "init_slot", "init_count"}]
  /\ arg \in [Clients -> Timers \cup {NULL}]

(***************************************************************************)
(* A tick that comes in the middle of os_timer_init never meets a slot     *)
(* that was not written, and a timer is registered once.                   *)
(***************************************************************************)
SlotsFilled ==
  \A i \in 1 .. os_timer_count :
    /\ os_timers[i] # NULL
    /\ \A j \in 1 .. i - 1 : os_timers[j] # os_timers[i]

(***************************************************************************)
(* No timer fires early: when its callback runs, a period of ticks has     *)
(* passed since the last call that armed it began, however calls, ticks    *)
(* and callbacks interleave.  A callback may arm the timer of a later      *)
(* slot, for which the tick in progress counts.                            *)
(***************************************************************************)
NotEarly ==
  InTick /\ Due(os_timers[tick_i]) =>
    begun[os_timers[tick_i]] + 1 >= period_ticks[os_timers[tick_i]]

(***************************************************************************)
(* No running timer is overdue: between ticks, with no call on it under    *)
(* way, less than a period has passed since the last call that armed it    *)
(* ended, or since it was reloaded.                                        *)
(***************************************************************************)
NeverOverdue ==
  \A i \in 1 .. os_timer_count :
    LET t == os_timers[i]
    IN  /\ tick_i = 0
        /\ timer[t].state = "RUNNING"
        /\ \A c \in Clients : arg[c] # t
        => armed[t] < period_ticks[t]
-----------------------------------------------------------------------------
(***************************************************************************)
(* The inductive invariant behind them.  A slot that the tick under way    *)
(* has still to visit is one tick older than its counter tells.            *)
(***************************************************************************)
InitialisedOnce ==
  \A i, j \in 1 .. Len(Created) : Created[i] = Created[j] => i = j

(* The timers are initialised in turn; one whose call is under way is out   *)
(* of everybody else's reach.                                               *)
InitInTurn ==
  /\ \A i \in 1 .. os_timer_count : os_timers[i] \in Initialised
  /\ \A c \in Clients :
       CASE pc[c] = "run" -> arg[c] = NULL
         [] pc[c] \in {"start", "reset", "restart"} -> arg[c] \in Initialised
         [] pc[c] \in {"init_slot", "init_count"} ->
              /\ c = Creator
              /\ os_timer_count < OS_MAX_TIMERS
              /\ inits < Len(Created) /\ arg[c] = Created[inits + 1]
              /\ timer[arg[c]] = [state |-> "STOPPED",
                                  remaining_ticks |-> period_ticks[arg[c]]]
              /\ pc[c] = "init_count" => os_timers[os_timer_count + 1] = arg[c]

StillToCome(i) == tick_i > 0 /\ i >= tick_i

CountersNotEarly ==
  \A i \in 1 .. os_timer_count :
    LET t == os_timers[i]
    IN  timer[t].remaining_ticks + begun[t] + (IF StillToCome(i) THEN 0 ELSE 1)
          >= period_ticks[t]

CountersNotLate ==
  \A i \in 1 .. os_timer_count :
    LET t    == os_timers[i]
        last == period_ticks[t] + (IF StillToCome(i) THEN 1 ELSE 0)
    IN  timer[t].state = "RUNNING" /\ (\A c \in Clients : arg[c] # t) =>
          armed[t] < last /\ armed[t] + timer[t].remaining_ticks <= last

TimerInv ==
  /\ TimerTypeOK
  /\ begun \in [Timers -> Nat] /\ armed \in [Timers -> Nat]
  /\ SlotsFilled
  /\ InitInTurn
  /\ CountersNotEarly
  /\ CountersNotLate
=============================================================================
