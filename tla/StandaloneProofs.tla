--------------------------- MODULE StandaloneProofs ---------------------------
(* Theorems about the two components that no task and no scheduler enters,  *)
(* each for all values of its own constants:                                *)
(*   - Timer: slots are filled, no timer is early, none late;               *)
(*   - Tlsf: the blocks tile the pool, lists and bitmaps hold the free ones *)
(*     exactly, the search is a good fit, and no byte is given out twice.   *)
EXTENDS Timer, Tlsf, FiniteSetTheorems, WellFoundedInduction, TLAPS

States == {"STOPPED", "RUNNING", "EXPIRED"}

Values == [Timers -> [state : States, remaining_ticks : Nat]]

InPeriod(tm) == \A t \in Timers : tm[t].remaining_ticks <= period_ticks[t]

(* What the calls write is a value of the timers, counters within periods.   *)
LEMMA WritesTyped ==
  ASSUME NEW tm \in Values, InPeriod(tm), NEW t \in Timers, NEW s \in States
  PROVE  /\ Rearmed(tm, t) \in Values /\ InPeriod(Rearmed(tm, t))
         /\ WithState(tm, t, s) \in Values /\ InPeriod(WithState(tm, t, s))
         /\ Decremented(tm, t) \in Values /\ InPeriod(Decremented(tm, t))
  BY TimerAssumption
     DEF Values, InPeriod, Rearmed, WithState, Decremented, States

(* What the calls leave in each timer.                                       *)
LEMMA WritesGive ==
  ASSUME NEW tm \in Values, NEW t \in Timers, NEW s \in States, NEW u \in Timers
  PROVE  /\ u # t => Rearmed(tm, t)[u] = tm[u] /\ WithState(tm, t, s)[u] = tm[u]
         /\ u = t => /\ Rearmed(tm, t)[u].state = tm[u].state
                     /\ Rearmed(tm, t)[u].remaining_ticks = period_ticks[u]
                     /\ WithState(tm, t, s)[u].state = s
                     /\ WithState(tm, t, s)[u].remaining_ticks =
                          tm[u].remaining_ticks
  BY DEF Rearmed, WithState, Values

LEMMA CallsGive ==
  ASSUME NEW tm \in Values, InPeriod(tm), NEW t \in Timers, NEW u \in Timers
  PROVE  /\ u # t => Started(tm, t)[u] = tm[u] /\ Restarted(tm, t)[u] = tm[u]
         /\ u = t => /\ Started(tm, t)[u].remaining_ticks = period_ticks[u]
                     /\ Restarted(tm, t)[u].remaining_ticks = period_ticks[u]
<1>1. "RUNNING" \in States
  BY DEF States
<1>2. Rearmed(tm, t) \in Values
  BY <1>1, WritesTyped
<1>3. /\ u # t => Rearmed(tm, t)[u] = tm[u]
      /\ u = t => Rearmed(tm, t)[u].remaining_ticks = period_ticks[u]
  BY <1>1, WritesGive
<1>4. /\ u # t => Started(tm, t)[u] = tm[u]
      /\ u = t => Started(tm, t)[u].remaining_ticks = period_ticks[u]
  BY <1>1, <1>2, <1>3, WritesGive DEF Started
<1>5. Restarted(tm, t) = Started(tm, t) \/ Restarted(tm, t) = Rearmed(tm, t)
  BY DEF Started, Restarted
<1> QED
  BY <1>3, <1>4, <1>5

LEMMA CallsTyped ==
  ASSUME NEW tm \in Values, InPeriod(tm), NEW t \in Timers
  PROVE  /\ Started(tm, t) \in Values /\ InPeriod(Started(tm, t))
         /\ Restarted(tm, t) \in Values /\ InPeriod(Restarted(tm, t))
         /\ Expired(tm, t) \in Values /\ InPeriod(Expired(tm, t))
<1>1. Rearmed(tm, t) \in Values /\ InPeriod(Rearmed(tm, t))
  BY WritesTyped DEF States
<1>2. "RUNNING" \in States /\ "EXPIRED" \in States
  BY DEF States
<1> QED
  BY <1>1, <1>2, WritesTyped DEF Started, Restarted, Expired

LEMMA EffectOfCalls ==
  ASSUME NEW tm \in Values, InPeriod(tm), NEW t \in Timers
  PROVE  /\ Started(tm, t) \in Values /\ InPeriod(Started(tm, t))
         /\ Restarted(tm, t) \in Values /\ InPeriod(Restarted(tm, t))
         /\ WithState(tm, t, "STOPPED") \in Values
         /\ InPeriod(WithState(tm, t, "STOPPED"))
         /\ Started(tm, t)[t].remaining_ticks = period_ticks[t]
         /\ Restarted(tm, t)[t].remaining_ticks = period_ticks[t]
         /\ WithState(tm, t, "STOPPED")[t].remaining_ticks = tm[t].remaining_ticks
         /\ WithState(tm, t, "STOPPED")[t].state = "STOPPED"
         /\ \A u \in Timers : u # t =>
              /\ Started(tm, t)[u] = tm[u]
              /\ Restarted(tm, t)[u] = tm[u]
              /\ WithState(tm, t, "STOPPED")[u] = tm[u]
<1>1. "STOPPED" \in States
  BY DEF States
<1>2. /\ WithState(tm, t, "STOPPED") \in Values
      /\ InPeriod(WithState(tm, t, "STOPPED"))
  BY <1>1, WritesTyped
<1>3. /\ WithState(tm, t, "STOPPED")[t].remaining_ticks = tm[t].remaining_ticks
      /\ WithState(tm, t, "STOPPED")[t].state = "STOPPED"
      /\ \A u \in Timers : u # t => WithState(tm, t, "STOPPED")[u] = tm[u]
  BY <1>1, WritesGive
<1> QED
  BY <1>2, <1>3, CallsTyped, CallsGive

(* What one call inside a callback leaves in each timer.                     *)
LEMMA EffectFacts ==
  ASSUME NEW tm \in Values, InPeriod(tm), Initialised \subseteq Timers,
         NEW f \in CallbackCalls
  PROVE  /\ Effect(tm, f) \in Values /\ InPeriod(Effect(tm, f))
         /\ \A u \in Timers :
              /\ f.op \in {"start", "reset"} /\ u = f.on =>
                   Effect(tm, f)[u].remaining_ticks = period_ticks[u]
              /\ ~ (f.op \in {"start", "reset"} /\ u = f.on) =>
                   /\ Effect(tm, f)[u].remaining_ticks = tm[u].remaining_ticks
                   /\ Effect(tm, f)[u].state = "RUNNING" => tm[u].state = "RUNNING"
              /\ u # f.on => Effect(tm, f)[u] = tm[u]
<1>1. f.op \in {"none", "start", "stop", "reset"} /\ f.on \in Timers
  BY DEF CallbackCalls
<1>2. PICK t \in Timers : t = f.on
  BY <1>1
<1>3. CASE f.op = "none"
  BY <1>3 DEF Effect
<1>4. CASE f.op = "start"
  <2>1. Effect(tm, f) = Started(tm, t)
    BY <1>2, <1>4 DEF Effect
  <2>2. /\ Started(tm, t) \in Values /\ InPeriod(Started(tm, t))
        /\ Started(tm, t)[t].remaining_ticks = period_ticks[t]
        /\ \A u \in Timers : u # t => Started(tm, t)[u] = tm[u]
    BY <1>2, EffectOfCalls
  <2> QED
    BY <1>2, <1>4, <2>1, <2>2
<1>5. CASE f.op = "stop"
  <2>1. Effect(tm, f) = WithState(tm, t, "STOPPED")
    BY <1>2, <1>5 DEF Effect
  <2>2. /\ WithState(tm, t, "STOPPED") \in Values /\ InPeriod(WithState(tm, t, "STOPPED"))
        /\ WithState(tm, t, "STOPPED")[t].remaining_ticks = tm[t].remaining_ticks
        /\ WithState(tm, t, "STOPPED")[t].state = "STOPPED"
        /\ \A u \in Timers : u # t => WithState(tm, t, "STOPPED")[u] = tm[u]
    BY <1>2, EffectOfCalls
  <2> QED
    BY <1>2, <1>5, <2>1, <2>2
<1>6. CASE f.op = "reset"
  <2>1. Effect(tm, f) = Restarted(tm, t)
    BY <1>2, <1>6 DEF Effect
  <2>2. /\ Restarted(tm, t) \in Values /\ InPeriod(Restarted(tm, t))
        /\ Restarted(tm, t)[t].remaining_ticks = period_ticks[t]
        /\ \A u \in Timers : u # t => Restarted(tm, t)[u] = tm[u]
    BY <1>2, EffectOfCalls
  <2> QED
    BY <1>2, <1>6, <2>1, <2>2
<1> QED
  BY <1>1, <1>3, <1>4, <1>5, <1>6

(* What a firing of timer t leaves in each timer: the timers it arms have    *)
(* their period before them, no other one is newly running, and the counter  *)
(* of t is at zero unless it was armed.                                      *)
LEMMA FiringFacts ==
  ASSUME timer \in Values, InPeriod(timer), Initialised \subseteq Timers,
         NEW t \in Timers, Due(t), NEW f \in CallbackCalls
  PROVE  LET after == Expired(Effect(Decremented(timer, t), f), t)
         IN  /\ after \in Values /\ InPeriod(after)
             /\ \A u \in Timers :
                  /\ u \in ArmedBy(t, f) =>
                       after[u].remaining_ticks = period_ticks[u]
                  /\ u \notin ArmedBy(t, f) =>
                       /\ after[u].remaining_ticks =
                            IF u = t THEN 0 ELSE timer[u].remaining_ticks
                       /\ after[u].state = "RUNNING" =>
                            u # t /\ timer[u].state = "RUNNING"
                  /\ u \notin {t, f.on} => after[u] = timer[u]
<1> DEFINE tm == Decremented(timer, t)
           ef == Effect(tm, f)
           after == Expired(ef, t)
<1>1. "RUNNING" \in States
  BY DEF States
<1>2. /\ tm \in Values /\ InPeriod(tm)
      /\ tm[t].remaining_ticks = 0
      /\ \A u \in Timers : u # t => tm[u] = timer[u]
  BY <1>1, WritesTyped DEF Due, Decremented, Values
<1>3. ef \in Values /\ InPeriod(ef)
  BY <1>2, EffectFacts
<1>4. after \in Values /\ InPeriod(after)
  BY <1>3, CallsTyped
<1>5. \A u \in Timers :
        /\ f.op \in {"start", "reset"} /\ u = f.on =>
             ef[u].remaining_ticks = period_ticks[u]
        /\ ~ (f.op \in {"start", "reset"} /\ u = f.on) =>
             /\ ef[u].remaining_ticks = tm[u].remaining_ticks
             /\ ef[u].state = "RUNNING" => tm[u].state = "RUNNING"
        /\ u # f.on => ef[u] = tm[u]
  BY <1>2, EffectFacts
<1>6. \A u \in Timers :
        /\ u # t => after[u] = ef[u]
        /\ u = t /\ repeating[t] => after[u].remaining_ticks = period_ticks[u]
        /\ u = t /\ ~ repeating[t] =>
             /\ after[u].remaining_ticks = ef[u].remaining_ticks
             /\ after[u].state = "EXPIRED"
  BY <1>3 DEF Expired, Rearmed, WithState, Values
<1>7. \A u \in Timers :
        u \in ArmedBy(t, f) <=> \/ u = t /\ repeating[t]
                                \/ f.op \in {"start", "reset"} /\ u = f.on
  BY DEF ArmedBy
<1>8. ASSUME NEW u \in Timers
      PROVE  /\ u \in ArmedBy(t, f) =>
                  after[u].remaining_ticks = period_ticks[u]
             /\ u \notin ArmedBy(t, f) =>
                  /\ after[u].remaining_ticks =
                       IF u = t THEN 0 ELSE timer[u].remaining_ticks
                  /\ after[u].state = "RUNNING" =>
                       u # t /\ timer[u].state = "RUNNING"
             /\ u \notin {t, f.on} => after[u] = timer[u]
  <2> HIDE DEF tm, ef, after
  <2>1. CASE u = t
    BY <1>2, <1>5, <1>6, <1>7, <2>1
  <2>2. CASE u # t
    BY <1>2, <1>5, <1>6, <1>7, <2>2
  <2> QED
    BY <2>1, <2>2
<1> QED
  BY <1>4, <1>8
-----------------------------------------------------------------------------
(* What TimerInv says of the timers, in the forms the steps need.            *)
LEMMA TimerFacts ==
  ASSUME TimerInv
  PROVE  /\ timer \in Values /\ InPeriod(timer)
         /\ Initialised \subseteq Timers
         /\ os_timer_count \in Nat /\ inits \in 0 .. Len(Created)
         /\ \A i \in 1 .. os_timer_count :
              /\ i \in 1 .. OS_MAX_TIMERS
              /\ os_timers[i] \in Initialised
              /\ \A j \in 1 .. os_timer_count : j # i => os_timers[j] # os_timers[i]
         /\ tick_i \in Nat
<1>1. /\ timer \in Values /\ InPeriod(timer)
      /\ os_timer_count \in 0 .. OS_MAX_TIMERS /\ inits \in 0 .. Len(Created)
      /\ tick_i \in Nat
  BY TimerAssumption DEF TimerInv, TimerTypeOK, Values, States, InPeriod
<1>2. Initialised \subseteq Timers
  BY <1>1, TimerAssumption DEF Initialised
<1>3. ASSUME NEW i \in 1 .. os_timer_count, NEW j \in 1 .. os_timer_count, j # i
      PROVE  os_timers[j] # os_timers[i]
  <2>1. i < j \/ j < i
    BY <1>1, <1>3
  <2> QED
    BY <1>1, <1>3, <2>1 DEF TimerInv, SlotsFilled
<1> QED
  BY <1>1, <1>2, <1>3, TimerAssumption DEF TimerInv, InitInTurn

(* The timer that is initialised next is in nobody's reach yet.              *)
LEMMA NextIsNew ==
  ASSUME InitialisedOnce, TimerInv, inits < Len(Created)
  PROVE  /\ Created[inits + 1] \in Timers
         /\ Created[inits + 1] \notin Initialised
         /\ \A i \in 1 .. os_timer_count : os_timers[i] # Created[inits + 1]
<1>1. inits + 1 \in 1 .. Len(Created) /\ inits \in Nat
  BY TimerFacts, TimerAssumption
<1>2. Created[inits + 1] \notin Initialised
  <2>1. \A n \in 1 .. inits : n \in 1 .. Len(Created) /\ n # inits + 1
    BY <1>1
  <2> QED
    BY <1>1, <2>1 DEF Initialised, InitialisedOnce
<1> QED
  BY <1>1, <1>2, TimerFacts, TimerAssumption

(* A step between ticks keeps the counters right if it leaves each           *)
(* registered timer alone, arms it or stops it.                              *)
LEMMA CountersKept ==
  ASSUME TimerInv, UNCHANGED <<tick_i, os_timer_count>>,
         \A i \in 1 .. os_timer_count : os_timers'[i] = os_timers[i],
         timer' \in Values, InPeriod(timer'),
         begun' \in [Timers -> Nat], armed' \in [Timers -> Nat],
         \A t \in Initialised :
           /\ \/ timer'[t].remaining_ticks = period_ticks[t]
              \/ /\ timer'[t].remaining_ticks = timer[t].remaining_ticks
                 /\ begun'[t] = begun[t]
           /\ \/ timer'[t].state # "RUNNING"
              \/ armed'[t] = 0
              \/ \E c \in Clients : arg'[c] = t
              \/ /\ armed'[t] = armed[t] /\ timer'[t] = timer[t]
                 /\ \A c \in Clients : arg[c] # t
  PROVE  (tick_i = 0 => CountersNotEarly' /\ CountersNotLate')
<1> SUFFICES ASSUME tick_i = 0
             PROVE  CountersNotEarly' /\ CountersNotLate'
  OBVIOUS
<1>1. ASSUME NEW i \in 1 .. os_timer_count
      PROVE  /\ os_timers[i] \in Initialised
             /\ os_timers[i] \in Timers
             /\ os_timers'[i] = os_timers[i]
             /\ period_ticks[os_timers[i]] \in Nat \ {0}
             /\ timer[os_timers[i]].remaining_ticks \in Nat
             /\ timer'[os_timers[i]].remaining_ticks \in Nat
             /\ timer'[os_timers[i]].remaining_ticks <= period_ticks[os_timers[i]]
             /\ begun[os_timers[i]] \in Nat /\ begun'[os_timers[i]] \in Nat
             /\ armed[os_timers[i]] \in Nat /\ armed'[os_timers[i]] \in Nat
             /\ ~ StillToCome(i) /\ ~ StillToCome(i)'
  BY TimerFacts, TimerAssumption DEF TimerInv, Values, InPeriod, StillToCome
<1>2. CountersNotEarly'
  <2> SUFFICES ASSUME NEW i \in 1 .. os_timer_count
               PROVE  timer'[os_timers[i]].remaining_ticks + begun'[os_timers[i]] + 1
                        >= period_ticks[os_timers[i]]
    BY <1>1 DEF CountersNotEarly
  <2>1. timer[os_timers[i]].remaining_ticks + begun[os_timers[i]] + 1
          >= period_ticks[os_timers[i]]
    BY <1>1 DEF TimerInv, CountersNotEarly
  <2> QED
    BY <1>1, <2>1
<1>3. CountersNotLate'
  <2> SUFFICES ASSUME NEW i \in 1 .. os_timer_count,
                      timer'[os_timers[i]].state = "RUNNING",
                      \A c \in Clients : arg'[c] # os_timers[i]
               PROVE  /\ armed'[os_timers[i]] < period_ticks[os_timers[i]]
                      /\ armed'[os_timers[i]] + timer'[os_timers[i]].remaining_ticks
                           <= period_ticks[os_timers[i]]
    BY <1>1 DEF CountersNotLate
  <2>1. CASE armed'[os_timers[i]] = 0
    BY <1>1, <2>1
  <2>2. CASE /\ armed'[os_timers[i]] = armed[os_timers[i]]
             /\ timer'[os_timers[i]] = timer[os_timers[i]]
             /\ \A c \in Clients : arg[c] # os_timers[i]
    BY <1>1, <2>2 DEF TimerInv, CountersNotLate
  <2> QED
    BY <1>1, <2>1, <2>2
<1> QED
  BY <1>2, <1>3
-----------------------------------------------------------------------------
(* InitInTurn after a step that moves no timer whose call is under way.      *)
LEMMA InTurnKept ==
  ASSUME InitialisedOnce, TimerInv, UNCHANGED tableVars,
         \A t \in Timers \ Initialised : timer'[t] = timer[t],
         \A c \in Clients :
           \/ pc'[c] = pc[c] /\ arg'[c] = arg[c]
           \/ pc'[c] = "run" /\ arg'[c] = NULL
           \/ pc'[c] \in {"start", "reset", "restart"} /\ arg'[c] \in Initialised
  PROVE  InitInTurn'
<1>1. Initialised' = Initialised
  BY DEF Initialised, tableVars
<1>2. \A i \in 1 .. os_timer_count' : os_timers'[i] \in Initialised'
  BY <1>1, TimerFacts DEF tableVars
<1>3. ASSUME NEW c \in Clients
      PROVE  CASE pc'[c] = "run" -> arg'[c] = NULL
               [] pc'[c] \in {"start", "reset", "restart"} -> arg'[c] \in Initialised'
               [] pc'[c] \in {"init_slot", "init_count"} ->
                    /\ c = Creator
                    /\ os_timer_count' < OS_MAX_TIMERS
                    /\ inits' < Len(Created) /\ arg'[c] = Created[inits' + 1]
                    /\ timer'[arg'[c]] = [state |-> "STOPPED",
                                         remaining_ticks |-> period_ticks[arg'[c]]]
                    /\ pc'[c] = "init_count" =>
                         os_timers'[os_timer_count' + 1] = arg'[c]
  <2>1. CASE pc'[c] = "run" /\ arg'[c] = NULL
    BY <2>1
  <2>2. CASE pc'[c] \in {"start", "reset", "restart"} /\ arg'[c] \in Initialised
    BY <1>1, <2>2
  <2>3. CASE pc'[c] = pc[c] /\ arg'[c] = arg[c]
    <3>1. CASE pc[c] = "run"
      BY <2>3, <3>1 DEF TimerInv, InitInTurn
    <3>2. CASE pc[c] \in {"start", "reset", "restart"}
      BY <1>1, <2>3, <3>2 DEF TimerInv, InitInTurn
    <3>3. CASE pc[c] \in {"init_slot", "init_count"}
      <4>1. /\ c = Creator
            /\ os_timer_count < OS_MAX_TIMERS
            /\ inits < Len(Created) /\ arg[c] = Created[inits + 1]
            /\ timer[arg[c]] = [state |-> "STOPPED",
                                remaining_ticks |-> period_ticks[arg[c]]]
            /\ pc[c] = "init_count" => os_timers[os_timer_count + 1] = arg[c]
        BY <3>3 DEF TimerInv, InitInTurn
      <4>2. timer'[arg[c]] = timer[arg[c]]
        BY <4>1, NextIsNew
      <4> QED
        BY <2>3, <3>3, <4>1, <4>2 DEF tableVars
    <3>4. pc[c] \in {"run", "start", "reset", "restart", "init_slot", "init_count"}
      BY DEF TimerInv, TimerTypeOK
    <3> QED
      BY <3>1, <3>2, <3>3, <3>4
  <2> QED
    BY <2>1, <2>2, <2>3
<1> QED
  BY <1>2, <1>3 DEF InitInTurn

(* A step of a call on timer t, between two ticks.                           *)
LEMMA CallKeepsInv ==
  ASSUME InitialisedOnce, TimerInv, tick_i = 0, UNCHANGED <<tableVars, tick_i>>,
         NEW c \in Clients, NEW t \in Initialised,
         arg[c] \in {NULL, t},
         pc' \in [Clients -> {"run", "start", "reset", "restart",
                              "init_slot", "init_count"}],
         arg' \in [Clients -> Timers \cup {NULL}],
         \A d \in Clients : d # c => pc'[d] = pc[d] /\ arg'[d] = arg[d],
         timer' \in Values, InPeriod(timer'),
         begun' \in [Timers -> Nat], armed' \in [Timers -> Nat],
         \A u \in Timers : u # t =>
           timer'[u] = timer[u] /\ begun'[u] = begun[u] /\ armed'[u] = armed[u],
         \/ timer'[t].remaining_ticks = period_ticks[t]
         \/ /\ timer'[t].remaining_ticks = timer[t].remaining_ticks
            /\ begun'[t] = begun[t],
         \/ pc'[c] \in {"start", "reset", "restart"} /\ arg'[c] = t
         \/ /\ pc'[c] = "run" /\ arg'[c] = NULL
            /\ timer'[t].state # "RUNNING" \/ armed'[t] = 0
  PROVE  TimerInv'
<1>1. /\ pc \in [Clients -> {"run", "start", "reset", "restart",
                              "init_slot", "init_count"}]
      /\ arg \in [Clients -> Timers \cup {NULL}]
      /\ t \in Timers
  BY TimerFacts DEF TimerInv, TimerTypeOK
<1>2. TimerTypeOK'
  BY <1>1 DEF TimerInv, TimerTypeOK, tableVars, Values, States, InPeriod
<1>3. SlotsFilled'
  BY DEF TimerInv, SlotsFilled, tableVars
<1>4. InitInTurn'
  <2>1. \A u \in Timers \ Initialised : timer'[u] = timer[u]
    OBVIOUS
  <2>2. \A d \in Clients :
           \/ pc'[d] = pc[d] /\ arg'[d] = arg[d]
           \/ pc'[d] = "run" /\ arg'[d] = NULL
           \/ pc'[d] \in {"start", "reset", "restart"} /\ arg'[d] \in Initialised
    BY <1>1
  <2> QED
    BY <2>1, <2>2, InTurnKept
<1>5. ASSUME NEW u \in Initialised
      PROVE  /\ \/ timer'[u].remaining_ticks = period_ticks[u]
                \/ /\ timer'[u].remaining_ticks = timer[u].remaining_ticks
                   /\ begun'[u] = begun[u]
             /\ \/ timer'[u].state # "RUNNING"
                \/ armed'[u] = 0
                \/ \E d \in Clients : arg'[d] = u
                \/ /\ armed'[u] = armed[u] /\ timer'[u] = timer[u]
                   /\ \A d \in Clients : arg[d] # u
  <2>1. u \in Timers /\ u # NULL
    BY TimerFacts, TimerAssumption
  <2>2. CASE u = t
    BY <2>2
  <2>3. CASE u # t
    <3>1. ASSUME NEW d \in Clients, arg[d] = u
          PROVE  arg'[d] = u
      BY <1>1, <2>1, <2>3, <3>1
    <3> QED
      BY <2>1, <2>3, <3>1
  <2> QED
    BY <2>2, <2>3
<1>6. CountersNotEarly' /\ CountersNotLate'
  BY <1>5, CountersKept DEF tableVars
<1> QED
  BY <1>2, <1>3, <1>4, <1>6 DEF TimerInv

(* The clients' calls, write by write.                                       *)
LEMMA ClientKeepsInv ==
  ASSUME InitialisedOnce, TimerInv, UNCHANGED tableVars,
         NEW c \in Clients, NEW t \in Initialised,
         os_timer_start(c, t) \/ os_timer_stop(c, t) \/ os_timer_reset(c, t)
  PROVE  TimerInv'
<1> DEFINE StepOf(label, on) ==
      /\ pc' \in [Clients -> {"run", "start", "reset", "restart",
                              "init_slot", "init_count"}]
      /\ arg' \in [Clients -> Timers \cup {NULL}]
      /\ \A d \in Clients : d # c => pc'[d] = pc[d] /\ arg'[d] = arg[d]
      /\ pc'[c] = label /\ arg'[c] = on
<1> HIDE DEF StepOf
<1>1. /\ timer \in Values /\ InPeriod(timer) /\ t \in Timers
      /\ begun \in [Timers -> Nat] /\ armed \in [Timers -> Nat]
      /\ pc \in [Clients -> {"run", "start", "reset", "restart",
                              "init_slot", "init_count"}]
      /\ arg \in [Clients -> Timers \cup {NULL}]
  BY TimerFacts DEF TimerInv, TimerTypeOK
<1>2. "RUNNING" \in States /\ "STOPPED" \in States
  BY DEF States
<1>3. /\ Zeroed(begun, {t}) \in [Timers -> Nat]
      /\ Zeroed(armed, {t}) \in [Timers -> Nat] /\ Zeroed(armed, {t})[t] = 0
      /\ \A u \in Timers : u # t => /\ Zeroed(begun, {t})[u] = begun[u]
                                  /\ Zeroed(armed, {t})[u] = armed[u]
  BY <1>1 DEF Zeroed
<1>4. /\ Rearmed(timer, t) \in Values /\ InPeriod(Rearmed(timer, t))
      /\ \A s \in {"RUNNING", "STOPPED"} :
           WithState(timer, t, s) \in Values /\ InPeriod(WithState(timer, t, s))
  BY <1>1, <1>2, WritesTyped
<1>5. /\ Rearmed(timer, t)[t].remaining_ticks = period_ticks[t]
      /\ \A u \in Timers : u # t => Rearmed(timer, t)[u] = timer[u]
  BY <1>1, <1>2, WritesGive
<1>6. ASSUME NEW s \in {"RUNNING", "STOPPED"}
      PROVE  /\ WithState(timer, t, s)[t].remaining_ticks =
                  timer[t].remaining_ticks
             /\ WithState(timer, t, s)[t].state = s
             /\ \A u \in Timers : u # t => WithState(timer, t, s)[u] = timer[u]
  <2>1. s \in States
    BY <1>2
  <2> QED
    BY <1>1, <2>1, WritesGive
<1>7. ASSUME NEW label \in {"start", "reset"}, Rearm(c, t, label)
      PROVE  TimerInv'
  <2>1. /\ timer' = Rearmed(timer, t)
        /\ tick_i = 0 /\ tick_i' = tick_i /\ arg[c] = NULL
        /\ begun' = Zeroed(begun, {t}) /\ armed' = armed
        /\ pc' = [pc EXCEPT ![c] = label]
        /\ arg' = [arg EXCEPT ![c] = t]
    BY <1>7 DEF Rearm, At, Goto
  <2>3. StepOf(label, t)
    BY <1>1, <2>1 DEF StepOf
  <2>2. /\ timer' \in Values /\ InPeriod(timer')
        /\ timer'[t].remaining_ticks = period_ticks[t]
        /\ \A u \in Timers : u # t => timer'[u] = timer[u]
    BY <1>4, <1>5, <2>1
  <2>4. /\ begun' \in [Timers -> Nat] /\ armed' \in [Timers -> Nat]
        /\ \A u \in Timers : u # t => begun'[u] = begun[u] /\ armed'[u] = armed[u]
    BY <1>1, <1>3, <2>1
  <2>5. tick_i = 0 /\ tick_i' = tick_i /\ arg[c] \in {NULL, t}
    BY <2>1
  <2> QED
    BY <2>2, <2>3, <2>4, <2>5, CallKeepsInv DEF StepOf
<1>8. ASSUME NEW label \in {"start", "restart"}, SetRunning(c, t, label)
      PROVE  TimerInv'
  <2>1. /\ timer' = WithState(timer, t, "RUNNING")
        /\ tick_i = 0 /\ tick_i' = tick_i /\ arg[c] = t
        /\ armed' = Zeroed(armed, {t}) /\ begun' = begun
        /\ pc' = [pc EXCEPT ![c] = "run"]
        /\ arg' = [arg EXCEPT ![c] = NULL]
    BY <1>8 DEF SetRunning, At, Goto
  <2>3. StepOf("run", NULL)
    BY <1>1, <2>1 DEF StepOf
  <2>2. /\ timer' \in Values /\ InPeriod(timer')
        /\ timer'[t].remaining_ticks = timer[t].remaining_ticks
        /\ \A u \in Timers : u # t => timer'[u] = timer[u]
    BY <1>4, <1>6, <2>1
  <2>4. /\ begun' \in [Timers -> Nat] /\ armed' \in [Timers -> Nat]
        /\ \A u \in Timers : u # t => begun'[u] = begun[u] /\ armed'[u] = armed[u]
        /\ armed'[t] = 0 /\ begun'[t] = begun[t]
    BY <1>1, <1>3, <2>1
  <2>5. tick_i = 0 /\ tick_i' = tick_i /\ arg[c] \in {NULL, t}
    BY <2>1
  <2> QED
    BY <2>2, <2>3, <2>4, <2>5, CallKeepsInv DEF StepOf
<1>9. CASE os_timer_stop(c, t)
  <2>1. /\ timer' = WithState(timer, t, "STOPPED")
        /\ tick_i = 0 /\ tick_i' = tick_i /\ arg[c] = NULL /\ pc[c] = "run"
        /\ armed' = armed /\ begun' = begun /\ pc' = pc /\ arg' = arg
    BY <1>9 DEF os_timer_stop, At
  <2>2. StepOf("run", NULL)
    BY <1>1, <2>1 DEF StepOf
  <2>3. /\ timer' \in Values /\ InPeriod(timer')
        /\ timer'[t].remaining_ticks = timer[t].remaining_ticks
        /\ timer'[t].state = "STOPPED"
        /\ \A u \in Timers : u # t => timer'[u] = timer[u]
    BY <1>4, <1>6, <2>1
  <2> QED
    BY <1>1, <2>1, <2>2, <2>3, CallKeepsInv DEF StepOf
<1>10. CASE At(c, "reset", t) /\ Goto(c, "restart", t)
           /\ UNCHANGED <<timer, begun, armed>>
  <2>1. /\ tick_i = 0 /\ tick_i' = tick_i /\ arg[c] = t
        /\ pc' = [pc EXCEPT ![c] = "restart"]
        /\ arg' = [arg EXCEPT ![c] = t]
        /\ timer' = timer /\ begun' = begun /\ armed' = armed
    BY <1>10 DEF At, Goto
  <2>2. StepOf("restart", t)
    BY <1>1, <2>1 DEF StepOf
  <2> QED
    BY <1>1, <2>1, <2>2, CallKeepsInv DEF StepOf
<1>11. CASE At(c, "reset", t) /\ armed' = Zeroed(armed, {t})
           /\ Goto(c, "run", t) /\ UNCHANGED <<timer, begun>>
  <2>1. /\ tick_i = 0 /\ tick_i' = tick_i /\ arg[c] = t
        /\ pc' = [pc EXCEPT ![c] = "run"]
        /\ arg' = [arg EXCEPT ![c] = NULL]
        /\ timer' = timer /\ begun' = begun /\ armed' = Zeroed(armed, {t})
    BY <1>11 DEF At, Goto
  <2>2. StepOf("run", NULL)
    BY <1>1, <2>1 DEF StepOf
  <2>3. /\ begun' \in [Timers -> Nat] /\ armed' \in [Timers -> Nat]
        /\ \A u \in Timers : u # t => begun'[u] = begun[u] /\ armed'[u] = armed[u]
        /\ armed'[t] = 0 /\ begun'[t] = begun[t] /\ timer' = timer
    BY <1>1, <1>3, <2>1
  <2>4. tick_i = 0 /\ tick_i' = tick_i /\ arg[c] \in {NULL, t}
    BY <2>1
  <2> QED
    BY <1>1, <2>2, <2>3, <2>4, CallKeepsInv DEF StepOf
<1> QED
  BY <1>7, <1>8, <1>9, <1>10, <1>11 DEF os_timer_start, os_timer_reset
-----------------------------------------------------------------------------
(* os_timer_init: the timer it is about is in nobody's reach.                *)
LEMMA InitFieldsKeepsInv ==
  ASSUME InitialisedOnce, TimerInv, NEW t \in Timers, InitFields(t),
         UNCHANGED <<begun, armed>>
  PROVE  TimerInv'
<1>1. /\ tick_i = 0 /\ tick_i' = tick_i
      /\ pc[Creator] = "run" /\ arg[Creator] = NULL
      /\ inits < Len(Created) /\ t = Created[inits + 1]
      /\ timer' = [timer EXCEPT
           ![t] = [state |-> "STOPPED", remaining_ticks |-> period_ticks[t]]]
      /\ os_timers' = os_timers /\ os_timer_count' = os_timer_count
      /\ begun' = begun /\ armed' = armed
      /\ inits' \in {inits, inits + 1}
  BY DEF InitFields, At, Goto
<1>2. /\ Creator \in Clients
      /\ pc \in [Clients -> {"run", "start", "reset", "restart",
                              "init_slot", "init_count"}]
      /\ arg \in [Clients -> Timers \cup {NULL}]
      /\ inits \in Nat /\ Len(Created) \in Nat
  BY TimerFacts, TimerAssumption DEF TimerInv, TimerTypeOK
<1>3. /\ \A c \in Clients : c # Creator => pc'[c] = pc[c] /\ arg'[c] = arg[c]
      /\ \/ /\ pc'[Creator] = "init_slot" /\ arg'[Creator] = t
            /\ os_timer_count < OS_MAX_TIMERS /\ inits' = inits
         \/ pc'[Creator] = "run" /\ arg'[Creator] = NULL
      /\ pc' \in [Clients -> {"run", "start", "reset", "restart",
                               "init_slot", "init_count"}]
      /\ arg' \in [Clients -> Timers \cup {NULL}]
  BY <1>1, <1>2 DEF InitFields, Goto
<1>4. /\ timer' \in Values /\ InPeriod(timer')
      /\ timer'[t] = [state |-> "STOPPED", remaining_ticks |-> period_ticks[t]]
      /\ \A u \in Timers : u # t => timer'[u] = timer[u]
  BY <1>1, TimerFacts, TimerAssumption DEF Values, States, InPeriod
<1>5. /\ t \notin Initialised
      /\ \A i \in 1 .. os_timer_count : os_timers[i] # t
      /\ Initialised \subseteq Initialised' /\ Initialised \subseteq Timers
  BY <1>1, <1>2, NextIsNew, TimerFacts DEF Initialised
<1>6. TimerTypeOK'
  BY <1>1, <1>2, <1>3, <1>4
     DEF TimerInv, TimerTypeOK, Values, States, InPeriod
<1>7. SlotsFilled'
  BY <1>1 DEF TimerInv, SlotsFilled
<1>8. InitInTurn'
  <2>1. \A i \in 1 .. os_timer_count' : os_timers'[i] \in Initialised'
    BY <1>1, <1>5, TimerFacts
  <2>2. ASSUME NEW c \in Clients, c # Creator
        PROVE  /\ pc'[c] \in {"run", "start", "reset", "restart"}
               /\ pc'[c] = "run" => arg'[c] = NULL
               /\ pc'[c] # "run" => arg'[c] \in Initialised'
    <3>1. pc[c] \in {"run", "start", "reset", "restart",
                     "init_slot", "init_count"}
      BY <1>2
    <3>2. CASE pc[c] = "run"
      BY <1>3, <2>2, <3>2 DEF TimerInv, InitInTurn
    <3>3. CASE pc[c] \in {"start", "reset", "restart"}
      BY <1>3, <1>5, <2>2, <3>3 DEF TimerInv, InitInTurn
    <3>4. CASE pc[c] \in {"init_slot", "init_count"}
      BY <2>2, <3>4 DEF TimerInv, InitInTurn
    <3> QED
      BY <3>1, <3>2, <3>3, <3>4
  <2>3. pc'[Creator] = "init_slot" =>
          /\ os_timer_count' < OS_MAX_TIMERS
          /\ inits' < Len(Created) /\ arg'[Creator] = Created[inits' + 1]
          /\ timer'[arg'[Creator]] =
               [state |-> "STOPPED",
                remaining_ticks |-> period_ticks[arg'[Creator]]]
    BY <1>1, <1>3, <1>4
  <2>4. \/ pc'[Creator] = "init_slot"
        \/ pc'[Creator] = "run" /\ arg'[Creator] = NULL
    BY <1>3
  <2> QED
    BY <2>1, <2>2, <2>3, <2>4 DEF InitInTurn
<1>9. ASSUME NEW u \in Initialised
      PROVE  /\ timer'[u] = timer[u] /\ begun'[u] = begun[u] /\ armed'[u] = armed[u]
             /\ \/ \E c \in Clients : arg'[c] = u
                \/ \A c \in Clients : arg[c] # u
  <2>1. u \in Timers /\ u # t /\ u # NULL
    BY <1>5, TimerAssumption
  <2>2. ASSUME NEW c \in Clients, arg[c] = u
        PROVE  arg'[c] = u
    BY <1>1, <1>3, <2>1, <2>2
  <2> QED
    BY <1>1, <1>4, <2>1, <2>2
<1>10. CountersNotEarly' /\ CountersNotLate'
  <2>1. begun' \in [Timers -> Nat] /\ armed' \in [Timers -> Nat]
    BY <1>1 DEF TimerInv
  <2>2. \A u \in Initialised :
          /\ \/ timer'[u].remaining_ticks = period_ticks[u]
             \/ /\ timer'[u].remaining_ticks = timer[u].remaining_ticks
                /\ begun'[u] = begun[u]
          /\ \/ timer'[u].state # "RUNNING"
             \/ armed'[u] = 0
             \/ \E c \in Clients : arg'[c] = u
             \/ /\ armed'[u] = armed[u] /\ timer'[u] = timer[u]
                /\ \A c \in Clients : arg[c] # u
    BY <1>9
  <2>3. /\ tick_i = 0 /\ tick_i' = tick_i /\ os_timer_count' = os_timer_count
        /\ \A i \in 1 .. os_timer_count : os_timers'[i] = os_timers[i]
    BY <1>1
  <2> QED
    BY <1>4, <2>1, <2>2, <2>3, CountersKept
<1> QED
  BY <1>1, <1>6, <1>7, <1>8, <1>10 DEF TimerInv

(* The write of the slot, which no tick visits yet.                          *)
LEMMA InitSlotKeepsInv ==
  ASSUME InitialisedOnce, TimerInv, NEW t \in Timers, InitSlot(t),
         UNCHANGED <<begun, armed>>
  PROVE  TimerInv'
<1>1. /\ tick_i = 0 /\ tick_i' = tick_i
      /\ pc[Creator] = "init_slot" /\ arg[Creator] = t
      /\ os_timers' = [os_timers EXCEPT ![os_timer_count + 1] = t]
      /\ os_timer_count' = os_timer_count /\ inits' = inits /\ timer' = timer
      /\ begun' = begun /\ armed' = armed
      /\ pc' = [pc EXCEPT ![Creator] = "init_count"]
      /\ arg' = [arg EXCEPT ![Creator] = t]
  BY DEF InitSlot, At, Goto
<1>2. /\ Creator \in Clients
      /\ pc \in [Clients -> {"run", "start", "reset", "restart",
                              "init_slot", "init_count"}]
      /\ arg \in [Clients -> Timers \cup {NULL}]
      /\ os_timers \in [1 .. OS_MAX_TIMERS -> Timers \cup {NULL}]
      /\ os_timer_count \in Nat /\ OS_MAX_TIMERS \in Nat
  BY TimerFacts, TimerAssumption DEF TimerInv, TimerTypeOK
<1>3. /\ \A c \in Clients : c # Creator => pc'[c] = pc[c]
      /\ arg' = arg
      /\ pc'[Creator] = "init_count"
      /\ pc' \in [Clients -> {"run", "start", "reset", "restart",
                               "init_slot", "init_count"}]
  BY <1>1, <1>2
<1>4. /\ os_timer_count < OS_MAX_TIMERS
      /\ inits < Len(Created) /\ t = Created[inits + 1]
      /\ timer[t] = [state |-> "STOPPED", remaining_ticks |-> period_ticks[t]]
  BY <1>1, <1>2 DEF TimerInv, InitInTurn
<1>5. /\ os_timers' \in [1 .. OS_MAX_TIMERS -> Timers \cup {NULL}]
      /\ os_timers'[os_timer_count + 1] = t
      /\ \A i \in 1 .. os_timer_count : os_timers'[i] = os_timers[i]
  BY <1>1, <1>2, <1>4
<1>6. TimerTypeOK'
  BY <1>1, <1>3, <1>5 DEF TimerInv, TimerTypeOK
<1>7. SlotsFilled'
  BY <1>1, <1>2, <1>5 DEF TimerInv, SlotsFilled
<1>8. InitInTurn'
  <2>1. Initialised' = Initialised
    BY <1>1 DEF Initialised
  <2>2. \A i \in 1 .. os_timer_count' : os_timers'[i] \in Initialised'
    BY <1>1, <1>5, <2>1, TimerFacts
  <2>3. ASSUME NEW c \in Clients, c # Creator
        PROVE  /\ pc'[c] \in {"run", "start", "reset", "restart"}
               /\ pc'[c] = "run" => arg'[c] = NULL
               /\ pc'[c] # "run" => arg'[c] \in Initialised'
    <3>1. pc[c] \in {"run", "start", "reset", "restart",
                     "init_slot", "init_count"}
      BY <1>2
    <3>2. CASE pc[c] = "run"
      BY <1>3, <2>3, <3>2 DEF TimerInv, InitInTurn
    <3>3. CASE pc[c] \in {"start", "reset", "restart"}
      BY <1>3, <2>1, <2>3, <3>3 DEF TimerInv, InitInTurn
    <3>4. CASE pc[c] \in {"init_slot", "init_count"}
      BY <2>3, <3>4 DEF TimerInv, InitInTurn
    <3> QED
      BY <3>1, <3>2, <3>3, <3>4
  <2>4. /\ pc'[Creator] = "init_count" /\ arg'[Creator] = t
        /\ os_timer_count' < OS_MAX_TIMERS
        /\ inits' < Len(Created) /\ t = Created[inits' + 1]
        /\ timer'[t] = [state |-> "STOPPED", remaining_ticks |-> period_ticks[t]]
        /\ os_timers'[os_timer_count' + 1] = t
    BY <1>1, <1>3, <1>4, <1>5
  <2> QED
    BY <2>2, <2>3, <2>4 DEF InitInTurn
<1>9. ASSUME NEW i \in 1 .. os_timer_count
      PROVE  os_timers'[i] = os_timers[i] /\ StillToCome(i)' = StillToCome(i)
  BY <1>1, <1>5 DEF StillToCome
<1>10. CountersNotEarly'
  BY <1>1, <1>9 DEF TimerInv, CountersNotEarly
<1>11. CountersNotLate'
  BY <1>1, <1>3, <1>9 DEF TimerInv, CountersNotLate
<1> QED
  BY <1>1, <1>6, <1>7, <1>8, <1>10, <1>11 DEF TimerInv

(* The count: the slot joins, its timer stopped and its counter full.        *)
LEMMA InitCountKeepsInv ==
  ASSUME InitialisedOnce, TimerInv, NEW t \in Timers, InitCount(t),
         UNCHANGED <<begun, armed>>
  PROVE  TimerInv'
<1>1. /\ tick_i = 0 /\ tick_i' = tick_i
      /\ pc[Creator] = "init_count" /\ arg[Creator] = t
      /\ os_timers' = os_timers /\ timer' = timer
      /\ os_timer_count' = os_timer_count + 1 /\ inits' = inits + 1
      /\ begun' = begun /\ armed' = armed
      /\ pc' = [pc EXCEPT ![Creator] = "run"]
      /\ arg' = [arg EXCEPT ![Creator] = NULL]
  BY DEF InitCount, At, Goto
<1>2. /\ Creator \in Clients
      /\ pc \in [Clients -> {"run", "start", "reset", "restart",
                              "init_slot", "init_count"}]
      /\ arg \in [Clients -> Timers \cup {NULL}]
      /\ os_timer_count \in Nat /\ inits \in Nat /\ OS_MAX_TIMERS \in Nat
      /\ Len(Created) \in Nat
      /\ period_ticks[t] \in Nat /\ begun[t] \in Nat
      /\ t # NULL
  BY TimerFacts, TimerAssumption DEF TimerInv, TimerTypeOK
<1>3. /\ \A c \in Clients : c # Creator => pc'[c] = pc[c] /\ arg'[c] = arg[c]
      /\ pc'[Creator] = "run" /\ arg'[Creator] = NULL
      /\ pc' \in [Clients -> {"run", "start", "reset", "restart",
                               "init_slot", "init_count"}]
      /\ arg' \in [Clients -> Timers \cup {NULL}]
  BY <1>1, <1>2
<1>4. /\ os_timer_count < OS_MAX_TIMERS
      /\ inits < Len(Created) /\ t = Created[inits + 1]
      /\ timer[t] = [state |-> "STOPPED", remaining_ticks |-> period_ticks[t]]
      /\ os_timers[os_timer_count + 1] = t
  BY <1>1, <1>2 DEF TimerInv, InitInTurn
<1>5. /\ t \in Initialised' /\ Initialised \subseteq Initialised'
      /\ \A i \in 1 .. os_timer_count : os_timers[i] # t
  BY <1>1, <1>2, <1>4, NextIsNew DEF Initialised
<1>6. TimerTypeOK'
  BY <1>1, <1>2, <1>3, <1>4 DEF TimerInv, TimerTypeOK
<1>7. SlotsFilled'
  <2> SUFFICES ASSUME NEW i \in 1 .. os_timer_count + 1
               PROVE  /\ os_timers[i] # NULL
                      /\ \A j \in 1 .. i - 1 : os_timers[j] # os_timers[i]
    BY <1>1 DEF SlotsFilled
  <2>1. CASE i \in 1 .. os_timer_count
    BY <2>1 DEF TimerInv, SlotsFilled
  <2>2. CASE i = os_timer_count + 1
    <3>1. os_timers[i] # NULL /\ os_timers[i] = t
      BY <1>2, <1>4, <2>2
    <3>2. \A j \in 1 .. i - 1 : j \in 1 .. os_timer_count
      BY <1>2, <2>2
    <3> QED
      BY <1>5, <3>1, <3>2
  <2> QED
    BY <1>2, <2>1, <2>2
<1>8. InitInTurn'
  <2>1. \A i \in 1 .. os_timer_count' : os_timers'[i] \in Initialised'
    BY <1>1, <1>2, <1>4, <1>5, TimerFacts
  <2>2. ASSUME NEW c \in Clients
        PROVE  /\ pc'[c] \in {"run", "start", "reset", "restart"}
               /\ pc'[c] = "run" => arg'[c] = NULL
               /\ pc'[c] # "run" => arg'[c] \in Initialised'
    <3>1. pc[c] \in {"run", "start", "reset", "restart",
                     "init_slot", "init_count"}
      BY <1>2
    <3>2. CASE c = Creator
      BY <1>3, <3>2
    <3>3. CASE c # Creator /\ pc[c] = "run"
      BY <1>3, <3>3 DEF TimerInv, InitInTurn
    <3>4. CASE c # Creator /\ pc[c] \in {"start", "reset", "restart"}
      BY <1>3, <1>5, <3>4 DEF TimerInv, InitInTurn
    <3>5. CASE c # Creator /\ pc[c] \in {"init_slot", "init_count"}
      BY <3>5 DEF TimerInv, InitInTurn
    <3> QED
      BY <3>1, <3>2, <3>3, <3>4, <3>5
  <2> QED
    BY <2>1, <2>2 DEF InitInTurn
<1>9. \A i : ~ StillToCome(i) /\ ~ StillToCome(i)'
  BY <1>1 DEF StillToCome
<1>10. CountersNotEarly'
  <2> SUFFICES ASSUME NEW i \in 1 .. os_timer_count + 1
               PROVE  timer[os_timers[i]].remaining_ticks + begun[os_timers[i]] + 1
                        >= period_ticks[os_timers[i]]
    BY <1>1, <1>9 DEF CountersNotEarly
  <2>1. CASE i \in 1 .. os_timer_count
    BY <1>9, <2>1 DEF TimerInv, CountersNotEarly
  <2>2. CASE i = os_timer_count + 1
    BY <1>2, <1>4, <2>2
  <2> QED
    BY <1>2, <2>1, <2>2
<1>11. \A i \in 1 .. os_timer_count + 1 :
         /\ os_timers[i] \in Timers /\ period_ticks[os_timers[i]] \in Nat
         /\ period_ticks[os_timers[i]] + 0 = period_ticks[os_timers[i]]
  <2>1. \A i \in 1 .. os_timer_count + 1 : os_timers[i] \in Timers
    BY <1>2, <1>4, TimerFacts
  <2> QED
    BY <2>1, TimerAssumption
<1>12. CountersNotLate'
  <2> SUFFICES ASSUME NEW i \in 1 .. os_timer_count + 1,
                      timer[os_timers[i]].state = "RUNNING",
                      \A c \in Clients : arg'[c] # os_timers[i]
               PROVE  /\ armed[os_timers[i]] < period_ticks[os_timers[i]]
                      /\ armed[os_timers[i]] + timer[os_timers[i]].remaining_ticks
                           <= period_ticks[os_timers[i]]
    BY <1>1, <1>9, <1>11 DEF CountersNotLate
  <2>1. i \in 1 .. os_timer_count
    BY <1>2, <1>4
  <2>2. \A c \in Clients : arg[c] # os_timers[i]
    BY <1>1, <1>3, <1>5, <2>1
  <2> QED
    BY <1>9, <1>11, <2>1, <2>2 DEF TimerInv, CountersNotLate
<1> QED
  BY <1>1, <1>6, <1>7, <1>8, <1>10, <1>12 DEF TimerInv
-----------------------------------------------------------------------------
(* A tick begins: every slot is still to come and every age grows.           *)
LEMMA TickBeginsKeepsInv ==
  ASSUME TimerInv, TickBegins
  PROVE  TimerInv'
<1>1. /\ tick_i = 0 /\ tick_i' = 1 /\ begun' = Older(begun) /\ armed' = Older(armed)
      /\ UNCHANGED <<os_timers, os_timer_count, inits, timer, pc, arg>>
  BY DEF TickBegins, tableVars
<1>2. /\ begun \in [Timers -> Nat] /\ armed \in [Timers -> Nat]
      /\ os_timer_count \in Nat /\ timer \in Values
      /\ \A i \in 1 .. os_timer_count : os_timers[i] \in Timers
  BY TimerFacts DEF TimerInv
<1>3. begun' \in [Timers -> Nat] /\ armed' \in [Timers -> Nat]
  BY <1>1, <1>2, TimerAssumption DEF Older
<1>4. TimerTypeOK'
  BY <1>1, <1>2 DEF TimerInv, TimerTypeOK
<1>5. SlotsFilled'
  BY <1>1 DEF TimerInv, SlotsFilled
<1>6. InitInTurn'
  BY <1>1 DEF TimerInv, InitInTurn, Initialised
<1>7. ASSUME NEW i \in 1 .. os_timer_count
      PROVE  /\ ~ StillToCome(i) /\ StillToCome(i)'
             /\ os_timers[i] \in Timers
             /\ period_ticks[os_timers[i]] \in Nat
             /\ timer[os_timers[i]].remaining_ticks \in Nat
             /\ begun[os_timers[i]] \in Nat /\ armed[os_timers[i]] \in Nat
             /\ begun'[os_timers[i]] = IF begun[os_timers[i]] <= period_ticks[os_timers[i]]
                                       THEN begun[os_timers[i]] + 1
                                       ELSE begun[os_timers[i]]
             /\ armed'[os_timers[i]] = IF armed[os_timers[i]] <= period_ticks[os_timers[i]]
                                       THEN armed[os_timers[i]] + 1
                                       ELSE armed[os_timers[i]]
  BY <1>1, <1>2, TimerAssumption DEF StillToCome, Older, Values
<1>8. CountersNotEarly'
  <2> SUFFICES ASSUME NEW i \in 1 .. os_timer_count
               PROVE  timer[os_timers[i]].remaining_ticks + begun'[os_timers[i]] + 0
                        >= period_ticks[os_timers[i]]
    BY <1>1, <1>7 DEF CountersNotEarly
  <2>1. timer[os_timers[i]].remaining_ticks + begun[os_timers[i]] + 1
          >= period_ticks[os_timers[i]]
    BY <1>7 DEF TimerInv, CountersNotEarly
  <2> QED
    BY <1>7, <2>1
<1>9. CountersNotLate'
  <2> SUFFICES ASSUME NEW i \in 1 .. os_timer_count,
                      timer[os_timers[i]].state = "RUNNING",
                      \A c \in Clients : arg[c] # os_timers[i]
               PROVE  /\ armed'[os_timers[i]] < period_ticks[os_timers[i]] + 1
                      /\ armed'[os_timers[i]] + timer[os_timers[i]].remaining_ticks
                           <= period_ticks[os_timers[i]] + 1
    BY <1>1, <1>7 DEF CountersNotLate
  <2>1. /\ armed[os_timers[i]] < period_ticks[os_timers[i]] + 0
        /\ armed[os_timers[i]] + timer[os_timers[i]].remaining_ticks
             <= period_ticks[os_timers[i]] + 0
    BY <1>7 DEF TimerInv, CountersNotLate
  <2> QED
    BY <1>7, <2>1
<1> QED
  BY <1>3, <1>4, <1>5, <1>6, <1>8, <1>9 DEF TimerInv

(* A tick ends after the last slot.                                          *)
LEMMA TickEndsKeepsInv ==
  ASSUME TimerInv, TickEnds
  PROVE  TimerInv'
<1>1. /\ tick_i > 0 /\ tick_i \notin 1 .. os_timer_count /\ tick_i' = 0
      /\ UNCHANGED <<os_timers, os_timer_count, inits, timer, pc, arg, begun, armed>>
  BY DEF TickEnds, InTick, tableVars
<1>2. os_timer_count \in Nat /\ tick_i \in Nat
  BY TimerFacts
<1>3. \A i \in 1 .. os_timer_count : ~ StillToCome(i) /\ ~ StillToCome(i)'
  BY <1>1, <1>2 DEF StillToCome
<1>4. TimerTypeOK'
  BY <1>1, <1>2 DEF TimerInv, TimerTypeOK
<1>5. SlotsFilled'
  BY <1>1 DEF TimerInv, SlotsFilled
<1>6. InitInTurn'
  BY <1>1 DEF TimerInv, InitInTurn, Initialised
<1>7. CountersNotEarly' /\ CountersNotLate'
  BY <1>1, <1>3 DEF TimerInv, CountersNotEarly, CountersNotLate
<1> QED
  BY <1>1, <1>4, <1>5, <1>6, <1>7 DEF TimerInv

(* A visit leaves each counter between the two bounds of its slot: the       *)
(* counter of the visited slot falls, is reloaded, or its timer is idle.     *)
LEMMA SlotCounts ==
  ASSUME TimerInv, InTick, Slot(os_timers[tick_i])
  PROVE  /\ timer' \in Values /\ InPeriod(timer')
         /\ begun' \in [Timers -> Nat] /\ armed' \in [Timers -> Nat]
         /\ \A u \in Timers \ Initialised : timer'[u] = timer[u]
         /\ \A u \in Initialised :
              LET visited == u = os_timers[tick_i]
              IN  \/ /\ timer'[u].remaining_ticks = period_ticks[u]
                     /\ armed'[u] = 0
                  \/ /\ begun'[u] = begun[u] /\ armed'[u] = armed[u]
                     /\ \/ timer'[u] = timer[u]
                              /\ (visited => timer[u].state # "RUNNING")
                        \/ /\ ~ visited
                           /\ timer'[u].remaining_ticks = timer[u].remaining_ticks
                           /\ timer'[u].state = "RUNNING" =>
                                timer[u].state = "RUNNING"
                        \/ /\ visited /\ timer[u].remaining_ticks > 1
                           /\ timer'[u].remaining_ticks =
                                timer[u].remaining_ticks - 1
                        \/ /\ visited /\ timer[u].remaining_ticks <= 1
                           /\ timer'[u].remaining_ticks = 0
                           /\ timer'[u].state # "RUNNING"
<1> DEFINE t == os_timers[tick_i]
<1>1. /\ timer \in Values /\ InPeriod(timer) /\ Initialised \subseteq Timers
      /\ t \in Initialised /\ t \in Timers
      /\ begun \in [Timers -> Nat] /\ armed \in [Timers -> Nat]
      /\ \A u \in Timers : period_ticks[u] \in Nat
  BY TimerFacts, TimerAssumption DEF TimerInv, InTick
<1> HIDE DEF t
<1>2. CASE /\ timer[t].state # "RUNNING"
           /\ UNCHANGED <<timer, begun, armed>>
  BY <1>1, <1>2 DEF t
<1>3. CASE /\ timer[t].state = "RUNNING" /\ ~ Due(t)
           /\ timer' = Decremented(timer, t)
           /\ UNCHANGED <<begun, armed>>
  <2>1. timer' \in Values /\ InPeriod(timer')
    <3>1. "RUNNING" \in States
      BY DEF States
    <3> QED
      BY <1>1, <1>3, <3>1, WritesTyped
  <2>2. \A u \in Timers : u # t => timer'[u] = timer[u]
    BY <1>1, <1>3 DEF Decremented, Values
  <2>3. timer'[t].remaining_ticks =
          IF timer[t].remaining_ticks > 0 THEN timer[t].remaining_ticks - 1
                                          ELSE timer[t].remaining_ticks
    BY <1>1, <1>3 DEF Decremented, Values
  <2>4. timer'[t].remaining_ticks # 0
    BY <1>3 DEF Due
  <2>5. timer[t].remaining_ticks \in Nat
    BY <1>1 DEF Values
  <2>6. /\ timer[t].remaining_ticks > 1
        /\ timer'[t].remaining_ticks = timer[t].remaining_ticks - 1
    BY <2>3, <2>4, <2>5
  <2>7. ASSUME NEW u \in Initialised, u # t
        PROVE  /\ timer'[u] = timer[u]
               /\ begun'[u] = begun[u] /\ armed'[u] = armed[u]
    BY <1>1, <1>3, <2>2, <2>7
  <2> QED
    BY <1>1, <1>3, <2>1, <2>2, <2>6, <2>7 DEF t
<1>4. CASE Due(t) /\ \E f \in CallbackCalls :
             /\ timer' = Expired(Effect(Decremented(timer, t), f), t)
             /\ begun' = Zeroed(begun, ArmedBy(t, f))
             /\ armed' = Zeroed(armed, ArmedBy(t, f))
  <2>1. PICK f \in CallbackCalls :
             /\ timer' = Expired(Effect(Decremented(timer, t), f), t)
             /\ begun' = Zeroed(begun, ArmedBy(t, f))
             /\ armed' = Zeroed(armed, ArmedBy(t, f))
    BY <1>4
  <2>2. /\ timer' \in Values /\ InPeriod(timer')
        /\ \A u \in Timers :
             /\ u \in ArmedBy(t, f) => timer'[u].remaining_ticks = period_ticks[u]
             /\ u \notin ArmedBy(t, f) =>
                  /\ timer'[u].remaining_ticks =
                       IF u = t THEN 0 ELSE timer[u].remaining_ticks
                  /\ timer'[u].state = "RUNNING" =>
                       u # t /\ timer[u].state = "RUNNING"
             /\ u \notin {t, f.on} => timer'[u] = timer[u]
    BY <1>1, <1>4, <2>1, FiringFacts
  <2>3. /\ begun' \in [Timers -> Nat] /\ armed' \in [Timers -> Nat]
        /\ \A u \in Timers :
             /\ u \in ArmedBy(t, f) => armed'[u] = 0
             /\ u \notin ArmedBy(t, f) =>
                  begun'[u] = begun[u] /\ armed'[u] = armed[u]
    BY <1>1, <2>1 DEF Zeroed
  <2>4. f.on \in Initialised
    BY DEF CallbackCalls
  <2>5. timer[t].remaining_ticks <= 1
    <3>1. timer[t].remaining_ticks \in Nat
      BY <1>1 DEF Values
    <3>2. Decremented(timer, t)[t].remaining_ticks =
            IF timer[t].remaining_ticks > 0 THEN timer[t].remaining_ticks - 1
                                            ELSE timer[t].remaining_ticks
      BY <1>1 DEF Decremented, Values
    <3> QED
      BY <1>4, <3>1, <3>2 DEF Due
  <2>6. \A u \in Timers \ Initialised : timer'[u] = timer[u]
    BY <1>1, <2>2, <2>4
  <2>7. ASSUME NEW u \in Initialised
        PROVE  \/ /\ timer'[u].remaining_ticks = period_ticks[u]
                  /\ armed'[u] = 0
               \/ /\ begun'[u] = begun[u] /\ armed'[u] = armed[u]
                  /\ \/ /\ u # t
                        /\ timer'[u].remaining_ticks = timer[u].remaining_ticks
                        /\ timer'[u].state = "RUNNING" => timer[u].state = "RUNNING"
                     \/ /\ u = t /\ timer[u].remaining_ticks <= 1
                        /\ timer'[u].remaining_ticks = 0
                        /\ timer'[u].state # "RUNNING"
    BY <1>1, <2>2, <2>3, <2>5
  <2> QED
    BY <2>2, <2>3, <2>6, <2>7 DEF t
<1> QED
  BY <1>2, <1>3, <1>4 DEF Slot, t

LEMMA TickKeepsInv ==
  ASSUME InitialisedOnce, TimerInv, os_timer_tick
  PROVE  TimerInv'
<1>1. /\ tick_i \in 1 .. os_timer_count /\ tick_i' = tick_i + 1
      /\ UNCHANGED <<os_timers, os_timer_count, inits, pc, arg>>
  BY DEF os_timer_tick, InTick, tableVars
<1>2. /\ os_timer_count \in Nat /\ tick_i \in Nat
      /\ \A i \in 1 .. os_timer_count :
           /\ os_timers[i] \in Initialised /\ os_timers[i] \in Timers
           /\ (os_timers[i] = os_timers[tick_i]) <=> i = tick_i
  BY <1>1, TimerFacts
<1>3. /\ timer' \in Values /\ InPeriod(timer')
      /\ begun' \in [Timers -> Nat] /\ armed' \in [Timers -> Nat]
      /\ \A u \in Timers \ Initialised : timer'[u] = timer[u]
  BY SlotCounts DEF os_timer_tick
<1>4. TimerTypeOK'
  BY <1>1, <1>2, <1>3 DEF TimerInv, TimerTypeOK, Values, States, InPeriod
<1>5. SlotsFilled'
  BY <1>1 DEF TimerInv, SlotsFilled
<1>6. InitInTurn'
  <2>1. tableVars' = tableVars
    BY <1>1 DEF tableVars
  <2>2. \A c \in Clients : pc'[c] = pc[c] /\ arg'[c] = arg[c]
    BY <1>1
  <2> QED
    BY <1>3, <2>1, <2>2, InTurnKept
<1>7. ASSUME NEW i \in 1 .. os_timer_count
      PROVE  /\ StillToCome(i) <=> i >= tick_i
             /\ StillToCome(i)' <=> i > tick_i
             /\ i \in Nat
             /\ period_ticks[os_timers[i]] \in Nat \ {0}
             /\ timer[os_timers[i]].remaining_ticks \in Nat
             /\ timer'[os_timers[i]].remaining_ticks \in Nat
             /\ timer'[os_timers[i]].remaining_ticks <= period_ticks[os_timers[i]]
             /\ begun[os_timers[i]] \in Nat /\ armed[os_timers[i]] \in Nat
             /\ begun'[os_timers[i]] \in Nat /\ armed'[os_timers[i]] \in Nat
  BY <1>1, <1>2, <1>3, TimerFacts, TimerAssumption
     DEF StillToCome, TimerInv, Values, InPeriod
<1>8. ASSUME NEW i \in 1 .. os_timer_count
      PROVE  LET u == os_timers[i]
             IN  \/ /\ timer'[u].remaining_ticks = period_ticks[u]
                    /\ armed'[u] = 0
                 \/ /\ begun'[u] = begun[u] /\ armed'[u] = armed[u]
                    /\ \/ timer'[u] = timer[u]
                             /\ (i = tick_i => timer[u].state # "RUNNING")
                       \/ /\ i # tick_i
                          /\ timer'[u].remaining_ticks = timer[u].remaining_ticks
                          /\ timer'[u].state = "RUNNING" =>
                               timer[u].state = "RUNNING"
                       \/ /\ i = tick_i /\ timer[u].remaining_ticks > 1
                          /\ timer'[u].remaining_ticks =
                               timer[u].remaining_ticks - 1
                       \/ /\ i = tick_i /\ timer[u].remaining_ticks <= 1
                          /\ timer'[u].remaining_ticks = 0
                          /\ timer'[u].state # "RUNNING"
  BY <1>1, <1>2, SlotCounts DEF os_timer_tick
<1>9. CountersNotEarly'
  <2> SUFFICES ASSUME NEW i \in 1 .. os_timer_count
               PROVE  timer'[os_timers[i]].remaining_ticks + begun'[os_timers[i]]
                        + (IF StillToCome(i)' THEN 0 ELSE 1)
                        >= period_ticks[os_timers[i]]
    BY <1>1 DEF CountersNotEarly
  <2>1. timer[os_timers[i]].remaining_ticks + begun[os_timers[i]]
          + (IF StillToCome(i) THEN 0 ELSE 1) >= period_ticks[os_timers[i]]
    BY DEF TimerInv, CountersNotEarly
  <2> HIDE DEF StillToCome
  <2>2. CASE i = tick_i
    BY <1>2, <1>7, <1>8, <2>1, <2>2
  <2>3. CASE i # tick_i
    <3>1. StillToCome(i)' <=> StillToCome(i)
      BY <1>2, <1>7, <2>3
    <3>2. \/ timer'[os_timers[i]].remaining_ticks = period_ticks[os_timers[i]]
          \/ /\ begun'[os_timers[i]] = begun[os_timers[i]]
             /\ timer'[os_timers[i]].remaining_ticks =
                  timer[os_timers[i]].remaining_ticks
      BY <1>8, <2>3
    <3> QED
      BY <1>7, <2>1, <3>1, <3>2
  <2> QED
    BY <2>2, <2>3
<1>10. CountersNotLate'
  <2> SUFFICES ASSUME NEW i \in 1 .. os_timer_count,
                      timer'[os_timers[i]].state = "RUNNING",
                      \A c \in Clients : arg[c] # os_timers[i]
               PROVE  LET last == period_ticks[os_timers[i]]
                                    + (IF StillToCome(i)' THEN 1 ELSE 0)
                      IN  /\ armed'[os_timers[i]] < last
                          /\ armed'[os_timers[i]]
                               + timer'[os_timers[i]].remaining_ticks <= last
    BY <1>1 DEF CountersNotLate
  <2>1. timer[os_timers[i]].state = "RUNNING" =>
          LET last == period_ticks[os_timers[i]] + (IF StillToCome(i) THEN 1 ELSE 0)
          IN  /\ armed[os_timers[i]] < last
              /\ armed[os_timers[i]] + timer[os_timers[i]].remaining_ticks <= last
    BY DEF TimerInv, CountersNotLate
  <2>2. CASE /\ timer'[os_timers[i]].remaining_ticks = period_ticks[os_timers[i]]
             /\ armed'[os_timers[i]] = 0
    BY <1>7, <2>2
  <2>3. CASE /\ i = tick_i /\ timer[os_timers[i]].remaining_ticks > 1
             /\ timer'[os_timers[i]].remaining_ticks =
                  timer[os_timers[i]].remaining_ticks - 1
             /\ armed'[os_timers[i]] = armed[os_timers[i]]
    <3>1. timer[os_timers[i]].state = "RUNNING"
      <4>1. Slot(os_timers[tick_i]) /\ tick_i \in 1 .. os_timer_count
        BY <1>1 DEF os_timer_tick
      <4>2. timer[os_timers[i]].state # "RUNNING" => timer' = timer
        BY <2>3, <4>1 DEF Slot, Due
      <4> QED
        BY <1>7, <2>3, <4>2
    <3> QED
      BY <1>2, <1>7, <2>1, <2>3, <3>1
  <2>4. CASE /\ i # tick_i /\ timer[os_timers[i]].state = "RUNNING"
             /\ timer'[os_timers[i]].remaining_ticks =
                  timer[os_timers[i]].remaining_ticks
             /\ armed'[os_timers[i]] = armed[os_timers[i]]
    <3>1. StillToCome(i)' <=> StillToCome(i)
      BY <1>2, <1>7, <2>4
    <3> QED
      BY <1>7, <2>1, <2>4, <3>1
  <2> QED
    BY <1>8, <2>2, <2>3, <2>4
<1> QED
  BY <1>3, <1>4, <1>5, <1>6, <1>9, <1>10 DEF TimerInv
-----------------------------------------------------------------------------
LEMMA TimerStart ==
  ASSUME TimerInit
  PROVE  TimerInv
<1>1. /\ os_timers = [i \in 1 .. OS_MAX_TIMERS |-> NULL] /\ os_timer_count = 0
      /\ inits = 0 /\ tick_i = 0
      /\ timer = [t \in Timers |-> [state |-> "STOPPED", remaining_ticks |-> 0]]
      /\ pc = [c \in Clients |-> "run"] /\ arg = [c \in Clients |-> NULL]
      /\ begun = [t \in Timers |-> 0] /\ armed = [t \in Timers |-> 0]
  BY DEF TimerInit
<1>2. OS_MAX_TIMERS \in Nat /\ Len(Created) \in Nat
      /\ \A t \in Timers : period_ticks[t] \in Nat
  BY TimerAssumption
<1>3. TimerTypeOK
  BY <1>1, <1>2 DEF TimerTypeOK
<1>4. SlotsFilled /\ CountersNotEarly /\ CountersNotLate
  BY <1>1 DEF SlotsFilled, CountersNotEarly, CountersNotLate
<1>5. InitInTurn
  BY <1>1 DEF InitInTurn
<1>6. begun \in [Timers -> Nat] /\ armed \in [Timers -> Nat]
  BY <1>1
<1> QED
  BY <1>3, <1>4, <1>5, <1>6 DEF TimerInv

LEMMA TimerStep ==
  ASSUME InitialisedOnce, TimerInv, [TimerNext]_timerVars
  PROVE  TimerInv'
<1>1. CASE TickBegins
  BY <1>1, TickBeginsKeepsInv
<1>2. CASE os_timer_tick
  BY <1>2, TickKeepsInv
<1>3. CASE TickEnds
  BY <1>3, TickEndsKeepsInv
<1>4. ASSUME NEW t \in Timers, os_timer_init(t)
      PROVE  TimerInv'
  BY <1>4, InitFieldsKeepsInv, InitSlotKeepsInv, InitCountKeepsInv
     DEF os_timer_init
<1>5. ASSUME NEW c \in Clients, NEW t \in Initialised,
             os_timer_start(c, t) \/ os_timer_stop(c, t) \/ os_timer_reset(c, t),
             UNCHANGED tableVars
      PROVE  TimerInv'
  BY <1>5, ClientKeepsInv
<1>6. CASE UNCHANGED timerVars
  BY <1>6
     DEF timerVars, tableVars, TimerInv, TimerTypeOK, SlotsFilled, InitInTurn,
         Initialised, CountersNotEarly, CountersNotLate, StillToCome
<1> QED
  BY <1>1, <1>2, <1>3, <1>4, <1>5, <1>6 DEF TimerNext

(* The invariant, if no timer is initialised twice.                          *)
LEMMA TimerInvariant ==
  ASSUME InitialisedOnce
  PROVE  TimerSpec => []TimerInv
  BY TimerStart, TimerStep, PTL DEF TimerSpec

(* Types of the timers' state; no counter exceeds its period.                *)
THEOREM TimerTypeCorrect ==
  ASSUME InitialisedOnce
  PROVE  TimerSpec => []TimerTypeOK
<1>1. TimerInv => TimerTypeOK
  BY DEF TimerInv
<1> QED
  BY <1>1, TimerInvariant, PTL

(* os_timer_tick() never meets a slot that os_timer_init() has not written,  *)
(* whatever ticks come between its writes.                                   *)
THEOREM SlotsAlwaysFilled ==
  ASSUME InitialisedOnce
  PROVE  TimerSpec => []SlotsFilled
<1>1. TimerInv => SlotsFilled
  BY DEF TimerInv
<1> QED
  BY <1>1, TimerInvariant, PTL

(* No callback runs before a period of ticks has passed since the last call  *)
(* that armed its timer began.                                               *)
THEOREM NeverEarly ==
  ASSUME InitialisedOnce
  PROVE  TimerSpec => []NotEarly
<1>1. ASSUME TimerInv
      PROVE  NotEarly
  <2> SUFFICES ASSUME InTick, Due(os_timers[tick_i])
               PROVE  begun[os_timers[tick_i]] + 1 >= period_ticks[os_timers[tick_i]]
    BY DEF NotEarly
  <2> DEFINE t == os_timers[tick_i]
  <2>1. /\ tick_i \in 1 .. os_timer_count /\ t \in Timers
        /\ timer \in Values /\ begun[t] \in Nat /\ period_ticks[t] \in Nat
        /\ StillToCome(tick_i)
    BY <1>1, TimerFacts, TimerAssumption DEF InTick, StillToCome, TimerInv
  <2>2. timer[t].remaining_ticks + begun[t] + 0 >= period_ticks[t]
    BY <1>1, <2>1 DEF TimerInv, CountersNotEarly
  <2>3. timer[t].remaining_ticks \in Nat
    BY <2>1 DEF Values
  <2>4. Decremented(timer, t)[t].remaining_ticks =
          IF timer[t].remaining_ticks > 0 THEN timer[t].remaining_ticks - 1
                                          ELSE timer[t].remaining_ticks
    BY <2>1 DEF Decremented, Values
  <2>5. Decremented(timer, t)[t].remaining_ticks = 0
    BY DEF Due
  <2> HIDE DEF t
  <2>6. begun[t] + 1 >= period_ticks[t]
    BY <2>1, <2>2, <2>3, <2>4, <2>5
  <2> QED
    BY <2>6 DEF t
<1> QED
  BY <1>1, TimerInvariant, PTL

(* Between ticks no running timer that is in no call is older than its       *)
(* period: none is overdue.                                                  *)
THEOREM NoneOverdue ==
  ASSUME InitialisedOnce
  PROVE  TimerSpec => []NeverOverdue
<1>1. ASSUME TimerInv
      PROVE  NeverOverdue
  <2> SUFFICES ASSUME NEW i \in 1 .. os_timer_count, tick_i = 0,
                      timer[os_timers[i]].state = "RUNNING",
                      \A c \in Clients : arg[c] # os_timers[i]
               PROVE  armed[os_timers[i]] < period_ticks[os_timers[i]]
    BY DEF NeverOverdue
  <2>1. ~ StillToCome(i)
    BY DEF StillToCome
  <2>2. armed[os_timers[i]] < period_ticks[os_timers[i]] + 0
    BY <1>1, <2>1 DEF TimerInv, CountersNotLate
  <2>3. period_ticks[os_timers[i]] \in Nat
    BY <1>1, TimerFacts, TimerAssumption
  <2> QED
    BY <2>2, <2>3
<1> QED
  BY <1>1, TimerInvariant, PTL
-----------------------------------------------------------------------------
(* The order of the naturals as a relation: a set of them has a least one.   *)
Below == { ab \in Nat \X Nat : ab[1] < ab[2] }

LEMMA LeastNumber ==
  ASSUME NEW S \in SUBSET Nat, S # {}
  PROVE  \E n \in S : \A m \in S : n <= m
<1>1. OpToRel(<, Nat) = Below
  BY DEF OpToRel, Below
<1>2. IsWellFoundedOn(Below, Nat)
  BY <1>1, NatLessThanWellFounded, Zenon
<1>3. \E n \in S : \A m \in S : ~ (<<m, n>> \in Below)
  BY <1>2, WFMin, Zenon
<1>4. ASSUME NEW m \in Nat, NEW n \in Nat, m < n
      PROVE  <<m, n>> \in Below
  BY <1>4 DEF Below
<1>5. PICK n \in S : \A m \in S : ~ (<<m, n>> \in Below)
  BY <1>3
<1>6. \A m \in S : ~ (m < n)
  BY <1>4, <1>5
<1> QED
  BY <1>5, <1>6

(* The blocks one step further down the list. *)
(***************************************************************************)
(* Chains.  `reached` is a recursive function; Chain is used through three *)
(* facts: it holds its first element, it is closed under succ, and it is   *)
(* the least set of which both are true.                                   *)
(***************************************************************************)
Further(S, succ) == S \cup ({ succ[x] : x \in S } \cap Addrs)

Solves(f, a, succ, n) ==
  f = [i \in 0 .. n |-> IF i = 0 THEN {a} \cap Addrs ELSE Further(f[i - 1], succ)]

Steps(f, a, succ, n) ==
  /\ f[0] = {a} \cap Addrs
  /\ \A i \in 0 .. n : i + 1 \in 0 .. n => f[i + 1] = Further(f[i], succ)

LEMMA SolvesSteps ==
  ASSUME NEW a, NEW succ, NEW n \in Nat, NEW f, Solves(f, a, succ, n)
  PROVE  Steps(f, a, succ, n)
<1>1. \A i \in 0 .. n :
        f[i] = IF i = 0 THEN {a} \cap Addrs ELSE Further(f[i - 1], succ)
  BY DEF Solves
<1>2. ASSUME NEW i \in 0 .. n, i + 1 \in 0 .. n
      PROVE  f[i + 1] = Further(f[i], succ)
  <2>1. i + 1 # 0 /\ (i + 1) - 1 = i
    OBVIOUS
  <2> QED
    BY <1>1, <1>2, <2>1
<1> QED
  BY <1>1, <1>2 DEF Steps

LEMMA SolutionExtends ==
  ASSUME NEW a, NEW succ, NEW m \in Nat, NEW f, Solves(f, a, succ, m)
  PROVE  \E g : Solves(g, a, succ, m + 1)
<1> DEFINE last == Further(f[m], succ)
           g == [i \in 0 .. m + 1 |-> IF i <= m THEN f[i] ELSE last]
<1>1. \A i \in 0 .. m :
        f[i] = IF i = 0 THEN {a} \cap Addrs ELSE Further(f[i - 1], succ)
  BY DEF Solves
<1>2. ASSUME NEW i \in 0 .. m + 1
      PROVE  g[i] = IF i = 0 THEN {a} \cap Addrs ELSE Further(g[i - 1], succ)
  <2>1. CASE i = m + 1
    <3>1. g[i] = Further(f[m], succ) /\ g[i - 1] = f[m] /\ i # 0
      BY <2>1
    <3> QED
      BY <3>1
  <2>2. CASE i # m + 1
    <3>1. i \in 0 .. m /\ g[i] = f[i]
      BY <2>2
    <3>2. i # 0 => g[i - 1] = f[i - 1]
      BY <3>1
    <3> QED
      BY <1>1, <3>1, <3>2
  <2> QED
    BY <2>1, <2>2
<1>3. g = [i \in 0 .. m + 1 |-> g[i]]
  OBVIOUS
<1> HIDE DEF g
<1>4. Solves(g, a, succ, m + 1)
  BY <1>2, <1>3 DEF Solves
<1> QED
  BY <1>4

LEMMA SolutionExists ==
  ASSUME NEW a, NEW succ, NEW n \in Nat
  PROVE  \E f : Solves(f, a, succ, n)
<1> DEFINE Unsolved == { m \in Nat : ~ \E f : Solves(f, a, succ, m) }
<1>1. ASSUME Unsolved # {}
      PROVE  FALSE
  <2>1. PICK m \in Unsolved : \A k \in Unsolved : m <= k
    BY <1>1, LeastNumber
  <2>2. m # 0
    <3>1. Solves([i \in 0 .. 0 |-> {a} \cap Addrs], a, succ, 0)
      BY DEF Solves
    <3> QED
      BY <3>1
  <2>3. PICK k \in Nat : k = m - 1
    BY <2>2
  <2>4. k \notin Unsolved
    BY <2>1, <2>3
  <2>5. PICK f : Solves(f, a, succ, k)
    BY <2>4
  <2>6. \E g : Solves(g, a, succ, k + 1)
    BY <2>5, SolutionExtends
  <2>7. k + 1 = m
    BY <2>1, <2>3
  <2> QED
    BY <2>1, <2>6, <2>7
<1> QED
  BY <1>1

LEMMA ChainSolves ==
  ASSUME NEW a, NEW succ
  PROVE  \E f : Chain(a, succ) = f[pool_size] /\ Solves(f, a, succ, pool_size)
<1>1. PICK f : Solves(f, a, succ, pool_size)
  BY SolutionExists, TlsfAssumption
<1>2. \E g : g = [n \in 0 .. pool_size |->
                    IF n = 0 THEN {a} \cap Addrs
                    ELSE g[n - 1] \cup ({ succ[x] : x \in g[n - 1] } \cap Addrs)]
  BY <1>1 DEF Solves, Further
<1>3. PICK g : /\ Chain(a, succ) = g[pool_size]
               /\ g = [n \in 0 .. pool_size |->
                    IF n = 0 THEN {a} \cap Addrs
                    ELSE g[n - 1] \cup ({ succ[x] : x \in g[n - 1] } \cap Addrs)]
  BY <1>2 DEF Chain
<1>4. Solves(g, a, succ, pool_size)
  BY <1>3 DEF Solves, Further
<1> QED
  BY <1>3, <1>4

LEMMA ChainLeast ==
  ASSUME NEW a, NEW succ, NEW S,
         a \in Addrs => a \in S,
         \A x \in S : succ[x] \in Addrs => succ[x] \in S
  PROVE  Chain(a, succ) \subseteq S
<1> DEFINE N == pool_size
<1>0. N \in Nat
  BY TlsfAssumption
<1>1. PICK f : Chain(a, succ) = f[N] /\ Solves(f, a, succ, N)
  BY ChainSolves
<1> HIDE DEF N
<1>2. Steps(f, a, succ, N)
  BY <1>0, <1>1, SolvesSteps
<1> DEFINE Outside == { i \in 0 .. N : ~ (f[i] \subseteq S) }
<1>3. ASSUME Outside # {}
      PROVE  FALSE
  <2>1. Outside \in SUBSET Nat
    OBVIOUS
  <2>2. PICK m \in Outside : \A k \in Outside : m <= k
    BY <1>3, <2>1, LeastNumber
  <2>3. m # 0
    BY <1>2 DEF Steps
  <2>4. PICK k \in 0 .. N : m = k + 1
    <3>1. m - 1 \in 0 .. N /\ m = (m - 1) + 1
      BY <1>0, <2>3
    <3> QED
      BY <3>1
  <2>5. k \notin Outside
    BY <2>2, <2>4
  <2>6. f[k] \subseteq S /\ f[m] = Further(f[k], succ)
    BY <1>2, <2>4, <2>5 DEF Steps
  <2> QED
    BY <2>6 DEF Further
<1>4. N \in 0 .. N
  BY <1>0
<1> QED
  BY <1>1, <1>3, <1>4

(* The blocks cannot be more than the addresses, so that the steps suffice. *)
LEMMA ChainClosed ==
  ASSUME NEW a, NEW succ
  PROVE  /\ Chain(a, succ) \subseteq Addrs
         /\ a \in Addrs => a \in Chain(a, succ)
         /\ \A x \in Chain(a, succ) : succ[x] \in Addrs => succ[x] \in Chain(a, succ)
<1> DEFINE N == pool_size
<1>0. N \in Nat
  BY TlsfAssumption
<1>1. PICK f : Chain(a, succ) = f[N] /\ Solves(f, a, succ, N)
  BY ChainSolves
<1>2. Addrs = 0 .. N - 1
  BY DEF Addrs
<1> HIDE DEF N
<1>3. Steps(f, a, succ, N)
  BY <1>0, <1>1, SolvesSteps
<1>4. IsFiniteSet(Addrs) /\ Cardinality(Addrs) = N
  BY <1>0, <1>2, FS_Interval
<1> DEFINE Good(i) == /\ f[i] \subseteq Addrs
                      /\ a \in Addrs => a \in f[i]
                      /\ Further(f[i], succ) = f[i] \/ Cardinality(f[i]) > i
           Bad == { i \in 0 .. N : ~ Good(i) }
<1>5. Good(0)
  <2>1. CASE a \in Addrs
    <3>1. f[0] = {a}
      BY <1>3, <2>1 DEF Steps
    <3>2. Cardinality(f[0]) = 1
      BY <3>1, FS_Singleton
    <3> QED
      BY <2>1, <3>1, <3>2
  <2>2. CASE a \notin Addrs
    BY <1>3, <2>2 DEF Further, Steps
  <2> QED
    BY <2>1, <2>2
<1>6. ASSUME NEW i \in 0 .. N, i + 1 \in 0 .. N, Good(i)
      PROVE  Good(i + 1)
  <2>1. f[i + 1] = Further(f[i], succ)
    BY <1>3, <1>6 DEF Steps
  <2>2. f[i + 1] \subseteq Addrs /\ f[i] \subseteq f[i + 1]
    BY <1>6, <2>1 DEF Further
  <2>3. CASE Further(f[i], succ) = f[i]
    BY <1>6, <2>1, <2>2, <2>3
  <2>4. CASE Further(f[i], succ) # f[i]
    <3>1. Cardinality(f[i]) > i
      BY <1>6, <2>4
    <3>2. IsFiniteSet(f[i + 1]) /\ f[i] # f[i + 1]
      BY <1>4, <2>1, <2>2, <2>4, FS_Subset
    <3>3. /\ IsFiniteSet(f[i])
          /\ Cardinality(f[i]) <= Cardinality(f[i + 1])
          /\ Cardinality(f[i]) # Cardinality(f[i + 1])
      BY <2>2, <3>2, FS_Subset
    <3>4. Cardinality(f[i]) \in Nat /\ Cardinality(f[i + 1]) \in Nat
      BY <3>2, <3>3, FS_CardinalityType
    <3>5. Cardinality(f[i + 1]) > i + 1
      BY <3>1, <3>3, <3>4
    <3> QED
      BY <1>6, <2>2, <3>5
  <2> QED
    BY <2>3, <2>4
<1> HIDE DEF Good
<1>7. ASSUME Bad # {}
      PROVE  FALSE
  <2>1. Bad \in SUBSET Nat
    OBVIOUS
  <2>2. PICK m \in Bad : \A k \in Bad : m <= k
    BY <1>7, <2>1, LeastNumber
  <2>3. m # 0
    BY <1>5
  <2>4. PICK k \in 0 .. N : m = k + 1
    <3>1. m - 1 \in 0 .. N /\ m = (m - 1) + 1
      BY <1>0, <2>3
    <3> QED
      BY <3>1
  <2>5. k \notin Bad
    BY <2>2, <2>4
  <2> QED
    BY <1>6, <2>2, <2>4, <2>5
<1>8. N \in 0 .. N
  BY <1>0
<1>9. Good(N)
  BY <1>7, <1>8
<1>10. f[N] \subseteq Addrs /\ (a \in Addrs => a \in f[N])
  BY <1>9 DEF Good
<1>11. ~ (Cardinality(f[N]) > N)
  <2>1. Cardinality(f[N]) <= Cardinality(Addrs)
    BY <1>4, <1>10, FS_Subset
  <2>2. Cardinality(f[N]) \in Nat
    BY <1>4, <1>10, FS_Subset, FS_CardinalityType
  <2> QED
    BY <1>0, <1>4, <2>1, <2>2
<1>12. Further(f[N], succ) = f[N]
  BY <1>9, <1>11 DEF Good
<1> QED
  BY <1>1, <1>10, <1>12 DEF Further

(***************************************************************************)
(* Powers of two, and the classes of sizes.                                *)
(***************************************************************************)
Doubles(f, n) == f = [i \in 0 .. n |-> IF i = 0 THEN 1 ELSE 2 * f[i - 1]]

LEMMA DoublesExtends ==
  ASSUME NEW m \in Nat, NEW f, Doubles(f, m)
  PROVE  \E g : Doubles(g, m + 1)
<1> DEFINE last == 2 * f[m]
           g == [i \in 0 .. m + 1 |-> IF i <= m THEN f[i] ELSE last]
<1>1. \A i \in 0 .. m : f[i] = IF i = 0 THEN 1 ELSE 2 * f[i - 1]
  BY DEF Doubles
<1>2. ASSUME NEW i \in 0 .. m + 1
      PROVE  g[i] = IF i = 0 THEN 1 ELSE 2 * g[i - 1]
  <2>1. CASE i = m + 1
    <3>1. g[i] = 2 * f[m] /\ g[i - 1] = f[m] /\ i # 0
      BY <2>1
    <3> QED
      BY <3>1
  <2>2. CASE i # m + 1
    <3>1. i \in 0 .. m /\ g[i] = f[i]
      BY <2>2
    <3>2. i # 0 => g[i - 1] = f[i - 1]
      BY <3>1
    <3> QED
      BY <1>1, <3>1, <3>2
  <2> QED
    BY <2>1, <2>2
<1>3. g = [i \in 0 .. m + 1 |-> g[i]]
  OBVIOUS
<1> HIDE DEF g
<1>4. Doubles(g, m + 1)
  BY <1>2, <1>3 DEF Doubles
<1> QED
  BY <1>4

LEMMA DoublesExists == \A n \in Nat : \E f : Doubles(f, n)
<1> DEFINE Unsolved == { m \in Nat : ~ \E f : Doubles(f, m) }
<1>1. ASSUME Unsolved # {}
      PROVE  FALSE
  <2>1. PICK m \in Unsolved : \A k \in Unsolved : m <= k
    BY <1>1, LeastNumber
  <2>2. m # 0
    <3>1. Doubles([i \in 0 .. 0 |-> 1], 0)
      BY DEF Doubles
    <3> QED
      BY <3>1
  <2>3. PICK k \in Nat : k = m - 1
    BY <2>2
  <2>4. k \notin Unsolved
    BY <2>1, <2>3
  <2>5. PICK f : Doubles(f, k)
    BY <2>4
  <2>6. \E g : Doubles(g, k + 1)
    BY <2>5, DoublesExtends
  <2>7. k + 1 = m
    BY <2>1, <2>3
  <2> QED
    BY <2>1, <2>6, <2>7
<1> QED
  BY <1>1

LEMMA ShiftStep ==
  /\ Shift[0] = 1
  /\ \A n \in 0 .. 29 : Shift[n + 1] = 2 * Shift[n]
<1>1. PICK f : Doubles(f, 30)
  BY DoublesExists
<1>2. \E g : g = [n \in 0 .. 30 |-> IF n = 0 THEN 1 ELSE 2 * g[n - 1]]
  BY <1>1 DEF Doubles
<1>3. Shift = [n \in 0 .. 30 |-> IF n = 0 THEN 1 ELSE 2 * Shift[n - 1]]
  BY <1>2 DEF Shift
<1> HIDE DEF Shift
<1>4. \A n \in 0 .. 30 : Shift[n] = IF n = 0 THEN 1 ELSE 2 * Shift[n - 1]
  BY <1>3
<1>5. ASSUME NEW n \in 0 .. 29
      PROVE  Shift[n + 1] = 2 * Shift[n]
  <2>1. n + 1 \in 0 .. 30 /\ n + 1 # 0 /\ (n + 1) - 1 = n
    OBVIOUS
  <2> QED
    BY <1>4, <2>1
<1> QED
  BY <1>4, <1>5

LEMMA ShiftPositive == \A n \in 0 .. 30 : Shift[n] \in Nat \ {0}
<1> DEFINE Bad == { n \in 0 .. 30 : Shift[n] \notin Nat \ {0} }
<1>1. ASSUME Bad # {}
      PROVE  FALSE
  <2>1. Bad \in SUBSET Nat
    OBVIOUS
  <2>2. PICK m \in Bad : \A k \in Bad : m <= k
    BY <1>1, <2>1, LeastNumber
  <2>3. m # 0
    BY ShiftStep
  <2>4. PICK k \in 0 .. 29 : m = k + 1
    <3>1. m - 1 \in 0 .. 29 /\ m = (m - 1) + 1
      BY <2>3
    <3> QED
      BY <3>1
  <2>5. Shift[k] \in Nat \ {0} /\ Shift[m] = 2 * Shift[k]
    BY <2>2, <2>4, ShiftStep
  <2> QED
    BY <2>5
<1> QED
  BY <1>1

LEMMA ShiftAdds ==
  ASSUME NEW a \in Nat, NEW b \in Nat, a + b <= 30
  PROVE  Shift[a + b] = Shift[a] * Shift[b]
<1> DEFINE Bad == { n \in Nat : a + n <= 30 /\ Shift[a + n] # Shift[a] * Shift[n] }
<1>1. ASSUME Bad # {}
      PROVE  FALSE
  <2>1. Bad \in SUBSET Nat
    OBVIOUS
  <2>2. PICK m \in Bad : \A k \in Bad : m <= k
    BY <1>1, <2>1, LeastNumber
  <2>3. Shift[a] \in Nat \ {0}
    BY ShiftPositive
  <2>4. m # 0
    <3>1. a + 0 = a /\ Shift[0] = 1
      BY ShiftStep
    <3> QED
      BY <2>3, <3>1
  <2>5. PICK k \in Nat : m = k + 1
    <3>1. m - 1 \in Nat /\ m = (m - 1) + 1
      BY <2>4
    <3> QED
      BY <3>1
  <2>6. a + k <= 29 /\ k <= 29 /\ a + m = (a + k) + 1
    BY <2>2, <2>5
  <2>7. Shift[a + k] = Shift[a] * Shift[k]
    BY <2>2, <2>5, <2>6
  <2>8. Shift[a + m] = 2 * Shift[a + k] /\ Shift[m] = 2 * Shift[k]
    BY <2>5, <2>6, ShiftStep
  <2>9. PICK x \in Nat, y \in Nat : x = Shift[a] /\ y = Shift[k]
    <3>1. k \in 0 .. 30
      BY <2>6
    <3> QED
      BY <2>3, <3>1, ShiftPositive
  <2>10. 2 * (x * y) = x * (2 * y)
    OBVIOUS
  <2> QED
    BY <2>2, <2>7, <2>8, <2>9, <2>10
<1> QED
  BY <1>1

LEMMA ShiftGrows ==
  ASSUME NEW m \in Nat, NEW n \in Nat, m < n, n <= 30
  PROVE  2 * Shift[m] <= Shift[n]
<1>1. PICK k \in Nat : n = (m + 1) + k
  <2>1. n - (m + 1) \in Nat /\ n = (m + 1) + (n - (m + 1))
    OBVIOUS
  <2> QED
    BY <2>1
<1>2. Shift[n] = Shift[m + 1] * Shift[k]
  BY <1>1, ShiftAdds
<1>3. Shift[m + 1] = 2 * Shift[m]
  BY ShiftStep
<1>4. PICK x \in Nat \ {0}, y \in Nat \ {0} : x = Shift[m] /\ y = Shift[k]
  <2>1. m \in 0 .. 30 /\ k \in 0 .. 30
    BY <1>1
  <2>2. Shift[m] \in Nat \ {0} /\ Shift[k] \in Nat \ {0}
    BY <2>1, ShiftPositive
  <2> QED
    BY <2>2
<1>5. 2 * x <= (2 * x) * y
  OBVIOUS
<1> QED
  BY <1>2, <1>3, <1>4, <1>5

LEMMA DivBounds ==
  ASSUME NEW a \in Nat, NEW b \in Nat \ {0}
  PROVE  a \div b \in Nat /\ b * (a \div b) <= a /\ a < b * ((a \div b) + 1)
  OBVIOUS

LEMMA FlsFacts ==
  ASSUME NEW size \in Nat \ {0}, size < 2 * Shift[30]
  PROVE  /\ find_fls(size) \in 0 .. 30
         /\ Shift[find_fls(size)] <= size /\ size < 2 * Shift[find_fls(size)]
<1> DEFINE Above == { n \in 0 .. 30 : size < 2 * Shift[n] }
<1>1. Above \in SUBSET Nat /\ 30 \in Above
  OBVIOUS
<1>2. PICK m \in Above : \A k \in Above : m <= k
  BY <1>1, LeastNumber
<1>3. Shift[m] \in Nat \ {0}
  BY ShiftPositive
<1>4. Shift[m] <= size
  <2>1. CASE m = 0
    BY <2>1, ShiftStep
  <2>2. CASE m # 0
    <3>1. PICK k \in 0 .. 29 : m = k + 1
      <4>1. m - 1 \in 0 .. 29 /\ m = (m - 1) + 1
        BY <2>2
      <4> QED
        BY <4>1
    <3>2. k \notin Above
      BY <1>2, <3>1
    <3>3. Shift[m] = 2 * Shift[k] /\ Shift[k] \in Nat
      BY <3>1, ShiftStep, ShiftPositive
    <3> QED
      BY <3>2, <3>3
  <2> QED
    BY <2>1, <2>2
<1>5. size \div Shift[m] = 1
  <2>1. PICK x \in Nat \ {0} : x = Shift[m]
    BY <1>3
  <2>2. x <= size /\ size < 2 * x
    BY <1>2, <1>4, <2>1
  <2>3. /\ size \div x \in Nat
        /\ x * (size \div x) <= size /\ size < x * ((size \div x) + 1)
    BY DivBounds
  <2>4. PICK q \in Nat : q = size \div x
    BY <2>3
  <2>5. q # 0
    BY <2>2, <2>3, <2>4
  <2>6. ~ (q >= 2)
    <3>1. SUFFICES ASSUME q >= 2
                   PROVE  FALSE
      OBVIOUS
    <3>2. x * q >= x * 2
      BY <3>1
    <3> QED
      BY <2>2, <2>3, <2>4, <3>2
  <2> QED
    BY <2>1, <2>4, <2>5, <2>6
<1>6. \E n \in 0 .. 30 : size \div Shift[n] = 1
  BY <1>5
<1>7. PICK f : f = find_fls(size) /\ f \in 0 .. 30 /\ size \div Shift[f] = 1
  BY <1>6 DEF find_fls
<1>8. PICK x \in Nat \ {0} : x = Shift[f]
  BY <1>7, ShiftPositive
<1>9. size \div x = 1
  BY <1>7, <1>8
<1>10. x * 1 <= size /\ size < x * (1 + 1)
  BY <1>9, DivBounds
<1> QED
  BY <1>7, <1>8, <1>10

(* Size s is in the class of its power of two, f, and of q, its leading     *)
(* bits.                                                                    *)
InClass(s, f, q) ==
  /\ f = find_fls(s) /\ f \in TLSF_OFFSET .. 30
  /\ q \in TLSF_SLI_COUNT .. 2 * TLSF_SLI_COUNT - 1
  /\ Shift[f] <= s /\ s < 2 * Shift[f]
  /\ Shift[f - TLSF_SLI_LOG2] * q <= s /\ s < Shift[f - TLSF_SLI_LOG2] * (q + 1)
  /\ mapping_insert(s) = <<f - TLSF_OFFSET, q - TLSF_SLI_COUNT>>

LEMMA ClassConstants ==
  /\ TLSF_OFFSET \in 0 .. 30 /\ TLSF_SLI_LOG2 \in 0 .. 30
  /\ TLSF_SLI_LOG2 <= TLSF_OFFSET
  /\ TLSF_FLI_COUNT \in Nat \ {0} /\ TLSF_OFFSET + TLSF_FLI_COUNT <= 30
  /\ TLSF_SLI_COUNT \in Nat \ {0} /\ Shift[TLSF_OFFSET] \in Nat \ {0}
  /\ TLSF_MIN_BLOCK_SIZE \in Nat \ {0} /\ TLSF_MIN_BLOCK_SIZE >= Shift[TLSF_OFFSET]
  /\ TLSF_HEADER_SIZE \in Nat \ {0} /\ TLSF_ALIGN \in Nat \ {0}
  /\ pool_size \in Nat /\ pool_size >= TLSF_HEADER_SIZE + TLSF_MIN_BLOCK_SIZE
  /\ pool_size < Shift[TLSF_OFFSET + TLSF_FLI_COUNT]
<1> HIDE DEF Shift
<1>1. /\ TLSF_OFFSET \in 0 .. 30 /\ TLSF_SLI_LOG2 \in 0 .. 30
      /\ TLSF_HEADER_SIZE \in Nat \ {0} /\ TLSF_ALIGN \in Nat \ {0}
      /\ TLSF_FLI_COUNT \in Nat \ {0}
  BY TlsfAssumption
<1>2. Shift[TLSF_SLI_LOG2] \in Nat \ {0} /\ Shift[TLSF_OFFSET] \in Nat \ {0}
  BY <1>1, ShiftPositive
<1> QED
  BY <1>1, <1>2, TlsfAssumption DEF TLSF_SLI_COUNT

LEMMA ClassOf ==
  ASSUME NEW s \in Nat, s >= Shift[TLSF_OFFSET], s < 2 * Shift[30]
  PROVE  \E f, q : InClass(s, f, q)
<1> USE ClassConstants
<1>1. PICK f : f = find_fls(s)
  OBVIOUS
<1>2. f \in 0 .. 30 /\ Shift[f] <= s /\ s < 2 * Shift[f]
  BY <1>1, FlsFacts
<1>3. f >= TLSF_OFFSET
  <2>1. SUFFICES ASSUME f < TLSF_OFFSET
                 PROVE  FALSE
    BY <1>2
  <2>2. 2 * Shift[f] <= Shift[TLSF_OFFSET]
    BY <1>2, <2>1, ShiftGrows
  <2>3. Shift[f] \in Nat
    BY <1>2, ShiftPositive
  <2> QED
    BY <1>2, <2>2, <2>3
<1>4. PICK e \in 0 .. 30 : e = f - TLSF_SLI_LOG2
  BY <1>2, <1>3
<1>6. e + TLSF_SLI_LOG2 = f
  BY <1>2, <1>4
<1>5. Shift[e + TLSF_SLI_LOG2] = Shift[e] * Shift[TLSF_SLI_LOG2]
  <2>1. e \in Nat /\ TLSF_SLI_LOG2 \in Nat /\ e + TLSF_SLI_LOG2 <= 30
    BY <1>2, <1>4, <1>6
  <2> QED
    BY <2>1, ShiftAdds
<1>7. PICK w \in Nat \ {0} : w = Shift[e]
  BY ShiftPositive
<1>8. PICK k \in Nat \ {0} : k = TLSF_SLI_COUNT
  OBVIOUS
<1>9. w * k <= s /\ s < 2 * (w * k)
  BY <1>2, <1>5, <1>6, <1>7, <1>8 DEF TLSF_SLI_COUNT
<1>10. PICK q : q = s \div w
  OBVIOUS
<1>11. q \in Nat /\ w * q <= s /\ s < w * (q + 1)
  BY <1>10, DivBounds
<1>12. q >= k
  <2>1. SUFFICES ASSUME q + 1 <= k
                 PROVE  FALSE
    BY <1>11
  <2>2. w * (q + 1) <= w * k
    BY <1>11, <2>1
  <2> QED
    BY <1>9, <1>11, <2>2
<1>13. q < 2 * k
  <2>1. SUFFICES ASSUME q >= 2 * k
                 PROVE  FALSE
    BY <1>11
  <2>2. w * q >= w * (2 * k)
    BY <1>11, <2>1
  <2>3. w * (2 * k) = 2 * (w * k)
    OBVIOUS
  <2> QED
    BY <1>9, <1>11, <2>2, <2>3
<1>14. q % k = q - k
  BY <1>11, <1>12, <1>13
<1>15. mapping_insert(s) = <<f - TLSF_OFFSET, q - k>>
  BY <1>1, <1>4, <1>7, <1>8, <1>10, <1>14 DEF mapping_insert
<1>16. /\ f \in TLSF_OFFSET .. 30
       /\ q \in TLSF_SLI_COUNT .. 2 * TLSF_SLI_COUNT - 1
  BY <1>2, <1>3, <1>8, <1>11, <1>12, <1>13
<1>17. InClass(s, f, q)
  BY <1>1, <1>2, <1>4, <1>7, <1>8, <1>11, <1>15, <1>16 DEF InClass
<1> QED
  BY <1>17

LEMMA ClassTypes ==
  ASSUME NEW s, NEW f, NEW q, InClass(s, f, q)
  PROVE  f \in 0 .. 30 /\ q \in Nat /\ f - TLSF_SLI_LOG2 \in 0 .. 30
<1> USE ClassConstants
<1>1. f \in TLSF_OFFSET .. 30 /\ q \in TLSF_SLI_COUNT .. 2 * TLSF_SLI_COUNT - 1
  BY DEF InClass
<1> QED
  BY <1>1

PoolSizes == { s \in Nat : s >= TLSF_MIN_BLOCK_SIZE /\ s < pool_size }

LEMMA ClassFacts ==
  ASSUME NEW s \in PoolSizes
  PROVE  /\ \E f, q : InClass(s, f, q) /\ f < TLSF_OFFSET + TLSF_FLI_COUNT
         /\ mapping_insert(s) \in Classes
<1> USE ClassConstants
<1>1. PICK e \in 0 .. 30 : e = TLSF_OFFSET + TLSF_FLI_COUNT
  OBVIOUS
<1>2. Shift[e] \in Nat /\ Shift[30] \in Nat
  BY ShiftPositive
<1>3. Shift[e] <= Shift[30]
  <2>1. CASE e = 30
    BY <1>2, <2>1
  <2>2. CASE e < 30
    <3>1. 2 * Shift[e] <= Shift[30]
      BY <2>2, ShiftGrows
    <3> QED
      BY <1>2, <3>1
  <2> QED
    BY <1>1, <2>1, <2>2
<1>4. s \in Nat /\ s >= Shift[TLSF_OFFSET] /\ s < Shift[e] /\ s < 2 * Shift[30]
  BY <1>1, <1>2, <1>3 DEF PoolSizes
<1>5. PICK f, q : InClass(s, f, q)
  BY <1>4, ClassOf
<1>6. f < e
  <2>1. SUFFICES ASSUME e <= f
                 PROVE  FALSE
    BY <1>5 DEF InClass
  <2>2. CASE e = f
    BY <1>2, <1>4, <1>5, <2>2 DEF InClass
  <2>3. CASE e < f
    <3>1. f \in 0 .. 30 /\ Shift[f] <= s
      BY <1>5, ClassTypes DEF InClass
    <3>2. 2 * Shift[e] <= Shift[f] /\ Shift[f] \in Nat
      BY <2>3, <3>1, ShiftGrows, ShiftPositive
    <3> QED
      BY <1>2, <1>4, <3>1, <3>2
  <2> QED
    BY <1>5, <2>1, <2>2, <2>3 DEF InClass
<1>7. f - TLSF_OFFSET \in Levels /\ q - TLSF_SLI_COUNT \in 0 .. TLSF_SLI_COUNT - 1
  BY <1>1, <1>5, <1>6 DEF InClass, Levels
<1>8. mapping_insert(s) \in Classes
  BY <1>5, <1>7 DEF InClass, Classes
<1> QED
  BY <1>1, <1>5, <1>6, <1>8

(* The class a search for n begins with is that of n rounded up, m.         *)
Rounded(n, m) ==
  /\ m \in Nat /\ n <= m
  /\ \E f, w : /\ f = find_fls(n) /\ w = Shift[f - TLSF_SLI_LOG2] /\ w \in Nat \ {0}
               /\ m = n + w - 1 /\ w * TLSF_SLI_COUNT <= n
  /\ m < 2 * Shift[30]
  /\ mapping_search(n) = mapping_insert(m)

LEMMA SearchRounds ==
  ASSUME NEW n \in PoolSizes
  PROVE  \E m : Rounded(n, m)
<1> USE ClassConstants
<1>1. n \in Nat /\ n >= Shift[TLSF_OFFSET]
  BY DEF PoolSizes
<1>2. PICK f, q : InClass(n, f, q) /\ f < TLSF_OFFSET + TLSF_FLI_COUNT
  BY ClassFacts
<1>3. f \in 0 .. 29 /\ f >= TLSF_SLI_LOG2 /\ f = find_fls(n)
  BY <1>2 DEF InClass
<1>4. PICK e \in 0 .. 30 : e = f - TLSF_SLI_LOG2
  BY <1>3
<1>5. Shift[e + TLSF_SLI_LOG2] = Shift[e] * Shift[TLSF_SLI_LOG2]
  BY <1>3, <1>4, ShiftAdds
<1>6. e + TLSF_SLI_LOG2 = f
  BY <1>3, <1>4
<1>7. PICK w \in Nat \ {0} : w = Shift[e]
  BY ShiftPositive
<1>8. w * TLSF_SLI_COUNT = Shift[f] /\ Shift[f] <= n
  BY <1>2, <1>5, <1>6, <1>7 DEF InClass, TLSF_SLI_COUNT
<1>9. PICK m : m = n + w - 1
  OBVIOUS
<1>10. m \in Nat /\ n <= m
  BY <1>1, <1>9
<1>11. m < 2 * Shift[30]
  <2>1. w <= Shift[f]
    <3>1. PICK k \in Nat \ {0} : k = TLSF_SLI_COUNT
      OBVIOUS
    <3>2. w <= w * k
      BY <3>1
    <3> QED
      BY <1>8, <3>1, <3>2
  <2>2. n < 2 * Shift[f]
    BY <1>2 DEF InClass
  <2>3. 2 * Shift[f] <= Shift[30]
    BY <1>3, ShiftGrows
  <2>4. Shift[f] \in Nat /\ Shift[30] \in Nat
    BY <1>3, ShiftPositive
  <2> QED
    BY <1>1, <1>9, <2>1, <2>2, <2>3, <2>4
<1>12. mapping_search(n) = mapping_insert(m)
  <2>1. ~ (n < Shift[TLSF_OFFSET])
    BY <1>1
  <2> QED
    BY <1>3, <1>4, <1>7, <1>9, <2>1 DEF mapping_search
<1>13. Rounded(n, m)
  BY <1>3, <1>4, <1>7, <1>8, <1>9, <1>10, <1>11, <1>12 DEF Rounded
<1> QED
  BY <1>13

(* c before d, or the same.                                                 *)
NotBefore(d, c) == d[1] > c[1] \/ (d[1] = c[1] /\ d[2] >= c[2])

(* Every block of the classes a search looks into is large enough ...       *)
LEMMA SearchFits ==
  ASSUME NEW n \in PoolSizes, NEW s \in PoolSizes,
         NotBefore(mapping_insert(s), mapping_search(n))
  PROVE  s >= n
<1> USE ClassConstants
<1>1. s \in Nat /\ n \in Nat /\ n >= Shift[TLSF_OFFSET]
  BY DEF PoolSizes
<1>2. PICK f, q : InClass(n, f, q)
  BY ClassFacts
<1>3. PICK m : Rounded(n, m)
  BY SearchRounds
<1>4. m \in Nat /\ m >= Shift[TLSF_OFFSET] /\ m < 2 * Shift[30] /\ n <= m
  BY <1>1, <1>3 DEF Rounded
<1>5. PICK g, p : InClass(m, g, p)
  BY <1>4, ClassOf
<1>6. PICK h, r : InClass(s, h, r)
  BY ClassFacts
<1>7. /\ f \in 0 .. 30 /\ g \in 0 .. 30 /\ h \in 0 .. 30
      /\ p \in Nat /\ r \in Nat
  BY <1>2, <1>5, <1>6, ClassTypes
<1>8. h > g \/ (h = g /\ r >= p)
  <2>1. mapping_insert(s) = <<h - TLSF_OFFSET, r - TLSF_SLI_COUNT>>
    BY <1>6 DEF InClass
  <2>2. mapping_search(n) = <<g - TLSF_OFFSET, p - TLSF_SLI_COUNT>>
    BY <1>3, <1>5 DEF InClass, Rounded
  <2> QED
    BY <1>7, <2>1, <2>2 DEF NotBefore
<1>9. Shift[f] \in Nat /\ Shift[g] \in Nat /\ Shift[h] \in Nat
  BY <1>7, ShiftPositive
<1>10. CASE h > g
  <2>1. 2 * Shift[g] <= Shift[h]
    BY <1>7, <1>10, ShiftGrows
  <2>2. m < 2 * Shift[g] /\ Shift[h] <= s
    BY <1>5, <1>6 DEF InClass
  <2> QED
    BY <1>1, <1>4, <1>9, <2>1, <2>2
<1>11. CASE h = g /\ r >= p /\ g = f
  <2>1. PICK w \in Nat \ {0} : /\ w = Shift[f - TLSF_SLI_LOG2]
                               /\ m = n + w - 1
    BY <1>2, <1>3 DEF Rounded, InClass
  <2>2. w * r <= s /\ m < w * (p + 1)
    BY <1>5, <1>6, <1>11, <2>1 DEF InClass
  <2>3. w * p <= w * r
    BY <1>7, <1>11
  <2>4. w * (p + 1) = w * p + w
    BY <1>7
  <2>5. PICK x \in Nat, y \in Nat : x = w * p /\ y = w * r
    BY <1>7
  <2> QED
    BY <1>1, <2>1, <2>2, <2>3, <2>4, <2>5
<1>12. CASE h = g /\ g # f
  <2>1. Shift[f] <= n /\ n < 2 * Shift[f] /\ m < 2 * Shift[g] /\ Shift[h] <= s
    BY <1>2, <1>5, <1>6 DEF InClass
  <2>2. f < g
    <3>1. SUFFICES ASSUME g < f
                   PROVE  FALSE
      BY <1>7, <1>12
    <3>2. 2 * Shift[g] <= Shift[f]
      BY <1>7, <3>1, ShiftGrows
    <3> QED
      BY <1>1, <1>4, <1>9, <2>1, <3>2
  <2>3. 2 * Shift[f] <= Shift[g]
    BY <1>7, <2>2, ShiftGrows
  <2> QED
    BY <1>1, <1>9, <1>12, <2>1, <2>3
<1> QED
  BY <1>8, <1>10, <1>11, <1>12

(* ... and no block of the other classes is larger than the request by more *)
(* than the width of a class.                                               *)
LEMMA SearchMisses ==
  ASSUME NEW n \in PoolSizes, NEW s \in PoolSizes,
         ~ NotBefore(mapping_insert(s), mapping_search(n))
  PROVE  s * TLSF_SLI_COUNT < n * (TLSF_SLI_COUNT + 1)
<1> USE ClassConstants
<1>1. s \in Nat /\ n \in Nat /\ n >= Shift[TLSF_OFFSET]
  BY DEF PoolSizes
<1>2. PICK m : Rounded(n, m)
  BY SearchRounds
<1>3. m \in Nat /\ m >= Shift[TLSF_OFFSET] /\ m < 2 * Shift[30] /\ n <= m
  BY <1>1, <1>2 DEF Rounded
<1>4. PICK g, p : InClass(m, g, p)
  BY <1>3, ClassOf
<1>5. PICK h, r : InClass(s, h, r)
  BY ClassFacts
<1>6. g \in 0 .. 30 /\ h \in 0 .. 30 /\ p \in Nat /\ r \in Nat
  BY <1>4, <1>5, ClassTypes
<1>7. h < g \/ (h = g /\ r + 1 <= p)
  <2>1. mapping_insert(s) = <<h - TLSF_OFFSET, r - TLSF_SLI_COUNT>>
    BY <1>5 DEF InClass
  <2>2. mapping_search(n) = <<g - TLSF_OFFSET, p - TLSF_SLI_COUNT>>
    BY <1>2, <1>4 DEF InClass, Rounded
  <2> QED
    BY <1>6, <2>1, <2>2 DEF NotBefore
<1>8. Shift[g] \in Nat /\ Shift[h] \in Nat
  BY <1>6, ShiftPositive
<1>9. s < m
  <2>1. CASE h < g
    <3>1. 2 * Shift[h] <= Shift[g]
      BY <1>6, <2>1, ShiftGrows
    <3>2. s < 2 * Shift[h] /\ Shift[g] <= m
      BY <1>4, <1>5 DEF InClass
    <3> QED
      BY <1>1, <1>3, <1>8, <3>1, <3>2
  <2>2. CASE h = g /\ r + 1 <= p
    <3>1. g - TLSF_SLI_LOG2 \in 0 .. 30
      BY <1>4 DEF InClass
    <3>2. PICK w \in Nat \ {0} : w = Shift[g - TLSF_SLI_LOG2]
      BY <3>1, ShiftPositive
    <3>3. s < w * (r + 1) /\ w * p <= m
      BY <1>4, <1>5, <2>2, <3>2 DEF InClass
    <3>4. w * (r + 1) <= w * p
      BY <1>6, <2>2
    <3>5. PICK x \in Nat, y \in Nat : x = w * (r + 1) /\ y = w * p
      BY <1>6
    <3> QED
      BY <1>1, <1>3, <3>3, <3>4, <3>5
  <2> QED
    BY <1>7, <2>1, <2>2
<1>10. PICK w \in Nat \ {0} : m = n + w - 1 /\ w * TLSF_SLI_COUNT <= n
  BY <1>2 DEF Rounded
<1>11. PICK k \in Nat \ {0} : k = TLSF_SLI_COUNT
  OBVIOUS
<1>12. s + 1 <= n + w - 1 /\ w * k <= n
  BY <1>1, <1>9, <1>10, <1>11
<1>13. (s + 1) * k <= (n + w - 1) * k
  BY <1>1, <1>12
<1>14. (n + w - 1) * k = n * k + w * k - k /\ (s + 1) * k = s * k + k
  BY <1>1
<1>15. n * (k + 1) = n * k + n
  BY <1>1
<1>16. PICK x \in Nat, y \in Nat, z \in Nat : x = s * k /\ y = n * k /\ z = w * k
  BY <1>1
<1>17. x + k <= y + z - k /\ z <= n
  BY <1>12, <1>13, <1>14, <1>16
<1>18. x < y + n
  BY <1>1, <1>17
<1> QED
  BY <1>11, <1>15, <1>16, <1>18

(***************************************************************************)
(* The layout of the pool: S is what a walk from the first block to the    *)
(* block after each meets, and the last one ends where the pool does.      *)
(***************************************************************************)
EndAt(m, b) == b + TLSF_HEADER_SIZE + m[b].size

Walk(m) == Chain(first_block, [a \in Addrs |-> EndAt(m, a)])

Laid(m, S) ==
  /\ \A a \in Addrs : m[a].size \in Nat
  /\ S = Walk(m)
  /\ \E b \in S : EndAt(m, b) = pool_size

LEMMA AddrFacts ==
  /\ pool_size \in Nat /\ TLSF_HEADER_SIZE \in Nat \ {0}
  /\ Addrs \in SUBSET Nat /\ 0 \in Addrs /\ first_block = 0
  /\ \A x \in Nat : x \in Addrs <=> x < pool_size
  /\ Null \notin Nat
<1> USE ClassConstants
<1>1. 0 < pool_size
  OBVIOUS
<1> QED
  BY <1>1 DEF Addrs, first_block, Null

LEMMA EndFacts ==
  ASSUME NEW m, \A a \in Addrs : m[a].size \in Nat
  PROVE  \A a \in Addrs : EndAt(m, a) \in Nat /\ a < EndAt(m, a)
<1> USE AddrFacts
<1>1. ASSUME NEW a \in Addrs
      PROVE  EndAt(m, a) \in Nat /\ a < EndAt(m, a)
  <2>1. PICK z \in Nat : z = m[a].size
    OBVIOUS
  <2> QED
    BY <2>1 DEF EndAt
<1> QED
  BY <1>1

LEMMA WalkClosed ==
  ASSUME NEW m, \A a \in Addrs : m[a].size \in Nat
  PROVE  /\ Walk(m) \subseteq Addrs /\ 0 \in Walk(m)
         /\ \A x \in Walk(m) : EndAt(m, x) < pool_size => EndAt(m, x) \in Walk(m)
<1> USE AddrFacts
<1> DEFINE succ == [a \in Addrs |-> EndAt(m, a)]
<1>1. /\ Chain(first_block, succ) \subseteq Addrs
      /\ first_block \in Addrs => first_block \in Chain(first_block, succ)
      /\ \A x \in Chain(first_block, succ) :
            succ[x] \in Addrs => succ[x] \in Chain(first_block, succ)
  BY ChainClosed
<1>2. \A a \in Addrs : succ[a] = EndAt(m, a)
  OBVIOUS
<1>3. Walk(m) = Chain(first_block, succ)
  BY DEF Walk
<1> HIDE DEF succ
<1>4. \A a \in Addrs : EndAt(m, a) \in Nat
  BY EndFacts
<1> QED
  BY <1>1, <1>2, <1>3, <1>4

LEMMA WalkLeast ==
  ASSUME NEW m, \A a \in Addrs : m[a].size \in Nat,
         NEW S \in SUBSET Addrs, 0 \in S,
         \A x \in S : EndAt(m, x) < pool_size => EndAt(m, x) \in S
  PROVE  Walk(m) \subseteq S
<1> USE AddrFacts
<1> DEFINE succ == [a \in Addrs |-> EndAt(m, a)]
<1>1. \A a \in Addrs : succ[a] = EndAt(m, a)
  OBVIOUS
<1>2. Walk(m) = Chain(first_block, succ)
  BY DEF Walk
<1> HIDE DEF succ
<1>3. \A x \in S : succ[x] \in Addrs => succ[x] \in S
  BY <1>1, EndFacts
<1>4. Chain(first_block, succ) \subseteq S
  BY <1>3, ChainLeast
<1> QED
  BY <1>2, <1>4

LEMMA LaidFacts ==
  ASSUME NEW m, NEW S, Laid(m, S)
  PROVE  /\ S \in SUBSET Addrs /\ 0 \in S
         /\ \A b \in S : /\ EndAt(m, b) \in Nat /\ b < EndAt(m, b)
                         /\ EndAt(m, b) <= pool_size
                         /\ EndAt(m, b) < pool_size => EndAt(m, b) \in S
         /\ \A x, y \in S : x < y => EndAt(m, x) <= y
         /\ \A y \in S : y # 0 => \E x \in S : EndAt(m, x) = y
<1> USE AddrFacts
<1>1. \A a \in Addrs : m[a].size \in Nat
  BY DEF Laid
<1>2. S = Walk(m)
  BY DEF Laid
<1>3. /\ S \in SUBSET Addrs /\ 0 \in S
      /\ \A x \in S : EndAt(m, x) < pool_size => EndAt(m, x) \in S
  BY <1>1, <1>2, WalkClosed
<1>4. \A a \in S : EndAt(m, a) \in Nat /\ a < EndAt(m, a)
  BY <1>1, <1>3, EndFacts
<1> DEFINE After == { y \in S : \A x \in S : x < y => EndAt(m, x) <= y }
<1>5. ASSUME NEW y \in After
      PROVE  \A x \in S : x <= y \/ EndAt(m, y) <= x
  <2> DEFINE Beside == { x \in S : x <= y \/ EndAt(m, y) <= x }
  <2>1. 0 \in Beside
    BY <1>3
  <2>2. ASSUME NEW x \in Beside, EndAt(m, x) < pool_size
        PROVE  EndAt(m, x) \in Beside
    <3>1. EndAt(m, x) \in S /\ x \in S /\ y \in S
      BY <1>3, <2>2
    <3>2. CASE x < y
      <4>1. EndAt(m, x) <= y
        BY <3>1, <3>2
      <4> QED
        BY <3>1, <4>1
    <3>3. CASE x = y
      BY <1>3, <1>4, <3>1, <3>3
    <3>4. CASE y < x
      <4>1. EndAt(m, y) <= x /\ x < EndAt(m, x)
        BY <1>3, <1>4, <3>1, <3>4
      <4>2. EndAt(m, y) <= EndAt(m, x)
        BY <1>3, <1>4, <3>1, <4>1
      <4> QED
        BY <3>1, <4>2
    <3> QED
      BY <1>3, <3>1, <3>2, <3>3, <3>4
  <2>3. Beside \in SUBSET Addrs
    BY <1>3
  <2>4. Walk(m) \subseteq Beside
    <3> HIDE DEF Beside
    <3> QED
      BY <1>1, <2>1, <2>2, <2>3, WalkLeast
  <2> QED
    BY <1>2, <2>4
<1>6. S \subseteq After
  <2>1. 0 \in After
    BY <1>3
  <2>2. ASSUME NEW y \in After, EndAt(m, y) < pool_size
        PROVE  EndAt(m, y) \in After
    <3>1. EndAt(m, y) \in S /\ y \in S
      BY <1>3, <2>2
    <3>2. ASSUME NEW x \in S, x < EndAt(m, y)
          PROVE  EndAt(m, x) <= EndAt(m, y)
      <4>1. x <= y
        BY <1>3, <1>4, <1>5, <3>1, <3>2
      <4>2. CASE x = y
        BY <1>4, <3>1, <4>2
      <4>3. CASE x < y
        <5>1. EndAt(m, x) <= y
          BY <4>3
        <5> QED
          BY <1>3, <1>4, <3>1, <5>1
      <4> QED
        BY <1>3, <3>1, <4>1, <4>2, <4>3
    <3> QED
      BY <3>1, <3>2
  <2>3. After \in SUBSET Addrs
    BY <1>3
  <2> HIDE DEF After
  <2> QED
    BY <1>1, <1>2, <2>1, <2>2, <2>3, WalkLeast
<1>7. \A x, y \in S : x < y => EndAt(m, x) <= y
  BY <1>6
<1>8. PICK last \in S : EndAt(m, last) = pool_size
  BY DEF Laid
<1>9. ASSUME NEW b \in S
      PROVE  EndAt(m, b) <= pool_size
  <2>1. CASE b < last
    <3>1. EndAt(m, b) <= last /\ last < pool_size
      BY <1>3, <1>7, <2>1
    <3> QED
      BY <1>3, <1>4, <3>1
  <2>2. CASE b = last
    BY <1>8, <2>2
  <2>3. CASE last < b
    BY <1>3, <1>7, <1>8, <2>3
  <2> QED
    BY <1>3, <2>1, <2>2, <2>3
<1> DEFINE Met == { y \in S : y = 0 \/ \E x \in S : EndAt(m, x) = y }
<1>10. S \subseteq Met
  <2>1. 0 \in Met
    BY <1>3
  <2>2. \A y \in Met : EndAt(m, y) < pool_size => EndAt(m, y) \in Met
    BY <1>3
  <2>3. Met \in SUBSET Addrs
    BY <1>3
  <2> HIDE DEF Met
  <2> QED
    BY <1>1, <1>2, <2>1, <2>2, <2>3, WalkLeast
<1> QED
  BY <1>3, <1>4, <1>7, <1>9, <1>10

LEMMA LaidInjective ==
  ASSUME NEW m, NEW S, Laid(m, S), NEW x \in S, NEW y \in S, EndAt(m, x) = EndAt(m, y)
  PROVE  x = y
<1> USE AddrFacts
<1>1. x \in Nat /\ y \in Nat
  BY LaidFacts
<1>2. /\ EndAt(m, x) \in Nat /\ x < EndAt(m, x)
      /\ EndAt(m, y) \in Nat /\ y < EndAt(m, y)
      /\ x < y => EndAt(m, x) <= y
      /\ y < x => EndAt(m, y) <= x
  BY LaidFacts
<1> QED
  BY <1>1, <1>2

LEMMA LaidKept ==
  ASSUME NEW m, NEW S, Laid(m, S), NEW m2,
         \A a \in Addrs : m2[a].size \in Nat,
         \A a \in S : m2[a].size = m[a].size
  PROVE  Laid(m2, S)
<1> USE AddrFacts
<1>1. /\ S \in SUBSET Addrs /\ 0 \in S
      /\ \A b \in S : EndAt(m, b) < pool_size => EndAt(m, b) \in S
  BY LaidFacts
<1>2. \A b \in S : EndAt(m2, b) = EndAt(m, b)
  BY DEF EndAt
<1>3. Walk(m2) \subseteq S
  BY <1>1, <1>2, WalkLeast
<1>4. S \subseteq Walk(m2)
  <2>1. \A x \in Walk(m2) : EndAt(m2, x) < pool_size => EndAt(m2, x) \in Walk(m2)
    BY WalkClosed
  <2>2. 0 \in Walk(m2)
    BY WalkClosed
  <2>3. Walk(m) \subseteq Walk(m2)
    BY <1>1, <1>2, <1>3, <2>1, <2>2, WalkLeast DEF Laid
  <2> QED
    BY <2>3 DEF Laid
<1>5. \E b \in S : EndAt(m2, b) = pool_size
  BY <1>2 DEF Laid
<1> QED
  BY <1>3, <1>4, <1>5 DEF Laid

LEMMA LaidSplit ==
  ASSUME NEW m, NEW S, Laid(m, S), NEW m2, \A a \in Addrs : m2[a].size \in Nat,
         NEW b \in S, NEW rem \in Nat, b < rem, rem < EndAt(m, b),
         EndAt(m2, b) = rem, EndAt(m2, rem) = EndAt(m, b),
         \A a \in S \ {b} : m2[a].size = m[a].size
  PROVE  Laid(m2, S \cup {rem}) /\ rem \notin S /\ rem \in Addrs
<1> USE AddrFacts
<1>1. /\ S \in SUBSET Addrs /\ 0 \in S /\ S \in SUBSET Nat
      /\ \A x \in S : /\ EndAt(m, x) \in Nat /\ EndAt(m, x) <= pool_size
                      /\ EndAt(m, x) < pool_size => EndAt(m, x) \in S
      /\ \A x \in S : x < rem => x <= b \/ EndAt(m, b) <= x
      /\ b < rem /\ rem \in S => EndAt(m, b) <= rem
  BY LaidFacts
<1>2. rem \notin S /\ rem \in Addrs
  BY <1>1
<1>3. \A x \in S \ {b} : EndAt(m2, x) = EndAt(m, x)
  BY DEF EndAt
<1>4. Walk(m2) \subseteq S \cup {rem}
  <2>1. \A x \in S \cup {rem} :
          EndAt(m2, x) < pool_size => EndAt(m2, x) \in S \cup {rem}
    BY <1>1, <1>3
  <2>2. 0 \in S \cup {rem} /\ S \cup {rem} \in SUBSET Addrs
    BY <1>1, <1>2
  <2> QED
    BY <2>1, <2>2, WalkLeast
<1>5. /\ 0 \in Walk(m2)
      /\ \A x \in Walk(m2) : EndAt(m2, x) < pool_size => EndAt(m2, x) \in Walk(m2)
  BY WalkClosed
<1>6. S \subseteq Walk(m2)
  <2> DEFINE Both == Walk(m2) \cap S
  <2>1. ASSUME NEW x \in Both, EndAt(m, x) < pool_size
        PROVE  EndAt(m, x) \in Both
    <3>1. EndAt(m, x) \in S
      BY <1>1, <2>1
    <3>2. CASE x = b
      <4>1. rem \in Walk(m2)
        BY <1>2, <1>5, <3>2
      <4> QED
        BY <1>5, <2>1, <3>1, <3>2, <4>1
    <3>3. CASE x # b
      BY <1>3, <1>5, <2>1, <3>1, <3>3
    <3> QED
      BY <3>2, <3>3
  <2>2. 0 \in Both /\ Both \in SUBSET Addrs
    BY <1>1, <1>5
  <2>3. \A a \in Addrs : m[a].size \in Nat
    BY DEF Laid
  <2> HIDE DEF Both
  <2>4. Walk(m) \subseteq Both
    BY <2>1, <2>2, <2>3, WalkLeast
  <2> QED
    BY <2>4 DEF Both, Laid
<1>7. rem \in Walk(m2)
  BY <1>2, <1>5, <1>6
<1>8. \E x \in S \cup {rem} : EndAt(m2, x) = pool_size
  <2>1. PICK x \in S : EndAt(m, x) = pool_size
    BY DEF Laid
  <2> QED
    BY <1>3, <2>1
<1> QED
  BY <1>2, <1>4, <1>6, <1>7, <1>8 DEF Laid

LEMMA LaidMerge ==
  ASSUME NEW m, NEW S, Laid(m, S), NEW m2, \A a \in Addrs : m2[a].size \in Nat,
         NEW b \in S, NEW y \in S, EndAt(m, b) = y, EndAt(m2, b) = EndAt(m, y),
         \A a \in S \ {b, y} : m2[a].size = m[a].size
  PROVE  Laid(m2, S \ {y})
<1> USE AddrFacts
<1>1. /\ S \in SUBSET Addrs /\ 0 \in S /\ S \in SUBSET Nat
      /\ \A x \in S : /\ EndAt(m, x) \in Nat /\ x < EndAt(m, x)
                      /\ EndAt(m, x) < pool_size => EndAt(m, x) \in S
  BY LaidFacts
<1>2. \A x \in S : EndAt(m, x) = y => x = b
  BY LaidInjective
<1>3. y # 0 /\ b # y
  BY <1>1
<1>4. \A x \in S \ {b, y} : EndAt(m2, x) = EndAt(m, x)
  BY DEF EndAt
<1>5. Walk(m2) \subseteq S \ {y}
  <2>1. ASSUME NEW x \in S \ {y}, EndAt(m2, x) < pool_size
        PROVE  EndAt(m2, x) \in S \ {y}
    <3>1. CASE x = b
      BY <1>1, <2>1, <3>1
    <3>2. CASE x # b
      BY <1>1, <1>2, <1>4, <2>1, <3>2
    <3> QED
      BY <3>1, <3>2
  <2> QED
    BY <1>1, <1>3, <2>1, WalkLeast
<1>6. /\ 0 \in Walk(m2)
      /\ \A x \in Walk(m2) : EndAt(m2, x) < pool_size => EndAt(m2, x) \in Walk(m2)
  BY WalkClosed
<1>7. S \ {y} \subseteq Walk(m2)
  <2> DEFINE More == Walk(m2) \cup (IF b \in Walk(m2) THEN {y} ELSE {})
  <2>1. ASSUME NEW x \in More, EndAt(m, x) < pool_size
        PROVE  EndAt(m, x) \in More
    <3>1. CASE x = y
      BY <1>3, <1>5, <1>6, <2>1, <3>1
    <3>2. CASE x = b
      BY <1>3, <2>1, <3>2
    <3>3. CASE x # y /\ x # b
      BY <1>4, <1>5, <1>6, <2>1, <3>3
    <3> QED
      BY <3>1, <3>2, <3>3
  <2>2. 0 \in More /\ More \in SUBSET Addrs
    BY <1>1, <1>5, <1>6
  <2>3. \A a \in Addrs : m[a].size \in Nat
    BY DEF Laid
  <2> HIDE DEF More
  <2>4. Walk(m) \subseteq More
    BY <2>1, <2>2, <2>3, WalkLeast
  <2> QED
    BY <2>4 DEF More, Laid
<1>8. \E x \in S \ {y} : EndAt(m2, x) = pool_size
  <2>1. PICK x \in S : EndAt(m, x) = pool_size
    BY DEF Laid
  <2>2. x # b
    BY <1>1, <2>1
  <2>3. CASE x = y
    BY <1>3, <2>1, <2>3
  <2>4. CASE x # y
    BY <1>4, <2>1, <2>2, <2>4
  <2> QED
    BY <2>3, <2>4
<1> QED
  BY <1>5, <1>7, <1>8 DEF Laid

(***************************************************************************)
(* Free lists: S is what is reached from first, and prev_free undoes       *)
(* next_free.                                                              *)
(***************************************************************************)
Link == Addrs \cup {Null}

FreeList(first, m) == Chain(first, [a \in Addrs |-> m[a].next_free])

Linked(first, m, S) ==
  /\ S = FreeList(first, m)
  /\ \A b \in S :
       /\ m[b].prev_free = Null <=> first = b
       /\ m[b].next_free # Null => m[m[b].next_free].prev_free = b

LEMMA LinkFacts ==
  ASSUME NEW m \in [Addrs -> Headers]
  PROVE  /\ \A a \in Addrs : m[a].next_free \in Link /\ m[a].prev_free \in Link
         /\ Null \notin Addrs
<1>1. \A a \in Addrs : m[a] \in Headers
  OBVIOUS
<1> QED
  BY <1>1, AddrFacts DEF Headers, Link

LEMMA ListClosed ==
  ASSUME NEW m \in [Addrs -> Headers], NEW first \in Link
  PROVE  /\ FreeList(first, m) \subseteq Addrs
         /\ first # Null => first \in FreeList(first, m)
         /\ \A x \in FreeList(first, m) :
              m[x].next_free # Null => m[x].next_free \in FreeList(first, m)
<1> DEFINE succ == [a \in Addrs |-> m[a].next_free]
<1>1. /\ Chain(first, succ) \subseteq Addrs
      /\ first \in Addrs => first \in Chain(first, succ)
      /\ \A x \in Chain(first, succ) :
            succ[x] \in Addrs => succ[x] \in Chain(first, succ)
  BY ChainClosed
<1>2. \A a \in Addrs : succ[a] = m[a].next_free /\ m[a].next_free \in Link
  BY LinkFacts
<1>3. FreeList(first, m) = Chain(first, succ)
  BY DEF FreeList
<1> HIDE DEF succ
<1> QED
  BY <1>1, <1>2, <1>3 DEF Link

LEMMA ListLeast ==
  ASSUME NEW m \in [Addrs -> Headers], NEW first \in Link, NEW S \in SUBSET Addrs,
         first # Null => first \in S,
         \A x \in S : m[x].next_free # Null => m[x].next_free \in S
  PROVE  FreeList(first, m) \subseteq S
<1> DEFINE succ == [a \in Addrs |-> m[a].next_free]
<1>1. \A a \in Addrs : succ[a] = m[a].next_free
  OBVIOUS
<1>2. FreeList(first, m) = Chain(first, succ)
  BY DEF FreeList
<1> HIDE DEF succ
<1>3. Null \notin Addrs
  BY LinkFacts
<1>4. first \in Addrs => first \in S
  BY <1>3
<1>5. \A x \in S : succ[x] \in Addrs => succ[x] \in S
  BY <1>1, <1>3
<1>6. Chain(first, succ) \subseteq S
  BY <1>4, <1>5, ChainLeast
<1> QED
  BY <1>2, <1>6

LEMMA LinkedFacts ==
  ASSUME NEW m \in [Addrs -> Headers], NEW first \in Link, NEW S, Linked(first, m, S)
  PROVE  /\ S \in SUBSET Addrs /\ Null \notin S
         /\ first # Null => first \in S
         /\ first = Null => S = {}
         /\ \A x \in S : m[x].next_free # Null => m[x].next_free \in S
         /\ \A x \in S : m[x].prev_free # Null =>
              m[x].prev_free \in S /\ m[m[x].prev_free].next_free = x
<1>1. S = FreeList(first, m)
  BY DEF Linked
<1>2. /\ S \in SUBSET Addrs
      /\ first # Null => first \in S
      /\ \A x \in S : m[x].next_free # Null => m[x].next_free \in S
  BY <1>1, ListClosed
<1>3. Null \notin S
  BY <1>2, LinkFacts
<1>4. first = Null => S = {}
  <2>1. SUFFICES ASSUME first = Null
                 PROVE  S \subseteq {}
    OBVIOUS
  <2>2. {} \in SUBSET Addrs
    OBVIOUS
  <2>3. FreeList(first, m) \subseteq {}
    BY <2>1, <2>2, ListLeast
  <2> QED
    BY <1>1, <2>3
<1> DEFINE Met == { y \in S : y = first \/ \E x \in S : m[x].next_free = y }
<1>5. S \subseteq Met
  <2>1. Met \in SUBSET Addrs /\ (first # Null => first \in Met)
    BY <1>2
  <2>2. \A x \in Met : m[x].next_free # Null => m[x].next_free \in Met
    BY <1>2
  <2> HIDE DEF Met
  <2> QED
    BY <1>1, <2>1, <2>2, ListLeast
<1>6. ASSUME NEW y \in S, m[y].prev_free # Null
      PROVE  m[y].prev_free \in S /\ m[m[y].prev_free].next_free = y
  <2>1. y # first
    BY <1>6 DEF Linked
  <2>2. PICK x \in S : m[x].next_free = y
    BY <1>5, <2>1
  <2>3. m[y].prev_free = x
    BY <1>3, <2>2 DEF Linked
  <2> QED
    BY <2>2, <2>3
<1> QED
  BY <1>2, <1>3, <1>4, <1>6

LEMMA LinkedKept ==
  ASSUME NEW m \in [Addrs -> Headers], NEW first \in Link, NEW S, Linked(first, m, S),
         NEW m2 \in [Addrs -> Headers],
         \A a \in S : /\ m2[a].next_free = m[a].next_free
                      /\ m2[a].prev_free = m[a].prev_free
  PROVE  Linked(first, m2, S)
<1>1. /\ S \in SUBSET Addrs
      /\ first # Null => first \in S
      /\ \A x \in S : m[x].next_free # Null => m[x].next_free \in S
  BY LinkedFacts
<1>2. FreeList(first, m2) \subseteq S
  BY <1>1, ListLeast
<1>3. /\ first # Null => first \in FreeList(first, m2)
      /\ \A x \in FreeList(first, m2) :
           m2[x].next_free # Null => m2[x].next_free \in FreeList(first, m2)
  BY ListClosed
<1>4. FreeList(first, m) \subseteq FreeList(first, m2)
  <2>1. FreeList(first, m2) \in SUBSET Addrs
    BY <1>1, <1>2
  <2>2. \A x \in FreeList(first, m2) :
          m[x].next_free # Null => m[x].next_free \in FreeList(first, m2)
    BY <1>2, <1>3
  <2> QED
    BY <1>3, <2>1, <2>2, ListLeast
<1>5. S = FreeList(first, m2)
  BY <1>2, <1>4 DEF Linked
<1>6. ASSUME NEW b \in S
      PROVE  /\ m2[b].prev_free = Null <=> first = b
             /\ m2[b].next_free # Null => m2[m2[b].next_free].prev_free = b
  BY <1>1 DEF Linked
<1> QED
  BY <1>5, <1>6 DEF Linked

LEMMA LinkedInsert ==
  ASSUME NEW m \in [Addrs -> Headers], NEW first \in Link, NEW S, Linked(first, m, S),
         NEW b \in Addrs, b \notin S, NEW m2 \in [Addrs -> Headers],
         m2[b].next_free = first, m2[b].prev_free = Null,
         \A a \in S : /\ m2[a].next_free = m[a].next_free
                      /\ m2[a].prev_free = IF a = first THEN b ELSE m[a].prev_free
  PROVE  Linked(b, m2, S \cup {b})
<1>1. /\ S \in SUBSET Addrs
      /\ first # Null => first \in S
      /\ first = Null => S = {}
      /\ \A x \in S : m[x].next_free # Null => m[x].next_free \in S
  BY LinkedFacts
<1>2. b \in Link /\ Null \notin Addrs
  BY LinkFacts DEF Link
<1>3. FreeList(b, m2) \subseteq S \cup {b}
  <2>1. S \cup {b} \in SUBSET Addrs
    BY <1>1
  <2>2. \A x \in S \cup {b} : m2[x].next_free # Null => m2[x].next_free \in S \cup {b}
    BY <1>1
  <2> QED
    BY <1>2, <2>1, <2>2, ListLeast
<1>4. /\ b \in FreeList(b, m2)
      /\ \A x \in FreeList(b, m2) :
           m2[x].next_free # Null => m2[x].next_free \in FreeList(b, m2)
  BY <1>2, ListClosed
<1>5. S \subseteq FreeList(b, m2)
  <2> DEFINE Both == FreeList(b, m2) \cap S
  <2>1. Both \in SUBSET Addrs /\ (first # Null => first \in Both)
    BY <1>1, <1>4
  <2>2. \A x \in Both : m[x].next_free # Null => m[x].next_free \in Both
    BY <1>1, <1>4
  <2> HIDE DEF Both
  <2>3. FreeList(first, m) \subseteq Both
    BY <2>1, <2>2, ListLeast
  <2> QED
    BY <2>3 DEF Both, Linked
<1>6. S \cup {b} = FreeList(b, m2)
  BY <1>3, <1>4, <1>5
<1>7. ASSUME NEW x \in S \cup {b}
      PROVE  /\ m2[x].prev_free = Null <=> b = x
             /\ m2[x].next_free # Null => m2[m2[x].next_free].prev_free = x
  <2>1. CASE x = b
    BY <1>1, <1>2, <2>1
  <2>2. CASE x # b
    <3>1. x \in S
      BY <2>2
    <3>2. m2[x].prev_free # Null
      BY <1>2, <3>1 DEF Linked
    <3>3. ASSUME m2[x].next_free # Null
          PROVE  m2[m2[x].next_free].prev_free = x
      <4>1. PICK y \in S : y = m[x].next_free /\ y = m2[x].next_free
        BY <1>1, <3>1, <3>3
      <4>2. m[y].prev_free = x
        BY <3>1, <3>3, <4>1 DEF Linked
      <4>3. y # first
        BY <1>1, <1>2, <3>1, <4>2 DEF Linked
      <4> QED
        BY <4>1, <4>2, <4>3
    <3> QED
      BY <2>2, <3>2, <3>3
  <2> QED
    BY <2>1, <2>2
<1> QED
  BY <1>6, <1>7 DEF Linked

(* The blocks around b are linked to one another.                           *)
Unlinks(m, m2, S, b, first, first2) ==
  LET p == m[b].prev_free
      n == m[b].next_free
  IN  /\ \A a \in S \ {b} : /\ m2[a].next_free = IF a = p THEN n ELSE m[a].next_free
                           /\ m2[a].prev_free = IF a = n THEN p ELSE m[a].prev_free
      /\ first2 = IF p = Null THEN n ELSE first

LEMMA LinkedRemove ==
  ASSUME NEW m \in [Addrs -> Headers], NEW first \in Link, NEW S, Linked(first, m, S),
         NEW b \in S, NEW m2 \in [Addrs -> Headers],
         NEW first2, Unlinks(m, m2, S, b, first, first2)
  PROVE  Linked(first2, m2, S \ {b})
<1> PICK p, n : p = m[b].prev_free /\ n = m[b].next_free
  OBVIOUS
<1>0. /\ \A a \in S \ {b} : /\ m2[a].next_free = IF a = p THEN n ELSE m[a].next_free
                           /\ m2[a].prev_free = IF a = n THEN p ELSE m[a].prev_free
      /\ first2 = IF p = Null THEN n ELSE first
  BY DEF Unlinks
<1> USE <1>0
<1>1. /\ S \in SUBSET Addrs /\ Null \notin S
      /\ first # Null => first \in S
      /\ \A x \in S : m[x].next_free # Null => m[x].next_free \in S
      /\ \A x \in S : m[x].prev_free # Null =>
              m[x].prev_free \in S /\ m[m[x].prev_free].next_free = x
  BY LinkedFacts
<1>2. /\ \A x \in S : m[x].prev_free = Null <=> first = x
      /\ \A x \in S : m[x].next_free # Null => m[m[x].next_free].prev_free = x
  BY DEF Linked
<1>3. p \in Link /\ n \in Link /\ first2 \in Link
  BY <1>1, LinkFacts
(* A block that leads to itself would be out of reach. *)
<1>4. n # b
  <2>1. SUFFICES ASSUME n = b
                 PROVE  FALSE
    OBVIOUS
  <2>2. p = b /\ first # b
    <3>1. b # Null /\ m[b].next_free = b
      BY <1>1, <2>1
    <3>2. m[m[b].next_free].prev_free = b
      BY <1>2, <3>1
    <3> QED
      BY <1>2, <3>1, <3>2
  <2> DEFINE Rest == S \ {b}
  <2>3. Rest \in SUBSET Addrs /\ (first # Null => first \in Rest)
    BY <1>1, <2>2
  <2>4. \A x \in Rest : m[x].next_free # Null => m[x].next_free \in Rest
    BY <1>1, <1>2, <2>2
  <2> HIDE DEF Rest
  <2>5. FreeList(first, m) \subseteq Rest
    BY <2>3, <2>4, ListLeast
  <2> QED
    BY <2>5 DEF Rest, Linked
<1>5. p # b
  BY <1>1, <1>4
<1>6. \A x \in S \ {b} : m[x].next_free = b => x = p
  BY <1>1, <1>2
<1>7. n # Null => n \in S \ {b} /\ m[n].prev_free = b
  BY <1>1, <1>2, <1>4
<1>8. p # Null => p \in S \ {b} /\ m[p].next_free = b
  BY <1>1, <1>5
<1>9. p = Null <=> first = b
  BY <1>2
<1>10. FreeList(first2, m2) \subseteq S \ {b}
  <2> DEFINE Rest == S \ {b}
  <2>1. Rest \in SUBSET Addrs /\ (first2 # Null => first2 \in Rest)
    BY <1>1, <1>7, <1>9
  <2>2. \A x \in Rest : m2[x].next_free # Null => m2[x].next_free \in Rest
    BY <1>1, <1>6, <1>7
  <2> HIDE DEF Rest
  <2>3. FreeList(first2, m2) \subseteq Rest
    BY <1>3, <2>1, <2>2, ListLeast
  <2> QED
    BY <2>3 DEF Rest
<1>11. /\ first2 # Null => first2 \in FreeList(first2, m2)
       /\ \A x \in FreeList(first2, m2) :
            m2[x].next_free # Null => m2[x].next_free \in FreeList(first2, m2)
  BY <1>3, ListClosed
<1>12. S \ {b} \subseteq FreeList(first2, m2)
  <2> DEFINE L == FreeList(first2, m2)
             More == L \cup (IF p = Null \/ p \in L THEN {b} ELSE {})
  <2>1. More \in SUBSET Addrs
    BY <1>1, <1>10
  <2>2. first # Null => first \in More
    BY <1>9, <1>11
  <2>3. ASSUME NEW x \in More, m[x].next_free # Null
        PROVE  m[x].next_free \in More
    <3>1. CASE x = b
      <4>1. b \notin L
        BY <1>10
      <4>2. p = Null \/ p \in L
        BY <2>3, <3>1, <4>1
      <4>3. CASE p = Null
        BY <1>11, <2>3, <3>1, <4>3
      <4>4. CASE p # Null /\ p \in L
        <5>1. m2[p].next_free = n
          BY <1>8, <4>4
        <5> QED
          BY <1>11, <2>3, <3>1, <4>4, <5>1
      <4> QED
        BY <4>2, <4>3, <4>4
    <3>2. CASE x # b /\ x = p
      <4>1. x \in L /\ m[x].next_free = b
        BY <1>1, <1>8, <1>10, <2>3, <3>2
      <4> QED
        BY <3>2, <4>1
    <3>3. CASE x # b /\ x # p
      <4>1. x \in L /\ x \in S \ {b}
        BY <1>10, <2>3, <3>3
      <4>2. m2[x].next_free = m[x].next_free
        BY <3>3, <4>1
      <4> QED
        BY <1>11, <2>3, <4>1, <4>2
    <3> QED
      BY <3>1, <3>2, <3>3
  <2> HIDE DEF More
  <2>4. FreeList(first, m) \subseteq More
    BY <2>1, <2>2, <2>3, ListLeast
  <2> QED
    BY <2>4 DEF More, Linked
<1>13. S \ {b} = FreeList(first2, m2)
  BY <1>10, <1>12
<1>14. ASSUME NEW x \in S \ {b}
       PROVE  m2[x].prev_free = Null <=> first2 = x
  <2>1. CASE x = n
    BY <1>1, <1>2, <1>7, <1>8, <1>9, <2>1
  <2>2. CASE x # n
    BY <1>2, <1>9, <2>2
  <2> QED
    BY <2>1, <2>2
<1>15. ASSUME NEW x \in S \ {b}, m2[x].next_free # Null
       PROVE  m2[m2[x].next_free].prev_free = x
  <2>1. CASE x = p
    <3>1. m2[x].next_free = n /\ n \in S \ {b}
      BY <1>7, <1>15, <2>1
    <3> QED
      BY <2>1, <3>1
  <2>2. CASE x # p
    <3>1. PICK y \in S \ {b} : y = m2[x].next_free /\ y = m[x].next_free
      BY <1>1, <1>6, <1>15, <2>2
    <3>2. m[y].prev_free = x
      BY <1>1, <1>2, <3>1
    <3>3. y # n
      BY <1>1, <1>7, <3>2
    <3> QED
      BY <3>1, <3>2, <3>3
  <2> QED
    BY <2>1, <2>2
<1> QED
  BY <1>13, <1>14, <1>15 DEF Linked

(***************************************************************************)
(* The index over the free lists: F is the set of blocks it holds.         *)
(***************************************************************************)
Maps == [Addrs -> Headers]

(* Nothing but the links of a header has changed.                           *)
SameBlocks(m, m2) == \A a \in Addrs :
  /\ m2[a].size = m[a].size /\ m2[a].free = m[a].free
  /\ m2[a].prev_physical = m[a].prev_physical
  /\ m2[a].prev_is_free = m[a].prev_is_free

Members(h, F, c) == { b \in F : mapping_insert(h.block[b].size) = c }

Listed(h, F, c) ==
  /\ Linked(h.blocks[c], h.block, Members(h, F, c))
  /\ c[2] \in h.sli_bitmap[c[1]] <=> Members(h, F, c) # {}

Index(h, F) ==
  /\ \A c \in Classes : Listed(h, F, c)
  /\ \A i \in Levels : i \in h.fli_bitmap <=> h.sli_bitmap[i] # {}

LEMMA PoolsFacts ==
  ASSUME NEW h \in Pools
  PROVE  /\ h.block \in Maps /\ h.blocks \in [Classes -> Link]
         /\ h.fli_bitmap \in SUBSET Levels
         /\ h.sli_bitmap \in [Levels -> SUBSET (0 .. TLSF_SLI_COUNT - 1)]
BY DEF Pools, Maps, Link

LEMMA SetNextFacts ==
  ASSUME NEW m \in Maps, NEW a \in Link, NEW v \in Link
  PROVE  /\ SetNextFree(m, a, v) \in Maps /\ SameBlocks(m, SetNextFree(m, a, v))
         /\ \A x \in Addrs :
              /\ SetNextFree(m, a, v)[x].prev_free = m[x].prev_free
              /\ SetNextFree(m, a, v)[x].next_free = IF x = a THEN v ELSE m[x].next_free
<1>1. CASE a = Null
  <2>1. SetNextFree(m, a, v) = m /\ Null \notin Addrs
    BY <1>1, AddrFacts DEF SetNextFree
  <2> QED
    BY <1>1, <2>1 DEF SameBlocks
<1>2. CASE a # Null
  <2>1. a \in Addrs /\ \A x \in Addrs : m[x] \in Headers
    BY <1>2 DEF Link, Maps
  <2>2. SetNextFree(m, a, v) =
          [x \in Addrs |-> IF x = a THEN [m[x] EXCEPT !.next_free = v] ELSE m[x]]
    BY <1>2, <2>1 DEF SetNextFree, Maps
  <2>3. \A x \in Addrs : [m[x] EXCEPT !.next_free = v] \in Headers
    BY <2>1 DEF Headers, Link
  <2>4. SetNextFree(m, a, v) \in Maps
    BY <2>1, <2>2, <2>3 DEF Maps
  <2>5. \A x \in Addrs : SetNextFree(m, a, v)[x] =
          IF x = a THEN [m[x] EXCEPT !.next_free = v] ELSE m[x]
    BY <2>2
  <2> QED
    BY <2>1, <2>4, <2>5 DEF SameBlocks, Headers
<1> QED
  BY <1>1, <1>2

LEMMA SetPrevFacts ==
  ASSUME NEW m \in Maps, NEW a \in Link, NEW v \in Link
  PROVE  /\ SetPrevFree(m, a, v) \in Maps /\ SameBlocks(m, SetPrevFree(m, a, v))
         /\ \A x \in Addrs :
              /\ SetPrevFree(m, a, v)[x].next_free = m[x].next_free
              /\ SetPrevFree(m, a, v)[x].prev_free = IF x = a THEN v ELSE m[x].prev_free
<1>1. CASE a = Null
  <2>1. SetPrevFree(m, a, v) = m /\ Null \notin Addrs
    BY <1>1, AddrFacts DEF SetPrevFree
  <2> QED
    BY <1>1, <2>1 DEF SameBlocks
<1>2. CASE a # Null
  <2>1. a \in Addrs /\ \A x \in Addrs : m[x] \in Headers
    BY <1>2 DEF Link, Maps
  <2>2. SetPrevFree(m, a, v) =
          [x \in Addrs |-> IF x = a THEN [m[x] EXCEPT !.prev_free = v] ELSE m[x]]
    BY <1>2, <2>1 DEF SetPrevFree, Maps
  <2>3. \A x \in Addrs : [m[x] EXCEPT !.prev_free = v] \in Headers
    BY <2>1 DEF Headers, Link
  <2>4. SetPrevFree(m, a, v) \in Maps
    BY <2>1, <2>2, <2>3 DEF Maps
  <2>5. \A x \in Addrs : SetPrevFree(m, a, v)[x] =
          IF x = a THEN [m[x] EXCEPT !.prev_free = v] ELSE m[x]
    BY <2>2
  <2> QED
    BY <2>1, <2>4, <2>5 DEF SameBlocks, Headers
<1> QED
  BY <1>1, <1>2

LEMMA SameBlocksJoins ==
  ASSUME NEW m, NEW m2, NEW m3, SameBlocks(m, m2), SameBlocks(m2, m3)
  PROVE  SameBlocks(m, m3)
BY DEF SameBlocks

(* The header of b with both links set.                                     *)
SetLinks(m, b, n, p) == [m EXCEPT ![b].next_free = n, ![b].prev_free = p]

LEMMA SetLinksFacts ==
  ASSUME NEW m \in Maps, NEW b \in Addrs, NEW n \in Link, NEW p \in Link
  PROVE  /\ SetLinks(m, b, n, p) \in Maps /\ SameBlocks(m, SetLinks(m, b, n, p))
         /\ \A x \in Addrs :
              /\ SetLinks(m, b, n, p)[x].next_free = IF x = b THEN n ELSE m[x].next_free
              /\ SetLinks(m, b, n, p)[x].prev_free = IF x = b THEN p ELSE m[x].prev_free
<1>1. SetLinks(m, b, n, p) = SetPrevFree(SetNextFree(m, b, n), b, p)
  BY AddrFacts DEF SetLinks, SetPrevFree, SetNextFree
<1>2. b \in Link
  BY DEF Link
<1>3. /\ SetNextFree(m, b, n) \in Maps /\ SameBlocks(m, SetNextFree(m, b, n))
      /\ \A x \in Addrs :
           /\ SetNextFree(m, b, n)[x].prev_free = m[x].prev_free
           /\ SetNextFree(m, b, n)[x].next_free = IF x = b THEN n ELSE m[x].next_free
  BY <1>2, SetNextFacts
<1>4. PICK m1 \in Maps :
        /\ m1 = SetNextFree(m, b, n) /\ SameBlocks(m, m1)
        /\ \A x \in Addrs : /\ m1[x].prev_free = m[x].prev_free
                            /\ m1[x].next_free = IF x = b THEN n ELSE m[x].next_free
  BY <1>3
<1>5. /\ SetPrevFree(m1, b, p) \in Maps /\ SameBlocks(m1, SetPrevFree(m1, b, p))
      /\ \A x \in Addrs :
           /\ SetPrevFree(m1, b, p)[x].next_free = m1[x].next_free
           /\ SetPrevFree(m1, b, p)[x].prev_free = IF x = b THEN p ELSE m1[x].prev_free
  BY <1>2, SetPrevFacts
<1>6. PICK m2 \in Maps :
        /\ m2 = SetPrevFree(m1, b, p) /\ SameBlocks(m1, m2)
        /\ \A x \in Addrs : /\ m2[x].next_free = m1[x].next_free
                            /\ m2[x].prev_free = IF x = b THEN p ELSE m1[x].prev_free
  BY <1>5
<1>7. SetLinks(m, b, n, p) = m2
  BY <1>1, <1>4, <1>6
<1>8. SameBlocks(m, m2)
  BY <1>4, <1>6, SameBlocksJoins
<1> QED
  BY <1>4, <1>6, <1>7, <1>8

(* c is a pair of a level and one of its second levels.                     *)
LEMMA ClassPair ==
  ASSUME NEW c \in Classes
  PROVE  c[1] \in Levels /\ c[2] \in 0 .. TLSF_SLI_COUNT - 1 /\ c = <<c[1], c[2]>>
BY DEF Classes

Update(h, m, q, f, s) ==
  [h EXCEPT !.block = m, !.blocks = q, !.fli_bitmap = f, !.sli_bitmap = s]

LEMMA UpdateFacts ==
  ASSUME NEW h \in Pools, NEW m \in Maps, NEW q \in [Classes -> Link],
         NEW f \in SUBSET Levels,
         NEW s \in [Levels -> SUBSET (0 .. TLSF_SLI_COUNT - 1)]
  PROVE  /\ Update(h, m, q, f, s) \in Pools
         /\ Update(h, m, q, f, s).block = m
         /\ Update(h, m, q, f, s).blocks = q
         /\ Update(h, m, q, f, s).fli_bitmap = f
         /\ Update(h, m, q, f, s).sli_bitmap = s
<1>1. m \in [Addrs -> Headers] /\ q \in [Classes -> Addrs \cup {Null}]
  BY DEF Maps, Link
<1>2. Update(h, m, q, f, s) \in Pools
  BY <1>1 DEF Update, Pools
<1>3. Update(h, m, q, f, s).block = m /\ Update(h, m, q, f, s).blocks = q
  BY DEF Update, Pools
<1>4. Update(h, m, q, f, s).fli_bitmap = f /\ Update(h, m, q, f, s).sli_bitmap = s
  BY DEF Update, Pools
<1> QED
  BY <1>2, <1>3, <1>4

Inserted(h, h2, b, c, first) ==
  /\ h2 \in Pools /\ SameBlocks(h.block, h2.block)
  /\ \A x \in Addrs :
       /\ h2.block[x].next_free = IF x = b THEN first ELSE h.block[x].next_free
       /\ h2.block[x].prev_free = IF x = b THEN Null ELSE IF x = first THEN b
                                  ELSE h.block[x].prev_free
  /\ \A d \in Classes : h2.blocks[d] = IF d = c THEN b ELSE h.blocks[d]
  /\ h2.fli_bitmap = h.fli_bitmap \cup {c[1]}
  /\ \A i \in Levels : h2.sli_bitmap[i] =
       h.sli_bitmap[i] \cup (IF i = c[1] THEN {c[2]} ELSE {})

LEMMA InsertShape ==
  ASSUME NEW h \in Pools, NEW b \in Addrs, NEW c \in Classes,
         c = mapping_insert(h.block[b].size), h.blocks[c] # b
  PROVE  Inserted(h, insert_free_block(h, b), b, c, h.blocks[c])
<1>1. PICK m \in Maps : m = h.block
  BY PoolsFacts
<1>2. PICK first \in Link : first = h.blocks[c]
  BY PoolsFacts
<1>3. Null \in Link /\ b \in Link /\ c[1] \in Levels /\ c[2] \in 0 .. TLSF_SLI_COUNT - 1
  BY ClassPair DEF Link
<1>4. PICK linked \in Maps :
        /\ linked = SetLinks(m, b, first, Null) /\ SameBlocks(m, linked)
        /\ \A x \in Addrs :
             /\ linked[x].next_free = IF x = b THEN first ELSE m[x].next_free
             /\ linked[x].prev_free = IF x = b THEN Null ELSE m[x].prev_free
  <2>1. /\ SetLinks(m, b, first, Null) \in Maps
        /\ SameBlocks(m, SetLinks(m, b, first, Null))
        /\ \A x \in Addrs :
             /\ SetLinks(m, b, first, Null)[x].next_free =
                  IF x = b THEN first ELSE m[x].next_free
             /\ SetLinks(m, b, first, Null)[x].prev_free =
                  IF x = b THEN Null ELSE m[x].prev_free
    BY <1>3, SetLinksFacts
  <2> QED
    BY <2>1
<1>5. PICK m2 \in Maps :
        /\ m2 = SetPrevFree(linked, first, b) /\ SameBlocks(linked, m2)
        /\ \A x \in Addrs :
             /\ m2[x].next_free = linked[x].next_free
             /\ m2[x].prev_free = IF x = first THEN b ELSE linked[x].prev_free
  <2>1. /\ SetPrevFree(linked, first, b) \in Maps
        /\ SameBlocks(linked, SetPrevFree(linked, first, b))
        /\ \A x \in Addrs :
             /\ SetPrevFree(linked, first, b)[x].next_free = linked[x].next_free
             /\ SetPrevFree(linked, first, b)[x].prev_free =
                  IF x = first THEN b ELSE linked[x].prev_free
    BY <1>3, SetPrevFacts
  <2> QED
    BY <2>1
<1>6. PICK q, f, s : /\ q = [h.blocks EXCEPT ![c] = b]
                     /\ f = h.fli_bitmap \cup {c[1]}
                     /\ s = [h.sli_bitmap EXCEPT ![c[1]] = @ \cup {c[2]}]
  OBVIOUS
<1>7. insert_free_block(h, b) = Update(h, m2, q, f, s)
  <2>1. m2 = SetPrevFree(SetLinks(h.block, b, h.blocks[c], Null), h.blocks[c], b)
    BY <1>1, <1>2, <1>4, <1>5
  <2>2. insert_free_block(h, b) =
          [h EXCEPT !.block = m2,
                    !.blocks[c] = b,
                    !.fli_bitmap = @ \cup {c[1]},
                    !.sli_bitmap[c[1]] = @ \cup {c[2]}]
    BY <2>1 DEF insert_free_block, SetLinks
  <2> QED
    BY <1>6, <2>2 DEF Update
<1>8. /\ h.blocks \in [Classes -> Link] /\ h.fli_bitmap \in SUBSET Levels
      /\ h.sli_bitmap \in [Levels -> SUBSET (0 .. TLSF_SLI_COUNT - 1)]
  BY PoolsFacts
<1>9. /\ q \in [Classes -> Link] /\ f \in SUBSET Levels
      /\ s \in [Levels -> SUBSET (0 .. TLSF_SLI_COUNT - 1)]
  BY <1>3, <1>6, <1>8
<1>10. PICK h2 \in Pools :
         /\ h2 = insert_free_block(h, b) /\ h2.block = m2 /\ h2.blocks = q
         /\ h2.fli_bitmap = f /\ h2.sli_bitmap = s
  <2>1. /\ Update(h, m2, q, f, s) \in Pools
        /\ Update(h, m2, q, f, s).block = m2 /\ Update(h, m2, q, f, s).blocks = q
        /\ Update(h, m2, q, f, s).fli_bitmap = f
        /\ Update(h, m2, q, f, s).sli_bitmap = s
    BY <1>9, UpdateFacts
  <2> QED
    BY <1>7, <2>1
<1>11. SameBlocks(m, m2)
  BY <1>4, <1>5, SameBlocksJoins
<1>12. ASSUME NEW x \in Addrs
       PROVE  /\ m2[x].next_free = IF x = b THEN first ELSE m[x].next_free
              /\ m2[x].prev_free = IF x = b THEN Null ELSE IF x = first THEN b
                                   ELSE m[x].prev_free
  <2>1. m2[x].next_free = IF x = b THEN first ELSE m[x].next_free
    BY <1>4, <1>5
  <2>2. CASE x = b
    <3>1. m2[x].prev_free = Null
      BY <1>2, <1>4, <1>5, <2>2, ZenonT(30)
    <3> QED
      BY <2>1, <2>2, <3>1
  <2>3. CASE x # b
    <3>1. m2[x].prev_free = IF x = first THEN b ELSE m[x].prev_free
      BY <1>4, <1>5, <2>3
    <3> QED
      BY <2>1, <2>3, <3>1
  <2> QED
    BY <2>2, <2>3
<1>13. \A d \in Classes : h2.blocks[d] = IF d = c THEN b ELSE h.blocks[d]
  BY <1>6, <1>8, <1>10
<1>14. \A i \in Levels : h2.sli_bitmap[i] =
         h.sli_bitmap[i] \cup (IF i = c[1] THEN {c[2]} ELSE {})
  BY <1>3, <1>6, <1>8, <1>10, ZenonT(30)
<1>15. Inserted(h, h2, b, c, first)
  BY <1>1, <1>6, <1>10, <1>11, <1>12, <1>13, <1>14 DEF Inserted
<1> QED
  BY <1>2, <1>10, <1>15

LEMMA InsertIndex ==
  ASSUME NEW h \in Pools, NEW F \in SUBSET Addrs, Index(h, F),
         NEW b \in Addrs, b \notin F, h.block[b].size \in PoolSizes
  PROVE  /\ Index(insert_free_block(h, b), F \cup {b})
         /\ insert_free_block(h, b) \in Pools
         /\ SameBlocks(h.block, insert_free_block(h, b).block)
<1>1. PICK c \in Classes : c = mapping_insert(h.block[b].size)
  BY ClassFacts
<1>2. PICK first \in Link : first = h.blocks[c]
  BY PoolsFacts
<1>3. h.block \in [Addrs -> Headers] /\ \A d \in Classes : h.blocks[d] \in Link
  BY PoolsFacts DEF Maps
<1>4. \A d \in Classes :
        Linked(h.blocks[d], h.block, Members(h, F, d))
  BY DEF Index, Listed
<1>5. first # b
  <2>1. first # Null => first \in Members(h, F, c)
    BY <1>2, <1>3, <1>4, LinkedFacts
  <2> QED
    BY <2>1, AddrFacts DEF Members
<1>6. PICK h2 : h2 = insert_free_block(h, b) /\ Inserted(h, h2, b, c, first)
  BY <1>1, <1>2, <1>5, InsertShape
<1>7. /\ h2 \in Pools /\ SameBlocks(h.block, h2.block)
      /\ h2.block \in [Addrs -> Headers]
  BY <1>6, PoolsFacts DEF Inserted, Maps
<1>8. \A d \in Classes :
        Members(h2, F \cup {b}, d) = Members(h, F, d) \cup (IF d = c THEN {b} ELSE {})
  BY <1>1, <1>7 DEF Members, SameBlocks
<1>9. \A x \in Addrs :
        /\ h2.block[x].next_free = IF x = b THEN first ELSE h.block[x].next_free
        /\ h2.block[x].prev_free = IF x = b THEN Null ELSE IF x = first THEN b
                                   ELSE h.block[x].prev_free
  BY <1>6 DEF Inserted
<1>10. ASSUME NEW d \in Classes
       PROVE  Listed(h2, F \cup {b}, d)
  <2>1. CASE d = c
    <3>1. h2.blocks[c] = b /\ Members(h2, F \cup {b}, c) = Members(h, F, c) \cup {b}
      BY <1>6, <1>8 DEF Inserted
    <3>2. \A a \in Members(h, F, c) :
            /\ h2.block[a].next_free = h.block[a].next_free
            /\ h2.block[a].prev_free = IF a = first THEN b ELSE h.block[a].prev_free
      BY <1>9 DEF Members
    <3>3. /\ b \notin Members(h, F, c) /\ Linked(first, h.block, Members(h, F, c))
          /\ h2.block[b].next_free = first /\ h2.block[b].prev_free = Null
      BY <1>2, <1>4, <1>9 DEF Members
    <3>4. Linked(b, h2.block, Members(h, F, c) \cup {b})
      BY <1>3, <1>7, <3>2, <3>3, LinkedInsert
    <3>5. c[2] \in h2.sli_bitmap[c[1]]
      BY <1>6, ClassPair DEF Inserted
    <3> QED
      BY <2>1, <3>1, <3>4, <3>5 DEF Listed
  <2>2. CASE d # c
    <3>1. h2.blocks[d] = h.blocks[d] /\ Members(h2, F \cup {b}, d) = Members(h, F, d)
      <4>1. h2.blocks[d] = h.blocks[d]
        BY <1>6, <2>2 DEF Inserted
      <4>2. Members(h2, F \cup {b}, d) = Members(h, F, d) \cup {}
        BY <1>8, <2>2
      <4> QED
        BY <4>1, <4>2
    <3>2. first \notin Members(h, F, d)
      <4>1. Null \notin Members(h, F, d)
        BY <1>3, <1>4, LinkedFacts
      <4>2. first # Null => first \in Members(h, F, c)
        BY <1>2, <1>3, <1>4, LinkedFacts
      <4> QED
        BY <2>2, <4>1, <4>2 DEF Members
    <3>3. \A a \in Members(h, F, d) :
            /\ h2.block[a].next_free = h.block[a].next_free
            /\ h2.block[a].prev_free = h.block[a].prev_free
      BY <1>9, <3>2 DEF Members
    <3>4. Linked(h.blocks[d], h2.block, Members(h, F, d))
      BY <1>3, <1>4, <1>7, <3>3, LinkedKept
    <3>5. d[2] \in h2.sli_bitmap[d[1]] <=> d[2] \in h.sli_bitmap[d[1]]
      BY <1>6, <2>2, ClassPair DEF Inserted
    <3> QED
      BY <3>1, <3>4, <3>5 DEF Index, Listed
  <2> QED
    BY <2>1, <2>2
<1>11. \A i \in Levels : i \in h2.fli_bitmap <=> h2.sli_bitmap[i] # {}
  BY <1>6 DEF Inserted, Index
<1> QED
  BY <1>6, <1>7, <1>10, <1>11 DEF Index

UpdateBits(h, s, f) == [h EXCEPT !.sli_bitmap = s, !.fli_bitmap = f]

UpdateLists(h, m, q) == [h EXCEPT !.block = m, !.blocks = q]

LEMMA UpdateBitsFacts ==
  ASSUME NEW h \in Pools, NEW f \in SUBSET Levels,
         NEW s \in [Levels -> SUBSET (0 .. TLSF_SLI_COUNT - 1)]
  PROVE  /\ UpdateBits(h, s, f) \in Pools
         /\ UpdateBits(h, s, f).block = h.block
         /\ UpdateBits(h, s, f).blocks = h.blocks
         /\ UpdateBits(h, s, f).fli_bitmap = f
         /\ UpdateBits(h, s, f).sli_bitmap = s
<1>1. UpdateBits(h, s, f) \in Pools
  BY DEF UpdateBits, Pools
<1>2. UpdateBits(h, s, f).block = h.block /\ UpdateBits(h, s, f).blocks = h.blocks
  BY DEF UpdateBits, Pools
<1>3. UpdateBits(h, s, f).fli_bitmap = f /\ UpdateBits(h, s, f).sli_bitmap = s
  BY DEF UpdateBits, Pools
<1> QED
  BY <1>1, <1>2, <1>3

LEMMA UpdateListsFacts ==
  ASSUME NEW h \in Pools, NEW m \in Maps, NEW q \in [Classes -> Link]
  PROVE  /\ UpdateLists(h, m, q) \in Pools
         /\ UpdateLists(h, m, q).block = m
         /\ UpdateLists(h, m, q).blocks = q
         /\ UpdateLists(h, m, q).fli_bitmap = h.fli_bitmap
         /\ UpdateLists(h, m, q).sli_bitmap = h.sli_bitmap
<1>1. m \in [Addrs -> Headers] /\ q \in [Classes -> Addrs \cup {Null}]
  BY DEF Maps, Link
<1>2. UpdateLists(h, m, q) \in Pools
  BY <1>1 DEF UpdateLists, Pools
<1>3. UpdateLists(h, m, q).block = m /\ UpdateLists(h, m, q).blocks = q
  BY DEF UpdateLists, Pools
<1>4. /\ UpdateLists(h, m, q).fli_bitmap = h.fli_bitmap
      /\ UpdateLists(h, m, q).sli_bitmap = h.sli_bitmap
  BY DEF UpdateLists, Pools
<1> QED
  BY <1>2, <1>3, <1>4

BitsCleared(h, g, c, first) ==
  /\ \A i \in Levels : g.sli_bitmap[i] =
       h.sli_bitmap[i] \ (IF i = c[1] /\ first = Null THEN {c[2]} ELSE {})
  /\ g.fli_bitmap = h.fli_bitmap \
       (IF first = Null /\ h.sli_bitmap[c[1]] \ {c[2]} = {} THEN {c[1]} ELSE {})

LEMMA BitsShape ==
  ASSUME NEW h \in Pools, NEW c \in Classes, NEW first \in Link
  PROVE  /\ Bits(h, c, first) \in Pools
         /\ Bits(h, c, first).block = h.block /\ Bits(h, c, first).blocks = h.blocks
         /\ BitsCleared(h, Bits(h, c, first), c, first)
<1>1. CASE first # Null
  <2>1. Bits(h, c, first) = h
    BY <1>1 DEF Bits
  <2> QED
    BY <1>1, <2>1 DEF BitsCleared
<1>2. CASE first = Null
  <2>1. c[1] \in Levels
    BY ClassPair
  <2>2. /\ h.fli_bitmap \in SUBSET Levels
        /\ h.sli_bitmap \in [Levels -> SUBSET (0 .. TLSF_SLI_COUNT - 1)]
    BY PoolsFacts
  <2>3. PICK s \in [Levels -> SUBSET (0 .. TLSF_SLI_COUNT - 1)] :
          s = [h.sli_bitmap EXCEPT ![c[1]] = h.sli_bitmap[c[1]] \ {c[2]}]
    BY <2>1, <2>2
  <2>4. PICK f \in SUBSET Levels :
          f = IF h.sli_bitmap[c[1]] \ {c[2]} = {} THEN h.fli_bitmap \ {c[1]}
              ELSE h.fli_bitmap
    BY <2>2
  <2>5. Bits(h, c, first) = UpdateBits(h, s, f)
    BY <1>2, <2>3, <2>4 DEF Bits, UpdateBits
  <2>6. PICK g : g = Bits(h, c, first)
    OBVIOUS
  <2>7. /\ g \in Pools /\ g.block = h.block /\ g.blocks = h.blocks
        /\ g.fli_bitmap = f /\ g.sli_bitmap = s
    BY <2>5, <2>6, UpdateBitsFacts
  <2>8. \A i \in Levels : s[i] =
          h.sli_bitmap[i] \ (IF i = c[1] /\ first = Null THEN {c[2]} ELSE {})
    BY <1>2, <2>1, <2>2, <2>3
  <2>9. f = h.fli_bitmap \
          (IF first = Null /\ h.sli_bitmap[c[1]] \ {c[2]} = {} THEN {c[1]} ELSE {})
    BY <1>2, <2>4
  <2> QED
    BY <2>6, <2>7, <2>8, <2>9 DEF BitsCleared
<1> QED
  BY <1>1, <1>2

Removed(h, h2, b, c, first) ==
  /\ h2 \in Pools /\ SameBlocks(h.block, h2.block)
  /\ \A x \in Addrs \ {b} :
       /\ h2.block[x].next_free =
            IF x = h.block[b].prev_free THEN h.block[b].next_free
            ELSE h.block[x].next_free
       /\ h2.block[x].prev_free =
            IF x = h.block[b].next_free THEN h.block[b].prev_free
            ELSE h.block[x].prev_free
  /\ \A d \in Classes : h2.blocks[d] = IF d = c THEN first ELSE h.blocks[d]
  /\ BitsCleared(h, h2, c, first)

LEMMA RemoveShape ==
  ASSUME NEW h \in Pools, NEW b \in Addrs, NEW c \in Classes,
         c = mapping_insert(h.block[b].size), NEW first,
         first = IF h.block[b].prev_free = Null THEN h.block[b].next_free
                 ELSE h.blocks[c]
  PROVE  Removed(h, remove_free_block(h, b), b, c, first)
<1>1. PICK m \in Maps : m = h.block
  BY PoolsFacts
<1>2. PICK n \in Link, p \in Link : n = m[b].next_free /\ p = m[b].prev_free
  <2>1. m \in [Addrs -> Headers]
    BY DEF Maps
  <2> QED
    BY <2>1, LinkFacts
<1>3. h.blocks \in [Classes -> Link] /\ Null \in Link /\ first \in Link
  BY <1>1, <1>2, PoolsFacts DEF Link
<1>4. PICK m1 \in Maps :
        /\ m1 = SetNextFree(m, p, n) /\ SameBlocks(m, m1)
        /\ \A x \in Addrs : /\ m1[x].prev_free = m[x].prev_free
                            /\ m1[x].next_free = IF x = p THEN n ELSE m[x].next_free
  <2>1. /\ SetNextFree(m, p, n) \in Maps /\ SameBlocks(m, SetNextFree(m, p, n))
        /\ \A x \in Addrs :
             /\ SetNextFree(m, p, n)[x].prev_free = m[x].prev_free
             /\ SetNextFree(m, p, n)[x].next_free = IF x = p THEN n ELSE m[x].next_free
    BY SetNextFacts
  <2> QED
    BY <2>1
<1>5. PICK m2 \in Maps :
        /\ m2 = SetPrevFree(m1, n, p) /\ SameBlocks(m1, m2)
        /\ \A x \in Addrs : /\ m2[x].next_free = m1[x].next_free
                            /\ m2[x].prev_free = IF x = n THEN p ELSE m1[x].prev_free
  <2>1. /\ SetPrevFree(m1, n, p) \in Maps /\ SameBlocks(m1, SetPrevFree(m1, n, p))
        /\ \A x \in Addrs :
             /\ SetPrevFree(m1, n, p)[x].next_free = m1[x].next_free
             /\ SetPrevFree(m1, n, p)[x].prev_free = IF x = n THEN p ELSE m1[x].prev_free
    BY SetPrevFacts
  <2> QED
    BY <2>1
<1>6. PICK m3 \in Maps :
        /\ m3 = SetLinks(m2, b, Null, Null) /\ SameBlocks(m2, m3)
        /\ \A x \in Addrs \ {b} : /\ m3[x].next_free = m2[x].next_free
                                  /\ m3[x].prev_free = m2[x].prev_free
  <2>1. /\ SetLinks(m2, b, Null, Null) \in Maps
        /\ SameBlocks(m2, SetLinks(m2, b, Null, Null))
        /\ \A x \in Addrs :
             /\ SetLinks(m2, b, Null, Null)[x].next_free =
                  IF x = b THEN Null ELSE m2[x].next_free
             /\ SetLinks(m2, b, Null, Null)[x].prev_free =
                  IF x = b THEN Null ELSE m2[x].prev_free
    BY <1>3, SetLinksFacts
  <2> QED
    BY <2>1
<1>7. PICK g \in Pools : /\ g = Bits(h, c, first) /\ g.blocks = h.blocks
                         /\ BitsCleared(h, g, c, first)
  BY <1>3, BitsShape
<1>8. PICK q \in [Classes -> Link] : q = [g.blocks EXCEPT ![c] = first]
  BY <1>3, <1>7
<1>9. remove_free_block(h, b) = UpdateLists(g, m3, q)
  <2>1. m3 = SetLinks(SetPrevFree(SetNextFree(h.block, p, n), n, p), b, Null, Null)
    BY <1>1, <1>4, <1>5, <1>6
  <2>2. remove_free_block(h, b) = [g EXCEPT !.block = m3, !.blocks[c] = first]
    BY <1>1, <1>2, <1>7, <2>1 DEF remove_free_block, SetLinks
  <2> QED
    BY <1>8, <2>2 DEF UpdateLists
<1>10. PICK h2 \in Pools :
         /\ h2 = remove_free_block(h, b) /\ h2.block = m3 /\ h2.blocks = q
         /\ h2.fli_bitmap = g.fli_bitmap /\ h2.sli_bitmap = g.sli_bitmap
  BY <1>9, UpdateListsFacts
<1>11. SameBlocks(m, m3)
  BY <1>4, <1>5, <1>6, SameBlocksJoins
<1>12. \A x \in Addrs \ {b} :
         /\ m3[x].next_free = IF x = p THEN n ELSE m[x].next_free
         /\ m3[x].prev_free = IF x = n THEN p ELSE m[x].prev_free
  BY <1>4, <1>5, <1>6
<1>13. ASSUME NEW d \in Classes
       PROVE  h2.blocks[d] = IF d = c THEN first ELSE h.blocks[d]
  <2>1. q = [h.blocks EXCEPT ![c] = first] /\ h2.blocks = q
    BY <1>7, <1>8, <1>10
  <2> QED
    BY <1>3, <2>1
<1>14. \A x \in Addrs \ {b} :
         /\ h2.block[x].next_free =
              IF x = h.block[b].prev_free THEN h.block[b].next_free
              ELSE h.block[x].next_free
         /\ h2.block[x].prev_free =
              IF x = h.block[b].next_free THEN h.block[b].prev_free
              ELSE h.block[x].prev_free
  BY <1>1, <1>2, <1>10, <1>12
<1>15. h2.fli_bitmap = g.fli_bitmap /\ h2.sli_bitmap = g.sli_bitmap
  BY <1>10
<1>16. h2 \in Pools /\ SameBlocks(h.block, h2.block)
  BY <1>1, <1>10, <1>11
<1>17. BitsCleared(h, h2, c, first)
  BY <1>7, <1>15 DEF BitsCleared
<1>18. Removed(h, h2, b, c, first)
  BY <1>13, <1>14, <1>16, <1>17 DEF Removed
<1> QED
  BY <1>10, <1>18

LEMMA RemoveIndex ==
  ASSUME NEW h \in Pools, NEW F \in SUBSET Addrs, Index(h, F),
         NEW b \in F, h.block[b].size \in PoolSizes
  PROVE  /\ Index(remove_free_block(h, b), F \ {b})
         /\ remove_free_block(h, b) \in Pools
         /\ SameBlocks(h.block, remove_free_block(h, b).block)
<1>1. PICK c \in Classes : c = mapping_insert(h.block[b].size)
  BY ClassFacts
<1>2. PICK m \in Maps : m = h.block
  BY PoolsFacts
<1>3. m \in [Addrs -> Headers] /\ \A d \in Classes : h.blocks[d] \in Link
  BY PoolsFacts DEF Maps
<1>4. PICK n \in Link, p \in Link : n = m[b].next_free /\ p = m[b].prev_free
  BY <1>3, LinkFacts
<1>5. PICK first : first = IF p = Null THEN n ELSE h.blocks[c]
  OBVIOUS
<1>6. PICK h2 : h2 = remove_free_block(h, b) /\ Removed(h, h2, b, c, first)
  <2>1. first = IF h.block[b].prev_free = Null THEN h.block[b].next_free
                ELSE h.blocks[c]
    BY <1>2, <1>4, <1>5
  <2> QED
    BY <1>1, <2>1, RemoveShape
<1>7. h2 \in Pools /\ SameBlocks(m, h2.block)
  BY <1>2, <1>6 DEF Removed
<1>8. PICK m2 \in [Addrs -> Headers] : m2 = h2.block
  BY <1>7, PoolsFacts DEF Maps
<1>9. \A x \in Addrs \ {b} :
        /\ m2[x].next_free = IF x = p THEN n ELSE m[x].next_free
        /\ m2[x].prev_free = IF x = n THEN p ELSE m[x].prev_free
  BY <1>2, <1>4, <1>6, <1>8 DEF Removed
<1>10. \A d \in Classes :
         /\ Linked(h.blocks[d], m, Members(h, F, d))
         /\ d[2] \in h.sli_bitmap[d[1]] <=> Members(h, F, d) # {}
  BY <1>2 DEF Index, Listed
<1>11. /\ b \in Members(h, F, c)
       /\ \A d \in Classes : Members(h, F, d) \subseteq Addrs /\ (d # c => b \notin Members(h, F, d))
  BY <1>1 DEF Members
<1>12. ASSUME NEW d \in Classes
       PROVE  Members(h2, F \ {b}, d) = Members(h, F, d) \ {b}
  <2>1. \A x \in F : h2.block[x].size = h.block[x].size
    BY <1>2, <1>7 DEF SameBlocks
  <2> QED
    BY <2>1 DEF Members
<1>13. Linked(first, m2, Members(h, F, c) \ {b}) /\ first \in Link
  <2>1. PICK f \in Link : f = h.blocks[c]
    BY <1>3
  <2> DEFINE S == Members(h, F, c)
  <2>2. Linked(f, m, S) /\ b \in S /\ S \subseteq Addrs
    BY <1>10, <1>11, <2>1
  <2> HIDE DEF S
  <2>3. Unlinks(m, m2, S, b, f, first)
    BY <1>4, <1>5, <1>9, <2>1, <2>2 DEF Unlinks
  <2>4. Linked(first, m2, S \ {b})
    BY <1>3, <2>2, <2>3, LinkedRemove
  <2> QED
    BY <1>3, <1>4, <1>5, <2>4 DEF S
<1>14. first = Null <=> Members(h, F, c) \ {b} = {}
  <2>1. PICK S : S = Members(h, F, c) \ {b}
    OBVIOUS
  <2>2. (first # Null => first \in S) /\ (first = Null => S = {})
    BY <1>13, <2>1, LinkedFacts
  <2> QED
    BY <2>1, <2>2
<1>15. \A i \in Levels : h2.sli_bitmap[i] =
         h.sli_bitmap[i] \ (IF i = c[1] /\ first = Null THEN {c[2]} ELSE {})
  BY <1>6 DEF Removed, BitsCleared
<1>16. ASSUME NEW d \in Classes
       PROVE  Listed(h2, F \ {b}, d)
  <2>1. d[1] \in Levels /\ d = <<d[1], d[2]>> /\ c = <<c[1], c[2]>> /\ c[1] \in Levels
    BY ClassPair
  <2>2. CASE d = c
    <3>1. h2.blocks[d] = first /\ Members(h2, F \ {b}, d) = Members(h, F, c) \ {b}
      BY <1>6, <1>12, <2>2 DEF Removed
    <3>2. Linked(h2.blocks[d], h2.block, Members(h2, F \ {b}, d))
      BY <1>8, <1>13, <3>1
    <3>3. c[2] \in h.sli_bitmap[c[1]]
      BY <1>10, <1>11
    <3>4. c[2] \in h2.sli_bitmap[c[1]] <=> first # Null
      BY <1>15, <2>1, <3>3
    <3> QED
      BY <1>14, <2>2, <3>1, <3>2, <3>4 DEF Listed
  <2>3. CASE d # c
    <3>1. h2.blocks[d] = h.blocks[d]
      BY <1>6, <2>3 DEF Removed
    <3>2. Members(h2, F \ {b}, d) = Members(h, F, d)
      BY <1>11, <1>12, <2>3
    <3>3. p \notin Members(h, F, d) /\ n \notin Members(h, F, d)
      <4>1. Null \notin Members(h, F, d)
        BY <1>3, <1>10, LinkedFacts
      <4>2. /\ n # Null => n \in Members(h, F, c)
            /\ p # Null => p \in Members(h, F, c)
        BY <1>3, <1>4, <1>10, <1>11, LinkedFacts
      <4> QED
        BY <2>3, <4>1, <4>2 DEF Members
    <3>4. \A a \in Members(h, F, d) :
            /\ m2[a].next_free = m[a].next_free
            /\ m2[a].prev_free = m[a].prev_free
      BY <1>9, <1>11, <2>3, <3>3
    <3>5. Linked(h.blocks[d], m2, Members(h, F, d))
      BY <1>3, <1>10, <3>4, LinkedKept
    <3>6. d[2] \in h2.sli_bitmap[d[1]] <=> d[2] \in h.sli_bitmap[d[1]]
      BY <1>15, <2>1, <2>3
    <3> QED
      BY <1>8, <1>10, <3>1, <3>2, <3>5, <3>6 DEF Listed
  <2> QED
    BY <2>2, <2>3
<1>17. ASSUME NEW i \in Levels
       PROVE  i \in h2.fli_bitmap <=> h2.sli_bitmap[i] # {}
  <2>1. /\ i \in h.fli_bitmap <=> h.sli_bitmap[i] # {}
        /\ h2.fli_bitmap = h.fli_bitmap \
             (IF first = Null /\ h.sli_bitmap[c[1]] \ {c[2]} = {} THEN {c[1]} ELSE {})
        /\ h2.sli_bitmap[i] =
             h.sli_bitmap[i] \ (IF i = c[1] /\ first = Null THEN {c[2]} ELSE {})
    BY <1>6 DEF Index, Removed, BitsCleared
  <2>2. CASE i = c[1] /\ first = Null
    BY <2>1, <2>2
  <2>3. CASE ~ (i = c[1] /\ first = Null)
    BY <2>1, <2>3
  <2> QED
    BY <2>2, <2>3
<1> QED
  BY <1>2, <1>6, <1>7, <1>16, <1>17 DEF Index

LEMMA IndexKept ==
  ASSUME NEW h \in Pools, NEW g \in Pools, NEW F \in SUBSET Addrs, Index(h, F),
         g.blocks = h.blocks, g.fli_bitmap = h.fli_bitmap, g.sli_bitmap = h.sli_bitmap,
         \A x \in F : /\ g.block[x].size = h.block[x].size
                      /\ g.block[x].next_free = h.block[x].next_free
                      /\ g.block[x].prev_free = h.block[x].prev_free
  PROVE  Index(g, F)
<1>1. /\ h.block \in [Addrs -> Headers] /\ g.block \in [Addrs -> Headers]
      /\ \A d \in Classes : h.blocks[d] \in Link
  BY PoolsFacts DEF Maps
<1>2. ASSUME NEW d \in Classes
      PROVE  Listed(g, F, d)
  <2>1. Members(g, F, d) = Members(h, F, d)
    BY DEF Members
  <2>2. Linked(h.blocks[d], h.block, Members(h, F, d))
    BY DEF Index, Listed
  <2>3. \A a \in Members(h, F, d) :
          /\ g.block[a].next_free = h.block[a].next_free
          /\ g.block[a].prev_free = h.block[a].prev_free
    BY DEF Members
  <2>4. Linked(h.blocks[d], g.block, Members(h, F, d))
    BY <1>1, <2>2, <2>3, LinkedKept
  <2> QED
    BY <2>1, <2>4 DEF Index, Listed
<1> QED
  BY <1>2 DEF Index

(***************************************************************************)
(* One header is written.                                                  *)
(***************************************************************************)
Put(h, a, r) == [h EXCEPT !.block[a] = r]

(* The lists and the bitmaps, as they were.                                 *)
SameIndex(h, g) ==
  /\ g.blocks = h.blocks /\ g.fli_bitmap = h.fli_bitmap
  /\ g.sli_bitmap = h.sli_bitmap

LEMMA PutFacts ==
  ASSUME NEW h \in Pools, NEW a \in Addrs, NEW r \in Headers
  PROVE  /\ Put(h, a, r) \in Pools /\ SameIndex(h, Put(h, a, r))
         /\ Put(h, a, r).block[a] = r
         /\ \A x \in Addrs \ {a} : Put(h, a, r).block[x] = h.block[x]
<1>1. h.block \in [Addrs -> Headers]
  BY DEF Pools
<1>2. PICK m \in [Addrs -> Headers] : m = [h.block EXCEPT ![a] = r]
  BY <1>1
<1>3. Put(h, a, r) = [h EXCEPT !.block = m]
  BY <1>2 DEF Put
<1>4. [h EXCEPT !.block = m] \in Pools
  BY DEF Pools
<1>5. /\ [h EXCEPT !.block = m].block = m /\ [h EXCEPT !.block = m].blocks = h.blocks
      /\ [h EXCEPT !.block = m].fli_bitmap = h.fli_bitmap
      /\ [h EXCEPT !.block = m].sli_bitmap = h.sli_bitmap
  BY DEF Pools
<1>6. m[a] = r /\ \A x \in Addrs \ {a} : m[x] = h.block[x]
  BY <1>1, <1>2
<1>7. PICK g : g = Put(h, a, r)
  OBVIOUS
<1>8. /\ g \in Pools /\ g.block = m /\ SameIndex(h, g)
  BY <1>3, <1>4, <1>5, <1>7 DEF SameIndex
<1> QED
  BY <1>6, <1>7, <1>8

LEMMA HeaderTypes ==
  ASSUME NEW h \in Pools, NEW a \in Addrs
  PROVE  /\ h.block[a] \in Headers /\ h.block[a].size \in Nat
         /\ h.block[a].size < pool_size /\ h.block[a].free \in BOOLEAN
<1>1. h.block[a] \in Headers
  BY DEF Pools
<1> QED
  BY <1>1, AddrFacts DEF Headers

(* One field of a header is written.                                        *)
WithFree(r, v)         == [r EXCEPT !.free = v]
WithPrevIsFree(r, v)   == [r EXCEPT !.prev_is_free = v]
WithSize(r, v)         == [r EXCEPT !.size = v]
WithPrevPhysical(r, v) == [r EXCEPT !.prev_physical = v]

SameLinks(r, s) == s.next_free = r.next_free /\ s.prev_free = r.prev_free

LEMMA WithFreeFacts ==
  ASSUME NEW r \in Headers, NEW v \in BOOLEAN
  PROVE  /\ WithFree(r, v) \in Headers
         /\ WithFree(r, v).free = v
         /\ WithFree(r, v).size = r.size
         /\ WithFree(r, v).prev_physical = r.prev_physical
         /\ WithFree(r, v).prev_is_free = r.prev_is_free
         /\ SameLinks(r, WithFree(r, v))
BY DEF WithFree, Headers, SameLinks

LEMMA WithPrevIsFreeFacts ==
  ASSUME NEW r \in Headers, NEW v \in BOOLEAN
  PROVE  /\ WithPrevIsFree(r, v) \in Headers
         /\ WithPrevIsFree(r, v).prev_is_free = v
         /\ WithPrevIsFree(r, v).size = r.size
         /\ WithPrevIsFree(r, v).free = r.free
         /\ WithPrevIsFree(r, v).prev_physical = r.prev_physical
         /\ SameLinks(r, WithPrevIsFree(r, v))
BY DEF WithPrevIsFree, Headers, SameLinks

LEMMA WithSizeFacts ==
  ASSUME NEW r \in Headers, NEW v \in Addrs
  PROVE  /\ WithSize(r, v) \in Headers
         /\ WithSize(r, v).size = v
         /\ WithSize(r, v).free = r.free
         /\ WithSize(r, v).prev_physical = r.prev_physical
         /\ WithSize(r, v).prev_is_free = r.prev_is_free
         /\ SameLinks(r, WithSize(r, v))
BY DEF WithSize, Headers, SameLinks

LEMMA WithPrevPhysicalFacts ==
  ASSUME NEW r \in Headers, NEW v \in Addrs
  PROVE  /\ WithPrevPhysical(r, v) \in Headers
         /\ WithPrevPhysical(r, v).prev_physical = v
         /\ WithPrevPhysical(r, v).size = r.size
         /\ WithPrevPhysical(r, v).free = r.free
         /\ WithPrevPhysical(r, v).prev_is_free = r.prev_is_free
         /\ SameLinks(r, WithPrevPhysical(r, v))
BY DEF WithPrevPhysical, Headers, SameLinks

(* g is h with header r at a.                                               *)
Written(h, g, a, r) ==
  /\ g \in Pools /\ SameIndex(h, g) /\ g.block[a] = r
  /\ \A x \in Addrs \ {a} : g.block[x] = h.block[x]

LEMMA PutWrites ==
  ASSUME NEW h \in Pools, NEW a \in Addrs, NEW r \in Headers
  PROVE  Written(h, Put(h, a, r), a, r)
BY PutFacts DEF Written

Freed(h, b) == Put(h, b, WithFree(h.block[b], TRUE))

Merged(h, b, y) ==
  Put(Put(h, b, WithSize(h.block[b], MergedSize(h.block[b], h.block[y]))), y, NoHeader)

Told(h, b, y) ==
  LET g == Put(h, y, WithPrevPhysical(h.block[y], b))
  IN  Put(g, y, WithPrevIsFree(g.block[y], TRUE))

LEMMA FreedIs ==
  ASSUME NEW h \in Pools, NEW b \in Addrs
  PROVE  [h EXCEPT !.block[b].free = TRUE] = Freed(h, b)
BY DEF Freed, Put, WithFree

LEMMA MergedIs ==
  ASSUME NEW h \in Pools, NEW b \in Addrs, NEW y \in Addrs, y = NextPhysical(h, b)
  PROVE  Absorb(h, b) = Merged(h, b, y)
BY DEF Absorb, Merged, Put, WithSize

LEMMA ToldIs ==
  ASSUME NEW h \in Pools, NEW b \in Addrs, NEW y \in Addrs, y = NextPhysical(h, b)
  PROVE  TellNext(h, b) = Told(h, b, y)
BY AddrFacts DEF TellNext, Told, Put, WithPrevPhysical, WithPrevIsFree

(* The size and the links of a header, and whether it is free.              *)
SameBlock(r, s) == s.size = r.size /\ s.free = r.free /\ SameLinks(r, s)

LEMMA EndIsNext ==
  ASSUME NEW h, NEW b
  PROVE  NextPhysical(h, b) = EndAt(h.block, b)
BY DEF NextPhysical, EndAt

(* What each of the handlers' steps does to the headers.                    *)
FreedAt(h, g, b) ==
  /\ g \in Pools /\ SameIndex(h, g)
  /\ \A x \in Addrs \ {b} : g.block[x] = h.block[x]
  /\ g.block[b].free = TRUE /\ g.block[b].size = h.block[b].size
  /\ g.block[b].prev_physical = h.block[b].prev_physical
  /\ g.block[b].prev_is_free = h.block[b].prev_is_free

LEMMA FreedShape ==
  ASSUME NEW h \in Pools, NEW b \in Addrs
  PROVE  FreedAt(h, [h EXCEPT !.block[b].free = TRUE], b)
<1>1. h.block[b] \in Headers
  BY HeaderTypes
<1>2. PICK r \in Headers : r = WithFree(h.block[b], TRUE)
  BY <1>1, WithFreeFacts
<1>3. PICK g : g = Put(h, b, r)
  OBVIOUS
<1>4. Written(h, g, b, r)
  BY <1>3, PutWrites
<1>5. /\ r.free = TRUE /\ r.size = h.block[b].size
      /\ r.prev_physical = h.block[b].prev_physical
      /\ r.prev_is_free = h.block[b].prev_is_free
  BY <1>1, <1>2, WithFreeFacts
<1>6. g = [h EXCEPT !.block[b].free = TRUE]
  BY <1>2, <1>3, FreedIs DEF Freed
<1>7. FreedAt(h, g, b)
  BY <1>4, <1>5 DEF Written, FreedAt
<1> QED
  BY <1>6, <1>7

ToldAt(h, g, b, y) ==
  /\ g \in Pools /\ SameIndex(h, g)
  /\ \A x \in Addrs : SameBlock(h.block[x], g.block[x])
  /\ \A x \in Addrs \ {y} : g.block[x] = h.block[x]
  /\ y < pool_size =>
       g.block[y].prev_physical = b /\ g.block[y].prev_is_free = TRUE

LEMMA ToldShape ==
  ASSUME NEW h \in Pools, NEW b \in Addrs
  PROVE  ToldAt(h, TellNext(h, b), b, EndAt(h.block, b))
<1>1. PICK y \in Nat : y = EndAt(h.block, b)
  <2>1. h.block[b].size \in Nat /\ b \in Nat
    BY HeaderTypes, AddrFacts
  <2> QED
    BY <2>1, AddrFacts DEF EndAt
<1>2. CASE y >= pool_size
  <2>1. TellNext(h, b) = h
    BY <1>1, <1>2, EndIsNext DEF TellNext
  <2>2. ~ (y < pool_size)
    BY <1>2, AddrFacts
  <2>3. ToldAt(h, h, b, y)
    BY <2>2 DEF ToldAt, SameIndex, SameBlock, SameLinks
  <2> QED
    BY <1>1, <2>1, <2>3
<1>3. CASE y < pool_size
  <2>1. y \in Addrs
    BY <1>1, <1>3, AddrFacts
  <2>2. h.block[y] \in Headers
    BY <2>1, HeaderTypes
  <2>3. PICK r \in Headers : r = WithPrevPhysical(h.block[y], b)
    BY <2>2, WithPrevPhysicalFacts
  <2>4. r.prev_physical = b /\ SameBlock(h.block[y], r)
    BY <2>2, <2>3, WithPrevPhysicalFacts DEF SameBlock
  <2>5. PICK g1 : g1 = Put(h, y, r)
    OBVIOUS
  <2>6. Written(h, g1, y, r)
    BY <2>1, <2>5, PutWrites
  <2>7. PICK s \in Headers : s = WithPrevIsFree(r, TRUE)
    BY WithPrevIsFreeFacts
  <2>8. s.prev_is_free = TRUE /\ s.prev_physical = b /\ SameBlock(r, s)
    BY <2>4, <2>7, WithPrevIsFreeFacts DEF SameBlock
  <2>9. PICK g : g = Put(g1, y, s)
    OBVIOUS
  <2>10. Written(g1, g, y, s)
    <3>1. g1 \in Pools
      BY <2>6 DEF Written
    <3> QED
      BY <2>1, <2>9, <3>1, PutWrites
  <2>11. TellNext(h, b) = g
    <3>1. g1.block[y] = r
      BY <2>6 DEF Written
    <3>2. TellNext(h, b) = Told(h, b, y)
      BY <1>1, <2>1, EndIsNext, ToldIs
    <3> QED
      BY <2>3, <2>5, <2>7, <2>9, <3>1, <3>2 DEF Told
  <2>12. g \in Pools /\ SameIndex(h, g)
    BY <2>6, <2>10 DEF SameIndex, Written
  <2>13. g.block[y] = s /\ \A x \in Addrs \ {y} : g.block[x] = h.block[x]
    BY <2>6, <2>10 DEF Written
  <2>14. ASSUME NEW x \in Addrs
         PROVE  SameBlock(h.block[x], g.block[x])
    <3>1. CASE x = y
      BY <2>4, <2>8, <2>13, <3>1 DEF SameBlock, SameLinks
    <3>2. CASE x # y
      BY <2>13, <3>2 DEF SameBlock, SameLinks
    <3> QED
      BY <3>1, <3>2
  <2>15. ToldAt(h, g, b, y)
    BY <2>8, <2>12, <2>13, <2>14 DEF ToldAt
  <2> QED
    BY <1>1, <2>11, <2>15
<1> QED
  BY <1>1, <1>2, <1>3, AddrFacts

AbsorbedAt(h, g, b, y, s) ==
  /\ g \in Pools /\ SameIndex(h, g)
  /\ \A x \in Addrs \ {b, y} : g.block[x] = h.block[x]
  /\ g.block[b].size = s
  /\ g.block[b].free = h.block[b].free
  /\ g.block[b].prev_physical = h.block[b].prev_physical
  /\ g.block[b].prev_is_free = h.block[b].prev_is_free

LEMMA AbsorbShape ==
  ASSUME NEW h \in Pools, NEW b \in Addrs, NEW y \in Addrs, y # b,
         y = EndAt(h.block, b), NEW s \in Addrs,
         s = h.block[b].size + h.block[y].size + TLSF_HEADER_SIZE
  PROVE  AbsorbedAt(h, Absorb(h, b), b, y, s)
<1>1. h.block[b] \in Headers
  BY HeaderTypes
<1>2. PICK r \in Headers : r = WithSize(h.block[b], s)
  BY <1>1, WithSizeFacts
<1>3. /\ r.size = s /\ r.free = h.block[b].free
      /\ r.prev_physical = h.block[b].prev_physical
      /\ r.prev_is_free = h.block[b].prev_is_free
  BY <1>1, <1>2, WithSizeFacts
<1>4. PICK none \in Headers : none = NoHeader
  BY AddrFacts DEF NoHeader, Headers
<1>5. PICK g1 : g1 = Put(h, b, r)
  OBVIOUS
<1>6. Written(h, g1, b, r)
  BY <1>5, PutWrites
<1>7. PICK g : g = Put(g1, y, none)
  OBVIOUS
<1>8. Written(g1, g, y, none)
  <2>1. g1 \in Pools
    BY <1>6 DEF Written
  <2> QED
    BY <1>7, <2>1, PutWrites
<1>9. Absorb(h, b) = g
  <2>1. MergedSize(h.block[b], h.block[y]) = s
    BY DEF MergedSize
  <2>2. Absorb(h, b) = Merged(h, b, y)
    BY EndIsNext, MergedIs
  <2> QED
    BY <1>2, <1>4, <1>5, <1>7, <2>1, <2>2 DEF Merged
<1>10. g \in Pools /\ SameIndex(h, g)
  BY <1>6, <1>8 DEF SameIndex, Written
<1>11. g.block[b] = r /\ \A x \in Addrs \ {b, y} : g.block[x] = h.block[x]
  BY <1>6, <1>8 DEF Written
<1>12. AbsorbedAt(h, g, b, y, s)
  BY <1>3, <1>10, <1>11 DEF AbsorbedAt
<1> QED
  BY <1>9, <1>12

(***************************************************************************)
(* A pool between two handlers, and one with a free block b that no list   *)
(* holds and that the block after it need not know of.                     *)
(***************************************************************************)
FreeOf(m, S) == { x \in S : m[x].free }

UsedOf(m, S) == { x \in S : ~ m[x].free }

Frame(h, S) ==
  /\ h \in Pools /\ Laid(h.block, S) /\ h.block[0].prev_physical = Null
  /\ \A x \in S : h.block[x].size >= TLSF_MIN_BLOCK_SIZE

(* The block after u knows u. *)
Known(m, u, y) == m[y].prev_physical = u /\ m[y].prev_is_free = m[u].free

Settled(h, S) ==
  /\ Frame(h, S) /\ Index(h, FreeOf(h.block, S))
  /\ \A u \in S, y \in S : EndAt(h.block, u) = y =>
       Known(h.block, u, y) /\ ~ (h.block[u].free /\ h.block[y].free)

Loose(h, S, b) ==
  /\ Frame(h, S) /\ Index(h, FreeOf(h.block, S) \ {b})
  /\ b \in S /\ h.block[b].free
  /\ \A u \in S \ {b}, y \in S : EndAt(h.block, u) = y =>
       Known(h.block, u, y) /\ (h.block[u].free /\ h.block[y].free => y = b)

(* No free block ends where b begins, or begins where b ends.               *)
UsedBefore(m, S, b) == \A u \in S : EndAt(m, u) = b => ~ m[u].free

UsedAfter(m, S, b) == \A y \in S : EndAt(m, b) = y => ~ m[y].free

PlaceKnown(m, S, b) == \A y \in S : EndAt(m, b) = y => m[y].prev_physical = b

(* The blocks in use keep their places and sizes.                           *)
SameUsed(m, S, m2, T) ==
  UsedOf(m2, T) = UsedOf(m, S) /\ \A x \in UsedOf(m, S) : m2[x].size = m[x].size

LEMMA FrameFacts ==
  ASSUME NEW h, NEW S, Frame(h, S)
  PROVE  /\ S \in SUBSET Addrs /\ 0 \in S
         /\ \A a \in Addrs : h.block[a].size \in Nat
         /\ \A x \in S : /\ h.block[x].size \in PoolSizes
                         /\ h.block[x] \in Headers
                         /\ EndAt(h.block, x) \in Nat /\ x < EndAt(h.block, x)
                         /\ EndAt(h.block, x) <= pool_size
                         /\ EndAt(h.block, x) < pool_size => EndAt(h.block, x) \in S
         /\ \A x, y \in S : EndAt(h.block, x) = EndAt(h.block, y) => x = y
<1>1. h \in Pools /\ Laid(h.block, S)
  BY DEF Frame
<1>2. S \in SUBSET Addrs /\ 0 \in S
  BY <1>1, LaidFacts
<1>3. \A a \in Addrs : /\ h.block[a] \in Headers /\ h.block[a].size \in Nat
                       /\ h.block[a].size < pool_size
  BY <1>1, HeaderTypes
<1>4. \A x \in S : h.block[x].size \in PoolSizes
  BY <1>2, <1>3 DEF PoolSizes, Frame
<1>5. \A x \in S : /\ EndAt(h.block, x) \in Nat /\ x < EndAt(h.block, x)
                   /\ EndAt(h.block, x) <= pool_size
                   /\ EndAt(h.block, x) < pool_size => EndAt(h.block, x) \in S
  BY <1>1, LaidFacts
<1>6. \A x, y \in S : EndAt(h.block, x) = EndAt(h.block, y) => x = y
  BY <1>1, LaidInjective
<1> QED
  BY <1>2, <1>3, <1>4, <1>5, <1>6

LEMMA SameEnds ==
  ASSUME NEW m, NEW m2, NEW S, \A x \in S : m2[x].size = m[x].size
  PROVE  \A x \in S : EndAt(m2, x) = EndAt(m, x)
BY DEF EndAt

LEMMA FrameKept ==
  ASSUME NEW h, NEW S, Frame(h, S), NEW g \in Pools,
         \A x \in S : g.block[x].size = h.block[x].size,
         g.block[0].prev_physical = Null
  PROVE  Frame(g, S)
<1>1. Laid(h.block, S) /\ \A a \in Addrs : g.block[a].size \in Nat
  BY HeaderTypes DEF Frame
<1>2. Laid(g.block, S)
  BY <1>1, LaidKept
<1> QED
  BY <1>2 DEF Frame

LEMMA FreedIsLoose ==
  ASSUME NEW h, NEW S, Settled(h, S), NEW b \in S, ~ h.block[b].free,
         NEW g, FreedAt(h, g, b)
  PROVE  /\ Loose(g, S, b) /\ UsedOf(g.block, S) = UsedOf(h.block, S) \ {b}
         /\ \A x \in S : g.block[x].size = h.block[x].size
<1>1. Frame(h, S) /\ h \in Pools /\ g \in Pools
  BY DEF Settled, Frame, FreedAt
<1>2. S \in SUBSET Addrs /\ 0 \in S
  BY <1>1, FrameFacts
<1>3. \A x \in S : /\ g.block[x].size = h.block[x].size
                   /\ g.block[x].prev_physical = h.block[x].prev_physical
                   /\ g.block[x].prev_is_free = h.block[x].prev_is_free
                   /\ x # b => g.block[x] = h.block[x]
  BY <1>2 DEF FreedAt
<1>4. g.block[b].free = TRUE
  BY DEF FreedAt
<1>5. Frame(g, S)
  BY <1>1, <1>2, <1>3, FrameKept DEF Frame
<1>6. FreeOf(g.block, S) \ {b} = FreeOf(h.block, S)
  BY <1>3, <1>4 DEF FreeOf
<1>7. Index(g, FreeOf(h.block, S))
  <2>1. PICK F \in SUBSET Addrs : F = FreeOf(h.block, S)
    BY <1>2 DEF FreeOf
  <2>2. \A x \in F : g.block[x] = h.block[x]
    BY <1>3, <2>1 DEF FreeOf
  <2>3. Index(h, F)
    BY <2>1 DEF Settled
  <2>4. /\ g.blocks = h.blocks /\ g.fli_bitmap = h.fli_bitmap
        /\ g.sli_bitmap = h.sli_bitmap
    BY DEF FreedAt, SameIndex
  <2>5. Index(g, F)
    BY <1>1, <2>2, <2>3, <2>4, IndexKept
  <2> QED
    BY <2>1, <2>5
<1>8. ASSUME NEW u \in S \ {b}, NEW y \in S, EndAt(g.block, u) = y
      PROVE  /\ Known(g.block, u, y)
             /\ g.block[u].free /\ g.block[y].free => y = b
  <2>1. EndAt(h.block, u) = y
    BY <1>3, <1>8, SameEnds
  <2>2. Known(h.block, u, y) /\ ~ (h.block[u].free /\ h.block[y].free)
    BY <2>1 DEF Settled
  <2> QED
    BY <1>3, <2>2 DEF Known
<1>9. UsedOf(g.block, S) = UsedOf(h.block, S) \ {b}
  BY <1>3, <1>4 DEF UsedOf
<1>10. Loose(g, S, b)
  BY <1>4, <1>5, <1>6, <1>7, <1>8 DEF Loose
<1> QED
  BY <1>3, <1>9, <1>10

LEMMA TakenIsLoose ==
  ASSUME NEW h, NEW S, Settled(h, S), NEW b \in S, h.block[b].free,
         NEW g, g = remove_free_block(h, b)
  PROVE  /\ Loose(g, S, b) /\ SameBlocks(h.block, g.block)
         /\ UsedBefore(g.block, S, b) /\ UsedAfter(g.block, S, b)
         /\ PlaceKnown(g.block, S, b)
         /\ UsedOf(g.block, S) = UsedOf(h.block, S)
<1>1. Frame(h, S) /\ h \in Pools
  BY DEF Settled, Frame
<1>2. S \in SUBSET Addrs /\ 0 \in S /\ h.block[b].size \in PoolSizes
  BY <1>1, FrameFacts
<1>3. PICK F \in SUBSET Addrs : F = FreeOf(h.block, S)
  BY <1>2 DEF FreeOf
<1>4. Index(h, F) /\ b \in F
  BY <1>3 DEF Settled, FreeOf
<1>5. Index(g, F \ {b}) /\ g \in Pools /\ SameBlocks(h.block, g.block)
  BY <1>1, <1>2, <1>4, RemoveIndex
<1>6. \A x \in S : /\ g.block[x].size = h.block[x].size
                   /\ g.block[x].free = h.block[x].free
                   /\ g.block[x].prev_physical = h.block[x].prev_physical
                   /\ g.block[x].prev_is_free = h.block[x].prev_is_free
  BY <1>2, <1>5 DEF SameBlocks
<1>7. Frame(g, S)
  BY <1>1, <1>2, <1>5, <1>6, FrameKept DEF Frame
<1>8. FreeOf(g.block, S) = F /\ UsedOf(g.block, S) = UsedOf(h.block, S)
  BY <1>3, <1>6 DEF FreeOf, UsedOf
<1>9. ASSUME NEW u \in S, NEW y \in S, EndAt(g.block, u) = y
      PROVE  Known(g.block, u, y) /\ ~ (g.block[u].free /\ g.block[y].free)
  <2>1. EndAt(h.block, u) = y
    BY <1>6, <1>9, SameEnds
  <2>2. Known(h.block, u, y) /\ ~ (h.block[u].free /\ h.block[y].free)
    BY <2>1 DEF Settled
  <2> QED
    BY <1>6, <2>2 DEF Known
<1>10. g.block[b].free
  BY <1>6
<1>11. Loose(g, S, b)
  BY <1>5, <1>7, <1>8, <1>9, <1>10 DEF Loose
<1>12. /\ UsedBefore(g.block, S, b) /\ UsedAfter(g.block, S, b)
       /\ PlaceKnown(g.block, S, b)
  BY <1>9, <1>10 DEF UsedBefore, UsedAfter, PlaceKnown, Known
<1> QED
  BY <1>5, <1>8, <1>11, <1>12

LEMMA AbsorbIsLoose ==
  ASSUME NEW h, NEW S, NEW b, Loose(h, S, b),
         NEW x \in S, NEW y \in S, EndAt(h.block, x) = y,
         h.block[x].free, h.block[y].free,
         NEW l, (x = b /\ l = y) \/ (y = b /\ l = x),
         x = b => UsedBefore(h.block, S, b),
         NEW g, g = Absorb(remove_free_block(h, l), x)
  PROVE  /\ Loose(g, S \ {y}, x) /\ UsedBefore(g.block, S \ {y}, x)
         /\ y # b => UsedAfter(g.block, S \ {y}, x)
         /\ SameUsed(h.block, S, g.block, S \ {y})
<1> DEFINE T == S \ {y}
<1>1. Frame(h, S) /\ h \in Pools /\ Laid(h.block, S) /\ b \in S
  BY DEF Loose, Frame
<1>2. /\ S \in SUBSET Addrs /\ 0 \in S
      /\ \A a \in S : /\ h.block[a].size \in PoolSizes
                      /\ EndAt(h.block, a) \in Nat /\ a < EndAt(h.block, a)
                      /\ EndAt(h.block, a) <= pool_size
      /\ \A a, c \in S : EndAt(h.block, a) = EndAt(h.block, c) => a = c
  BY <1>1, FrameFacts
<1>3. x \in Nat /\ y \in Nat /\ x < y /\ y # 0
  BY <1>2, AddrFacts
<1>4. PICK F \in SUBSET Addrs : F = FreeOf(h.block, S) \ {b}
  BY <1>2 DEF FreeOf
<1>5. Index(h, F) /\ l \in F /\ l \in S
  BY <1>1, <1>3, <1>4 DEF Loose, FreeOf
<1>6. PICK k : k = remove_free_block(h, l)
  OBVIOUS
<1>7. Index(k, F \ {l}) /\ k \in Pools /\ SameBlocks(h.block, k.block)
  BY <1>1, <1>2, <1>5, <1>6, RemoveIndex
<1>8. \A a \in S : /\ k.block[a].size = h.block[a].size
                   /\ k.block[a].free = h.block[a].free
                   /\ k.block[a].prev_physical = h.block[a].prev_physical
                   /\ k.block[a].prev_is_free = h.block[a].prev_is_free
  BY <1>2, <1>7 DEF SameBlocks
<1>9. \A a \in S : EndAt(k.block, a) = EndAt(h.block, a)
  BY <1>8, SameEnds
<1>10. Laid(k.block, S)
  <2>1. \A a \in Addrs : k.block[a].size \in Nat
    BY <1>7, HeaderTypes
  <2> QED
    BY <1>1, <1>8, <2>1, LaidKept
<1>11. PICK s \in Addrs : /\ s = k.block[x].size + k.block[y].size + TLSF_HEADER_SIZE
                          /\ x + TLSF_HEADER_SIZE + s = EndAt(h.block, y)
                          /\ s >= TLSF_MIN_BLOCK_SIZE
  <2>1. PICK p \in Nat, q \in Nat : /\ p = h.block[x].size /\ q = h.block[y].size
                                    /\ p >= TLSF_MIN_BLOCK_SIZE
    BY <1>2 DEF PoolSizes
  <2>2. y = x + TLSF_HEADER_SIZE + p /\ EndAt(h.block, y) = y + TLSF_HEADER_SIZE + q
    BY <2>1 DEF EndAt
  <2>3. y + TLSF_HEADER_SIZE + q <= pool_size
    BY <1>2, <2>2
  <2>4. TLSF_MIN_BLOCK_SIZE \in Nat
    BY ClassConstants
  <2>5. PICK s \in Nat : s = p + q + TLSF_HEADER_SIZE
    BY <2>1, AddrFacts
  <2>6. s < pool_size /\ s >= TLSF_MIN_BLOCK_SIZE
        /\ x + TLSF_HEADER_SIZE + s = y + TLSF_HEADER_SIZE + q
    BY <1>3, <2>1, <2>2, <2>3, <2>4, <2>5, AddrFacts
  <2>7. s \in Addrs
    BY <2>5, <2>6, AddrFacts
  <2> QED
    BY <1>8, <2>1, <2>2, <2>5, <2>6, <2>7
<1>12. AbsorbedAt(k, g, x, y, s)
  <2>1. x \in Addrs /\ y \in Addrs /\ y # x /\ y = EndAt(k.block, x)
    BY <1>2, <1>3, <1>9
  <2> QED
    BY <1>6, <1>7, <1>11, <2>1, AbsorbShape
<1>13. /\ g \in Pools /\ g.block[x].size = s /\ g.block[x].free
       /\ \A a \in T : /\ a # x => g.block[a] = k.block[a]
                       /\ g.block[a].free = h.block[a].free
                       /\ g.block[a].prev_physical = h.block[a].prev_physical
                       /\ g.block[a].prev_is_free = h.block[a].prev_is_free
                       /\ a # x => g.block[a].size = h.block[a].size
  BY <1>2, <1>3, <1>8, <1>12 DEF AbsorbedAt
<1>14. EndAt(g.block, x) = EndAt(h.block, y) /\ x \in T
  BY <1>3, <1>11, <1>13 DEF EndAt
<1>15. \A a \in T \ {x} : EndAt(g.block, a) = EndAt(h.block, a) /\ EndAt(h.block, a) # y
  BY <1>2, <1>13 DEF EndAt
<1>16. Frame(g, T)
  <2>1. \A a \in Addrs : g.block[a].size \in Nat
    BY <1>13, HeaderTypes
  <2>2. EndAt(k.block, x) = y /\ EndAt(g.block, x) = EndAt(k.block, y)
    BY <1>9, <1>14
  <2>3. \A a \in S \ {x, y} : g.block[a].size = k.block[a].size
    BY <1>13
  <2>4. Laid(g.block, S \ {y})
    BY <1>10, <2>1, <2>2, <2>3, LaidMerge
  <2>5. g.block[0].prev_physical = Null
    BY <1>1, <1>2, <1>3, <1>13 DEF Frame
  <2>6. \A a \in T : g.block[a].size >= TLSF_MIN_BLOCK_SIZE
    BY <1>1, <1>11, <1>13 DEF Frame
  <2> QED
    BY <1>13, <2>4, <2>5, <2>6 DEF Frame
<1>17. Index(g, FreeOf(g.block, T) \ {x})
  <2>1. PICK G \in SUBSET Addrs : G = F \ {l}
    BY <1>4
  <2>2. FreeOf(g.block, T) \ {x} = G
    BY <1>4, <1>13, <2>1 DEF FreeOf
  <2>3. \A a \in G : g.block[a] = k.block[a]
    BY <1>13, <2>2 DEF FreeOf
  <2>4. /\ g.blocks = k.blocks /\ g.fli_bitmap = k.fli_bitmap
        /\ g.sli_bitmap = k.sli_bitmap
    BY <1>12 DEF AbsorbedAt, SameIndex
  <2>5. Index(k, G)
    BY <1>7, <2>1
  <2>6. Index(g, G)
    BY <1>7, <1>13, <2>3, <2>4, <2>5, IndexKept
  <2> QED
    BY <2>2, <2>6
<1>18. ASSUME NEW u \in T \ {x}, NEW z \in T, EndAt(g.block, u) = z
       PROVE  /\ Known(g.block, u, z)
              /\ g.block[u].free /\ g.block[z].free => z = x
              /\ g.block[u].free /\ g.block[z].free => z = b
  <2>1. u \in S \ {b} /\ z \in S /\ EndAt(h.block, u) = z
    BY <1>15, <1>18
  <2>2. /\ Known(h.block, u, z)
        /\ h.block[u].free /\ h.block[z].free => z = b
    BY <2>1 DEF Loose
  <2> QED
    BY <1>13, <2>1, <2>2 DEF Known
<1>19. Loose(g, T, x)
  BY <1>13, <1>14, <1>16, <1>17, <1>18 DEF Loose
<1>20. UsedBefore(g.block, T, x)
  <2>1. SUFFICES ASSUME NEW u \in T, EndAt(g.block, u) = x, g.block[u].free
                 PROVE  FALSE
    BY DEF UsedBefore
  <2>2. u # x
    <3>1. EndAt(h.block, y) # x
      BY <1>2, <1>3
    <3> QED
      BY <1>14, <2>1, <3>1
  <2>3. x = b
    BY <1>13, <1>14, <1>18, <2>1, <2>2
  <2>4. EndAt(h.block, u) = b /\ h.block[u].free
    BY <1>13, <1>15, <2>1, <2>2, <2>3
  <2> QED
    BY <2>1, <2>3, <2>4 DEF UsedBefore
<1>21. ASSUME y # b
       PROVE  UsedAfter(g.block, T, x)
  <2>1. SUFFICES ASSUME NEW z \in T, EndAt(g.block, x) = z, g.block[z].free
                 PROVE  FALSE
    BY DEF UsedAfter
  <2>2. EndAt(h.block, y) = z /\ h.block[z].free
    BY <1>13, <1>14, <2>1
  <2>3. z = b
    BY <1>21, <2>1, <2>2 DEF Loose
  <2> QED
    BY <1>2, <1>3, <1>21, <2>2, <2>3
<1>22. SameUsed(h.block, S, g.block, T)
  <2>1. UsedOf(g.block, T) = UsedOf(h.block, S)
    BY <1>13 DEF UsedOf
  <2>2. \A a \in UsedOf(h.block, S) : g.block[a].size = h.block[a].size
    BY <1>13 DEF UsedOf
  <2> QED
    BY <2>1, <2>2 DEF SameUsed
<1> QED
  BY <1>19, <1>20, <1>21, <1>22

LEMMA LooseSettles ==
  ASSUME NEW h, NEW S, NEW b, Loose(h, S, b),
         UsedBefore(h.block, S, b), UsedAfter(h.block, S, b),
         NEW k, k = insert_free_block(TellNext(h, b), b)
  PROVE  Settled(k, S) /\ SameUsed(h.block, S, k.block, S)
<1>1. Frame(h, S) /\ h \in Pools /\ b \in S
  BY DEF Loose, Frame
<1>2. /\ S \in SUBSET Addrs /\ 0 \in S
      /\ \A a \in S : /\ h.block[a].size \in PoolSizes
                      /\ EndAt(h.block, a) \in Nat /\ a < EndAt(h.block, a)
      /\ \A a, c \in S : EndAt(h.block, a) = EndAt(h.block, c) => a = c
  BY <1>1, FrameFacts
<1>3. PICK g : g = TellNext(h, b)
  OBVIOUS
<1>4. PICK y : y = EndAt(h.block, b)
  OBVIOUS
<1>5. ToldAt(h, g, b, y)
  BY <1>1, <1>2, <1>3, <1>4, ToldShape
<1>6. /\ g \in Pools
      /\ \A a \in S : /\ g.block[a].size = h.block[a].size
                      /\ g.block[a].free = h.block[a].free
                      /\ SameLinks(h.block[a], g.block[a])
                      /\ a # y => g.block[a] = h.block[a]
      /\ y \in S => g.block[y].prev_physical = b /\ g.block[y].prev_is_free = TRUE
  <2>1. y \in S => y < pool_size
    BY <1>2, AddrFacts
  <2> QED
    BY <1>2, <1>5, <2>1 DEF ToldAt, SameBlock
<1>7. PICK F \in SUBSET Addrs : F = FreeOf(h.block, S) \ {b}
  BY <1>2 DEF FreeOf
<1>8. Index(g, F)
  <2>1. Index(h, F)
    BY <1>7 DEF Loose
  <2>2. \A a \in F : /\ g.block[a].size = h.block[a].size
                     /\ g.block[a].next_free = h.block[a].next_free
                     /\ g.block[a].prev_free = h.block[a].prev_free
    BY <1>6, <1>7 DEF FreeOf, SameLinks
  <2>3. /\ g.blocks = h.blocks /\ g.fli_bitmap = h.fli_bitmap
        /\ g.sli_bitmap = h.sli_bitmap
    BY <1>5 DEF ToldAt, SameIndex
  <2> QED
    BY <1>1, <1>6, <2>1, <2>2, <2>3, IndexKept
<1>9. Index(k, F \cup {b}) /\ k \in Pools /\ SameBlocks(g.block, k.block)
  <2>1. b \in Addrs /\ b \notin F /\ g.block[b].size \in PoolSizes
    BY <1>1, <1>2, <1>6, <1>7
  <2> QED
    BY <1>3, <1>6, <1>8, <2>1, InsertIndex
<1>10. \A a \in S : /\ k.block[a].size = h.block[a].size
                    /\ k.block[a].free = h.block[a].free
                    /\ k.block[a].prev_physical = g.block[a].prev_physical
                    /\ k.block[a].prev_is_free = g.block[a].prev_is_free
  BY <1>2, <1>6, <1>9 DEF SameBlocks
<1>11. Frame(k, S)
  <2>1. y # 0
    BY <1>1, <1>2, <1>4, AddrFacts
  <2>2. k.block[0].prev_physical = Null
    BY <1>1, <1>2, <1>6, <1>10, <2>1 DEF Frame
  <2> QED
    BY <1>1, <1>9, <1>10, <2>2, FrameKept
<1>12. FreeOf(k.block, S) = F \cup {b}
  BY <1>1, <1>7, <1>10 DEF FreeOf, Loose
<1>13. ASSUME NEW u \in S, NEW z \in S, EndAt(k.block, u) = z
       PROVE  Known(k.block, u, z) /\ ~ (k.block[u].free /\ k.block[z].free)
  <2>1. EndAt(h.block, u) = z
    BY <1>10, <1>13, SameEnds
  <2>2. CASE u = b
    <3>1. z = y
      BY <1>4, <2>1, <2>2
    <3>2. k.block[z].prev_physical = b /\ k.block[z].prev_is_free = TRUE
      BY <1>6, <1>10, <3>1
    <3>3. k.block[b].free = TRUE
      <4>1. h.block[b].free \in BOOLEAN
        BY <1>1, <1>2, HeaderTypes
      <4> QED
        BY <1>1, <1>10, <4>1 DEF Loose
    <3>4. ~ k.block[z].free
      BY <1>10, <2>1, <2>2 DEF UsedAfter
    <3> QED
      BY <2>2, <3>2, <3>3, <3>4 DEF Known
  <2>3. CASE u # b
    <3>1. z # y
      BY <1>1, <1>2, <1>4, <2>1, <2>3
    <3>2. Known(h.block, u, z) /\ (h.block[u].free /\ h.block[z].free => z = b)
      BY <2>1, <2>3 DEF Loose
    <3>3. z = b => ~ h.block[u].free
      BY <2>1 DEF UsedBefore
    <3> QED
      BY <1>6, <1>10, <3>1, <3>2, <3>3 DEF Known
  <2> QED
    BY <2>2, <2>3
<1>14. Settled(k, S)
  BY <1>9, <1>11, <1>12, <1>13 DEF Settled
<1>15. SameUsed(h.block, S, k.block, S)
  BY <1>10 DEF SameUsed, UsedOf
<1> QED
  BY <1>14, <1>15

(***************************************************************************)
(* tlsf_free(): b is merged with the free blocks on both sides of it.      *)
(***************************************************************************)
MergeNext(h, b) ==
  LET next == NextPhysical(h, b)
  IN  IF FreeAt(h, next) THEN Absorb(remove_free_block(h, next), b) ELSE h

AfterFree(h, b0) ==
  LET h0 == [h EXCEPT !.block[b0].free = TRUE]
      prev == h.block[b0].prev_physical
      b == IF FreeAt(h, prev) THEN prev ELSE b0
      h1 == IF b = prev THEN Absorb(remove_free_block(h0, prev), prev) ELSE h0
  IN  insert_free_block(TellNext(MergeNext(h1, b), b), b)

LEMMA SameUsedJoins ==
  ASSUME NEW m, NEW S, NEW m1, NEW S1, NEW m2, NEW S2,
         SameUsed(m, S, m1, S1), SameUsed(m1, S1, m2, S2)
  PROVE  SameUsed(m, S, m2, S2)
BY DEF SameUsed

LEMMA MergeNextSettles ==
  ASSUME NEW h, NEW S, NEW b, Loose(h, S, b), UsedBefore(h.block, S, b),
         NEW k, k = insert_free_block(TellNext(MergeNext(h, b), b), b)
  PROVE  \E T : Settled(k, T) /\ SameUsed(h.block, S, k.block, T)
<1>1. Frame(h, S) /\ b \in S /\ h.block[b].free
  BY DEF Loose
<1>2. /\ S \in SUBSET Addrs
      /\ \A a \in S : /\ EndAt(h.block, a) \in Nat /\ a < EndAt(h.block, a)
                      /\ EndAt(h.block, a) < pool_size => EndAt(h.block, a) \in S
  BY <1>1, FrameFacts
<1>3. PICK y \in Nat : y = EndAt(h.block, b) /\ y = NextPhysical(h, b) /\ b < y
  BY <1>1, <1>2, EndIsNext
<1>4. CASE FreeAt(h, y)
  <2>1. PICK g : g = Absorb(remove_free_block(h, y), b)
    OBVIOUS
  <2>2. MergeNext(h, b) = g
    BY <1>3, <1>4, <2>1 DEF MergeNext
  <2>3. y \in S /\ h.block[y].free /\ y # b
    <3>1. y \in Addrs /\ h.block[y].free
      BY <1>4 DEF FreeAt
    <3>2. y < pool_size /\ b \in Nat
      BY <1>1, <1>2, <3>1, AddrFacts
    <3>3. y \in S
      BY <1>1, <1>2, <1>3, <3>2
    <3>4. y # b
      BY <1>3, <3>2
    <3> QED
      BY <3>1, <3>3, <3>4
  <2>4. /\ Loose(g, S \ {y}, b) /\ UsedBefore(g.block, S \ {y}, b)
        /\ UsedAfter(g.block, S \ {y}, b)
        /\ SameUsed(h.block, S, g.block, S \ {y})
    BY <1>1, <1>3, <2>1, <2>3, AbsorbIsLoose
  <2>5. Settled(k, S \ {y}) /\ SameUsed(g.block, S \ {y}, k.block, S \ {y})
    BY <2>2, <2>4, LooseSettles
  <2> QED
    BY <2>4, <2>5, SameUsedJoins
<1>5. CASE ~ FreeAt(h, y)
  <2>1. MergeNext(h, b) = h
    BY <1>3, <1>5 DEF MergeNext
  <2>2. UsedAfter(h.block, S, b)
    BY <1>2, <1>3, <1>5 DEF UsedAfter, FreeAt
  <2>3. Settled(k, S) /\ SameUsed(h.block, S, k.block, S)
    BY <2>1, <2>2, LooseSettles
  <2> QED
    BY <2>3
<1> QED
  BY <1>4, <1>5

LEMMA FreeSettles ==
  ASSUME NEW h, NEW S, Settled(h, S), NEW b0 \in S, ~ h.block[b0].free,
         NEW k, k = AfterFree(h, b0)
  PROVE  \E T : /\ Settled(k, T) /\ UsedOf(k.block, T) = UsedOf(h.block, S) \ {b0}
                /\ \A x \in UsedOf(k.block, T) : k.block[x].size = h.block[x].size
<1>1. Frame(h, S) /\ h \in Pools
  BY DEF Settled, Frame
<1>2. /\ S \in SUBSET Addrs
      /\ \A a \in S : EndAt(h.block, a) \in Nat /\ a < EndAt(h.block, a)
  BY <1>1, FrameFacts
<1>3. PICK h0 : h0 = [h EXCEPT !.block[b0].free = TRUE]
  OBVIOUS
<1>4. FreedAt(h, h0, b0)
  BY <1>1, <1>2, <1>3, FreedShape
<1>5. /\ Loose(h0, S, b0) /\ UsedOf(h0.block, S) = UsedOf(h.block, S) \ {b0}
      /\ \A x \in S : h0.block[x].size = h.block[x].size
  BY <1>4, FreedIsLoose
<1>6. \A x \in S \ {b0} : h0.block[x].free = h.block[x].free
  BY <1>2, <1>4 DEF FreedAt
<1>7. \A u \in S : EndAt(h0.block, u) = EndAt(h.block, u)
  BY <1>5, SameEnds
<1>8. PICK prev : prev = h.block[b0].prev_physical
  OBVIOUS
(* The block before b0 is the one that ends there, if there is one.         *)
<1>9. /\ \A u \in S : EndAt(h.block, u) = b0 => prev = u
      /\ prev # Null => prev \in S /\ EndAt(h.block, prev) = b0
  <2>1. \A u \in S : EndAt(h.block, u) = b0 => prev = u
    BY <1>8 DEF Settled, Known
  <2>2. CASE b0 = 0
    BY <1>1, <1>8, <2>1, <2>2 DEF Frame
  <2>3. CASE b0 # 0
    <3>1. PICK u \in S : EndAt(h.block, u) = b0
      BY <1>1, <2>3, LaidFacts DEF Frame
    <3> QED
      BY <2>1, <3>1
  <2> QED
    BY <2>1, <2>2, <2>3
<1>10. prev # b0 /\ Null \notin Addrs
  BY <1>2, <1>9, AddrFacts
<1>11. \E b, h1, S1 :
         /\ Loose(h1, S1, b) /\ UsedBefore(h1.block, S1, b)
         /\ SameUsed(h0.block, S, h1.block, S1)
         /\ k = insert_free_block(TellNext(MergeNext(h1, b), b), b)
  <2>1. CASE FreeAt(h, prev)
    <3>1. PICK h1 : h1 = Absorb(remove_free_block(h0, prev), prev)
      OBVIOUS
    <3>2. k = insert_free_block(TellNext(MergeNext(h1, prev), prev), prev)
      BY <1>3, <1>8, <2>1, <3>1 DEF AfterFree
    <3>3. prev \in S /\ EndAt(h0.block, prev) = b0
      BY <1>7, <1>9, <1>10, <2>1 DEF FreeAt
    <3>4. h0.block[prev].free /\ h0.block[b0].free
      BY <1>5, <1>6, <1>10, <2>1, <3>3 DEF FreeAt, Loose
    <3>5. /\ Loose(h1, S \ {b0}, prev) /\ UsedBefore(h1.block, S \ {b0}, prev)
          /\ SameUsed(h0.block, S, h1.block, S \ {b0})
      BY <1>5, <1>10, <3>1, <3>3, <3>4, AbsorbIsLoose
    <3> QED
      BY <3>2, <3>5
  <2>2. CASE ~ FreeAt(h, prev)
    <3>1. k = insert_free_block(TellNext(MergeNext(h0, b0), b0), b0)
      BY <1>3, <1>8, <1>10, <2>2 DEF AfterFree
    <3>2. UsedBefore(h0.block, S, b0)
      <4>1. SUFFICES ASSUME NEW u \in S, EndAt(h0.block, u) = b0
                     PROVE  ~ h0.block[u].free
        BY DEF UsedBefore
      <4>2. prev = u /\ u \in Addrs /\ u # b0
        BY <1>2, <1>7, <1>9, <1>10, <4>1
      <4> QED
        BY <1>6, <2>2, <4>2 DEF FreeAt
    <3>3. SameUsed(h0.block, S, h0.block, S)
      BY DEF SameUsed
    <3> QED
      BY <1>5, <3>1, <3>2, <3>3
  <2> QED
    BY <2>1, <2>2
<1>12. PICK b, h1, S1 :
         /\ Loose(h1, S1, b) /\ UsedBefore(h1.block, S1, b)
         /\ SameUsed(h0.block, S, h1.block, S1)
         /\ k = insert_free_block(TellNext(MergeNext(h1, b), b), b)
  BY <1>11
<1>13. PICK T : Settled(k, T) /\ SameUsed(h1.block, S1, k.block, T)
  BY <1>12, MergeNextSettles
<1>14. SameUsed(h0.block, S, k.block, T)
  BY <1>12, <1>13, SameUsedJoins
<1>15. UsedOf(k.block, T) = UsedOf(h.block, S) \ {b0}
  BY <1>5, <1>14 DEF SameUsed
<1>16. \A x \in UsedOf(k.block, T) : k.block[x].size = h.block[x].size
  <2>1. \A x \in UsedOf(k.block, T) : x \in S /\ x \in UsedOf(h0.block, S)
    BY <1>14 DEF SameUsed, UsedOf
  <2> QED
    BY <1>5, <1>14, <2>1 DEF SameUsed
<1> QED
  BY <1>13, <1>15, <1>16

(***************************************************************************)
(* tlsf_malloc(): the chosen block is cut in two, or given whole.          *)
(***************************************************************************)
CutBlock(h, b, n) ==
  LET remaining == b + TLSF_HEADER_SIZE + n
  IN  [h EXCEPT
        !.block[remaining] = [NoHeader EXCEPT
           !.prev_physical = b, !.free = TRUE,
           !.size = h.block[b].size - n - TLSF_HEADER_SIZE],
        !.block[b].size = n,
        !.block[b].free = FALSE]

Remainder(b, z) == [NoHeader EXCEPT !.prev_physical = b, !.free = TRUE, !.size = z]

LEMMA RemainderFacts ==
  ASSUME NEW b \in Addrs, NEW z \in Addrs
  PROVE  /\ Remainder(b, z) \in Headers
         /\ Remainder(b, z).size = z /\ Remainder(b, z).free = TRUE
         /\ Remainder(b, z).prev_physical = b
         /\ Remainder(b, z).prev_is_free = FALSE
BY DEF Remainder, NoHeader, Headers

CutAt(h, g, b, rem, n, z) ==
  /\ g \in Pools /\ SameIndex(h, g)
  /\ \A x \in Addrs \ {b, rem} : g.block[x] = h.block[x]
  /\ g.block[rem].size = z /\ g.block[rem].free = TRUE
  /\ g.block[rem].prev_physical = b /\ g.block[rem].prev_is_free = FALSE
  /\ g.block[b].size = n /\ g.block[b].free = FALSE
  /\ g.block[b].prev_physical = h.block[b].prev_physical
  /\ g.block[b].prev_is_free = h.block[b].prev_is_free

LEMMA CutShape ==
  ASSUME NEW h \in Pools, NEW b \in Addrs, NEW n \in Addrs, NEW rem \in Addrs,
         NEW z \in Addrs, rem # b,
         rem = b + TLSF_HEADER_SIZE + n, z = h.block[b].size - n - TLSF_HEADER_SIZE
  PROVE  CutAt(h, CutBlock(h, b, n), b, rem, n, z)
<1>1. PICK r \in Headers :
        /\ r = Remainder(b, z) /\ r.size = z /\ r.free = TRUE
        /\ r.prev_physical = b /\ r.prev_is_free = FALSE
  <2>1. /\ Remainder(b, z) \in Headers
        /\ Remainder(b, z).size = z /\ Remainder(b, z).free = TRUE
        /\ Remainder(b, z).prev_physical = b
        /\ Remainder(b, z).prev_is_free = FALSE
    BY RemainderFacts, ZenonT(30)
  <2> QED
    BY <2>1
<1>2. PICK g1 : g1 = Put(h, rem, r)
  OBVIOUS
<1>3. Written(h, g1, rem, r)
  BY <1>2, PutWrites
<1>4. g1 \in Pools /\ g1.block[b] = h.block[b]
  BY <1>3 DEF Written
<1>5. h.block[b] \in Headers
  BY HeaderTypes
<1>6. PICK s \in Headers : s = WithSize(h.block[b], n)
  BY <1>5, WithSizeFacts
<1>7. /\ s.size = n
      /\ s.prev_physical = h.block[b].prev_physical
      /\ s.prev_is_free = h.block[b].prev_is_free
  BY <1>5, <1>6, WithSizeFacts
<1>8. PICK g2 : g2 = Put(g1, b, s)
  OBVIOUS
<1>9. Written(g1, g2, b, s)
  BY <1>4, <1>8, PutWrites
<1>10. g2 \in Pools /\ g2.block[b] = s
  BY <1>9 DEF Written
<1>11. PICK t \in Headers : t = WithFree(s, FALSE)
  BY WithFreeFacts
<1>12. /\ t.size = n /\ t.free = FALSE
       /\ t.prev_physical = h.block[b].prev_physical
       /\ t.prev_is_free = h.block[b].prev_is_free
  BY <1>7, <1>11, WithFreeFacts
<1>13. PICK g : g = Put(g2, b, t)
  OBVIOUS
<1>14. Written(g2, g, b, t)
  BY <1>10, <1>13, PutWrites
<1>15. CutBlock(h, b, n) = g
  <2>1. /\ g1 = Put(h, rem, Remainder(b, z))
        /\ g2 = Put(g1, b, WithSize(g1.block[b], n))
    BY <1>1, <1>2, <1>4, <1>6, <1>8
  <2>2. CutBlock(h, b, n) = Put(g2, b, WithFree(g2.block[b], FALSE))
    BY <2>1 DEF CutBlock, Put, Remainder, WithSize, WithFree
  <2> QED
    BY <1>10, <1>11, <1>13, <2>2
<1>16. g \in Pools /\ SameIndex(h, g)
  BY <1>3, <1>9, <1>14 DEF SameIndex, Written
<1>17. /\ g.block[b] = t /\ g.block[rem] = r
       /\ \A x \in Addrs \ {b, rem} : g.block[x] = h.block[x]
  BY <1>3, <1>9, <1>14 DEF Written
<1>18. CutAt(h, g, b, rem, n, z)
  BY <1>1, <1>12, <1>16, <1>17 DEF CutAt
<1> QED
  BY <1>15, <1>18

WholeAt(h, g, b, y) ==
  /\ g \in Pools /\ SameIndex(h, g)
  /\ \A x \in Addrs \ {b, y} : g.block[x] = h.block[x]
  /\ g.block[b].size = h.block[b].size /\ g.block[b].free = FALSE
  /\ g.block[b].prev_physical = h.block[b].prev_physical
  /\ g.block[b].prev_is_free = h.block[b].prev_is_free
  /\ y < pool_size =>
       /\ SameBlock(h.block[y], g.block[y]) /\ g.block[y].prev_is_free = FALSE
       /\ g.block[y].prev_physical = h.block[y].prev_physical

LEMMA WholeShape ==
  ASSUME NEW h \in Pools, NEW b \in Addrs, NEW y \in Nat, y = EndAt(h.block, b), y # b
  PROVE  WholeAt(h, Whole(h, b), b, y)
<1>1. h.block[b] \in Headers
  BY HeaderTypes
<1>2. PICK r \in Headers : r = WithFree(h.block[b], FALSE)
  BY <1>1, WithFreeFacts
<1>3. /\ r.size = h.block[b].size /\ r.free = FALSE
      /\ r.prev_physical = h.block[b].prev_physical
      /\ r.prev_is_free = h.block[b].prev_is_free
  BY <1>1, <1>2, WithFreeFacts
<1>4. PICK g1 : g1 = Put(h, b, r)
  OBVIOUS
<1>5. Written(h, g1, b, r)
  BY <1>4, PutWrites
<1>6. g1 \in Pools
  BY <1>5 DEF Written
<1>7. y = NextPhysical(h, b)
  BY EndIsNext
<1>8. CASE y >= pool_size
  <2>1. Whole(h, b) = g1
    BY <1>2, <1>4, <1>7, <1>8 DEF Whole, Put, WithFree
  <2>2. ~ (y < pool_size)
    BY <1>8, AddrFacts
  <2>3. WholeAt(h, g1, b, y)
    BY <1>3, <1>5, <2>2 DEF WholeAt, Written
  <2> QED
    BY <2>1, <2>3
<1>9. CASE ~ (y >= pool_size)
  <2>1. y \in Addrs
    BY <1>9, AddrFacts
  <2>2. g1.block[y] = h.block[y] /\ h.block[y] \in Headers
    BY <1>5, <2>1, HeaderTypes DEF Written
  <2>3. PICK s \in Headers : s = WithPrevIsFree(h.block[y], FALSE)
    BY <2>2, WithPrevIsFreeFacts
  <2>4. /\ SameBlock(h.block[y], s) /\ s.prev_is_free = FALSE
        /\ s.prev_physical = h.block[y].prev_physical
    BY <2>2, <2>3, WithPrevIsFreeFacts DEF SameBlock
  <2>5. PICK g : g = Put(g1, y, s)
    OBVIOUS
  <2>6. Written(g1, g, y, s)
    BY <1>6, <2>1, <2>5, PutWrites
  <2>7. Whole(h, b) = g
    <3>1. g1 = Put(h, b, WithFree(h.block[b], FALSE))
      BY <1>2, <1>4
    <3>2. Whole(h, b) = Put(g1, y, WithPrevIsFree(g1.block[y], FALSE))
      BY <1>7, <1>9, <3>1 DEF Whole, Put, WithFree, WithPrevIsFree
    <3> QED
      BY <2>2, <2>3, <2>5, <3>2
  <2>8. g \in Pools /\ SameIndex(h, g)
    BY <1>5, <2>6 DEF SameIndex, Written
  <2>9. /\ g.block[b] = r /\ g.block[y] = s
        /\ \A x \in Addrs \ {b, y} : g.block[x] = h.block[x]
    BY <1>5, <2>6 DEF Written
  <2>10. WholeAt(h, g, b, y)
    BY <1>3, <2>4, <2>8, <2>9 DEF WholeAt
  <2> QED
    BY <2>7, <2>10
<1> QED
  BY <1>8, <1>9

LEMMA SplitSettles ==
  ASSUME NEW h, NEW S, NEW b, Loose(h, S, b), UsedAfter(h.block, S, b),
         NEW n \in PoolSizes,
         h.block[b].size - n >= TLSF_MIN_BLOCK_SIZE + TLSF_HEADER_SIZE,
         NEW k, k = Split(h, b, n)
  PROVE  \E T : /\ Settled(k, T) /\ UsedOf(k.block, T) = UsedOf(h.block, S) \cup {b}
                /\ \A x \in UsedOf(h.block, S) : k.block[x].size = h.block[x].size
                /\ k.block[b].size = n
<1>1. Frame(h, S) /\ h \in Pools /\ b \in S /\ Laid(h.block, S) /\ h.block[b].free
  BY DEF Loose, Frame
<1>2. /\ S \in SUBSET Addrs /\ 0 \in S
      /\ \A a \in S : /\ h.block[a].size \in PoolSizes
                      /\ EndAt(h.block, a) \in Nat /\ a < EndAt(h.block, a)
                      /\ EndAt(h.block, a) <= pool_size
                      /\ EndAt(h.block, a) < pool_size => EndAt(h.block, a) \in S
      /\ \A a, c \in S : EndAt(h.block, a) = EndAt(h.block, c) => a = c
  BY <1>1, FrameFacts
<1>3. PICK q \in Nat : q = h.block[b].size /\ q < pool_size
  BY <1>1, <1>2 DEF PoolSizes
<1>4. n \in Addrs /\ n \in Nat /\ n >= TLSF_MIN_BLOCK_SIZE /\ TLSF_MIN_BLOCK_SIZE \in Nat
  BY ClassConstants, AddrFacts DEF PoolSizes
<1>5. b \in Nat /\ b \in Addrs /\ EndAt(h.block, b) = b + TLSF_HEADER_SIZE + q
  BY <1>1, <1>2, <1>3, AddrFacts DEF EndAt
<1>6. PICK z \in Nat : /\ z = q - n - TLSF_HEADER_SIZE /\ z >= TLSF_MIN_BLOCK_SIZE
                       /\ z <= q
  BY <1>3, <1>4, AddrFacts
<1>7. z \in Addrs
  BY <1>3, <1>6, AddrFacts
<1>8. PICK rem \in Nat : /\ rem = b + TLSF_HEADER_SIZE + n /\ b < rem
                         /\ rem + TLSF_HEADER_SIZE + z = EndAt(h.block, b)
                         /\ rem < EndAt(h.block, b)
  BY <1>4, <1>5, <1>6, AddrFacts
<1>9. rem \in Addrs
  BY <1>1, <1>2, <1>8, AddrFacts
<1>10. PICK g : g = CutBlock(h, b, n)
  OBVIOUS
<1>11. CutAt(h, g, b, rem, n, z)
  BY <1>1, <1>3, <1>4, <1>5, <1>6, <1>7, <1>8, <1>9, <1>10, CutShape
<1>12. g \in Pools /\ \A a \in Addrs : g.block[a].size \in Nat
  BY <1>11, HeaderTypes DEF CutAt
<1>13. EndAt(g.block, b) = rem /\ EndAt(g.block, rem) = EndAt(h.block, b)
  BY <1>8, <1>11 DEF CutAt, EndAt
<1> DEFINE T == S \cup {rem}
<1>14. Laid(g.block, T) /\ rem \notin S
  <2>1. \A a \in S \ {b} : a # rem => g.block[a].size = h.block[a].size
    BY <1>2, <1>11 DEF CutAt
  <2>2. rem \notin S
    <3>1. b < rem /\ rem \in S => EndAt(h.block, b) <= rem
      BY <1>1, LaidFacts
    <3> QED
      BY <1>2, <1>1, <1>8, <3>1
  <2>3. \A a \in S \ {b} : g.block[a].size = h.block[a].size
    BY <2>1, <2>2
  <2> QED
    BY <1>1, <1>8, <1>12, <1>13, <2>2, <2>3, LaidSplit
<1>15. /\ \A a \in S \ {b} : g.block[a] = h.block[a]
       /\ \A a \in S : /\ g.block[a].prev_physical = h.block[a].prev_physical
                       /\ g.block[a].prev_is_free = h.block[a].prev_is_free
       /\ ~ g.block[b].free /\ g.block[b].size = n
       /\ g.block[rem].free /\ g.block[rem].size = z
       /\ g.block[rem].prev_physical = b /\ g.block[rem].prev_is_free = FALSE
       /\ g.block[b].free = FALSE
  BY <1>2, <1>11, <1>14 DEF CutAt
<1>16. Frame(g, T)
  <2>1. \A a \in T : g.block[a].size >= TLSF_MIN_BLOCK_SIZE
    BY <1>1, <1>4, <1>6, <1>15 DEF Frame
  <2>2. g.block[0].prev_physical = Null
    BY <1>1, <1>2, <1>15 DEF Frame
  <2> QED
    BY <1>12, <1>14, <2>1, <2>2 DEF Frame
<1>17. Index(g, FreeOf(g.block, T) \ {rem})
  <2>1. PICK F \in SUBSET Addrs : F = FreeOf(h.block, S) \ {b}
    BY <1>2 DEF FreeOf
  <2>2. FreeOf(g.block, T) \ {rem} = F
    BY <1>14, <1>15, <2>1 DEF FreeOf
  <2>3. \A a \in F : g.block[a] = h.block[a]
    BY <1>15, <2>1 DEF FreeOf
  <2>4. /\ g.blocks = h.blocks /\ g.fli_bitmap = h.fli_bitmap
        /\ g.sli_bitmap = h.sli_bitmap
    BY <1>11 DEF CutAt, SameIndex
  <2>5. Index(h, F)
    BY <2>1 DEF Loose
  <2>6. Index(g, F)
    BY <1>1, <1>12, <2>3, <2>4, <2>5, IndexKept
  <2> QED
    BY <2>2, <2>6
<1>18. \A a \in S \ {b} : EndAt(g.block, a) = EndAt(h.block, a)
  BY <1>15 DEF EndAt
<1>19. ASSUME NEW u \in T \ {rem}, NEW y \in T, EndAt(g.block, u) = y
       PROVE  /\ Known(g.block, u, y)
              /\ g.block[u].free /\ g.block[y].free => y = rem
              /\ y = rem => ~ g.block[u].free
  <2>1. CASE u = b
    BY <1>13, <1>15, <1>19, <2>1 DEF Known
  <2>2. CASE u # b
    <3>1. u \in S \ {b} /\ EndAt(h.block, u) = y
      BY <1>18, <1>19, <2>2
    <3>2. y \in S /\ y # rem
      <4>1. y < pool_size
        BY <1>2, <1>9, <1>19, AddrFacts
      <4> QED
        BY <1>2, <1>14, <3>1, <4>1
    <3>3. /\ Known(h.block, u, y)
          /\ h.block[u].free /\ h.block[y].free => y = b
      BY <3>1, <3>2 DEF Loose
    <3> QED
      BY <1>15, <3>1, <3>2, <3>3 DEF Known
  <2> QED
    BY <2>1, <2>2
<1>20. Loose(g, T, rem)
  BY <1>15, <1>16, <1>17, <1>19 DEF Loose
<1>21. UsedBefore(g.block, T, rem)
  <2>1. EndAt(g.block, rem) # rem
    BY <1>8, <1>13
  <2> QED
    BY <1>19, <2>1 DEF UsedBefore
<1>22. UsedAfter(g.block, T, rem)
  <2>1. SUFFICES ASSUME NEW y \in T, EndAt(g.block, rem) = y
                 PROVE  ~ g.block[y].free
    BY DEF UsedAfter
  <2>2. y = EndAt(h.block, b) /\ y # rem /\ y # b /\ y \in S
    <3>1. y = EndAt(h.block, b) /\ y \in Nat /\ rem < y /\ b < y
      BY <1>1, <1>2, <1>8, <1>13, <2>1
    <3>2. y < pool_size
      BY <1>2, <1>9, <2>1, AddrFacts
    <3> QED
      BY <1>1, <1>2, <1>5, <1>8, <3>1, <3>2
  <2>3. ~ h.block[y].free
    BY <2>2 DEF UsedAfter
  <2> QED
    BY <1>15, <2>2, <2>3
<1>23. k = insert_free_block(TellNext(g, rem), rem)
  BY <1>8, <1>10 DEF Split, CutBlock
<1>24. Settled(k, T) /\ SameUsed(g.block, T, k.block, T)
  BY <1>20, <1>21, <1>22, <1>23, LooseSettles
<1>25. UsedOf(g.block, T) = UsedOf(h.block, S) \cup {b}
  BY <1>1, <1>15 DEF UsedOf
<1>26. \A x \in UsedOf(h.block, S) : g.block[x].size = h.block[x].size
  BY <1>1, <1>15 DEF UsedOf
<1>27. /\ UsedOf(k.block, T) = UsedOf(g.block, T)
       /\ \A x \in UsedOf(g.block, T) : k.block[x].size = g.block[x].size
  BY <1>24 DEF SameUsed
<1>28. UsedOf(k.block, T) = UsedOf(h.block, S) \cup {b}
  BY <1>25, <1>27
<1>29. \A x \in UsedOf(h.block, S) : k.block[x].size = h.block[x].size
  BY <1>25, <1>26, <1>27
<1>30. k.block[b].size = n
  BY <1>15, <1>25, <1>27
<1> QED
  BY <1>24, <1>28, <1>29, <1>30

LEMMA WholeSettles ==
  ASSUME NEW h, NEW S, NEW b, Loose(h, S, b), UsedAfter(h.block, S, b),
         PlaceKnown(h.block, S, b),
         NEW k, k = Whole(h, b)
  PROVE  /\ Settled(k, S) /\ UsedOf(k.block, S) = UsedOf(h.block, S) \cup {b}
         /\ \A x \in S : k.block[x].size = h.block[x].size
<1>1. Frame(h, S) /\ h \in Pools /\ b \in S /\ h.block[b].free
  BY DEF Loose, Frame
<1>2. /\ S \in SUBSET Addrs /\ 0 \in S
      /\ \A a \in S : EndAt(h.block, a) \in Nat /\ a < EndAt(h.block, a)
      /\ \A a, c \in S : EndAt(h.block, a) = EndAt(h.block, c) => a = c
  BY <1>1, FrameFacts
<1>3. PICK y \in Nat : y = EndAt(h.block, b) /\ y # b
  BY <1>1, <1>2, AddrFacts
<1>4. WholeAt(h, k, b, y)
  BY <1>1, <1>2, <1>3, WholeShape
<1>5. y \in S => y < pool_size
  BY <1>2, AddrFacts
<1>6. /\ k \in Pools
      /\ \A a \in S : /\ k.block[a].size = h.block[a].size
                      /\ a # b => k.block[a].free = h.block[a].free
                      /\ k.block[a].prev_physical = h.block[a].prev_physical
                      /\ a # y => k.block[a].prev_is_free = h.block[a].prev_is_free
                      /\ a # b => SameLinks(h.block[a], k.block[a])
      /\ k.block[b].free = FALSE
      /\ y \in S => k.block[y].prev_is_free = FALSE
  <2>1. /\ k \in Pools /\ k.block[b].free = FALSE
        /\ y \in S => k.block[y].prev_is_free = FALSE
    BY <1>4, <1>5 DEF WholeAt
  <2>2. ASSUME NEW a \in S
        PROVE  /\ k.block[a].size = h.block[a].size
               /\ a # b => k.block[a].free = h.block[a].free
               /\ k.block[a].prev_physical = h.block[a].prev_physical
               /\ a # y => k.block[a].prev_is_free = h.block[a].prev_is_free
               /\ a # b => SameLinks(h.block[a], k.block[a])
    <3>1. CASE a = b
      BY <1>3, <1>4, <3>1 DEF WholeAt
    <3>2. CASE a = y
      BY <1>3, <1>4, <1>5, <3>2 DEF WholeAt, SameBlock
    <3>3. CASE a # b /\ a # y
      <4>1. k.block[a] = h.block[a]
        BY <1>2, <1>4, <3>3 DEF WholeAt
      <4> QED
        BY <3>3, <4>1 DEF SameLinks
    <3> QED
      BY <3>1, <3>2, <3>3
  <2> QED
    BY <2>1, <2>2
<1>7. Frame(k, S)
  BY <1>1, <1>2, <1>6, FrameKept DEF Frame
<1>8. Index(k, FreeOf(k.block, S))
  <2>1. PICK F \in SUBSET Addrs : F = FreeOf(h.block, S) \ {b}
    BY <1>2 DEF FreeOf
  <2>2. FreeOf(k.block, S) = F
    BY <1>6, <2>1 DEF FreeOf
  <2>3. \A a \in F : /\ k.block[a].size = h.block[a].size
                     /\ k.block[a].next_free = h.block[a].next_free
                     /\ k.block[a].prev_free = h.block[a].prev_free
    BY <1>6, <2>1 DEF FreeOf, SameLinks
  <2>4. /\ k.blocks = h.blocks /\ k.fli_bitmap = h.fli_bitmap
        /\ k.sli_bitmap = h.sli_bitmap
    BY <1>4 DEF WholeAt, SameIndex
  <2>5. Index(h, F)
    BY <2>1 DEF Loose
  <2>6. Index(k, F)
    BY <1>1, <1>6, <2>3, <2>4, <2>5, IndexKept
  <2> QED
    BY <2>2, <2>6
<1>9. ASSUME NEW u \in S, NEW z \in S, EndAt(k.block, u) = z
      PROVE  Known(k.block, u, z) /\ ~ (k.block[u].free /\ k.block[z].free)
  <2>1. EndAt(h.block, u) = z
    BY <1>6, <1>9, SameEnds
  <2>2. CASE u = b
    <3>1. k.block[y].prev_is_free = FALSE /\ z = y
      BY <1>3, <1>6, <2>1, <2>2
    <3>2. h.block[y].prev_physical = b
      BY <1>3, <3>1 DEF PlaceKnown
    <3> QED
      BY <1>6, <2>2, <3>1, <3>2 DEF Known
  <2>3. CASE u # b
    <3>1. z # y
      BY <1>1, <1>2, <1>3, <2>1, <2>3
    <3>2. Known(h.block, u, z) /\ (h.block[u].free /\ h.block[z].free => z = b)
      BY <2>1, <2>3 DEF Loose
    <3> QED
      BY <1>6, <2>3, <3>1, <3>2 DEF Known
  <2> QED
    BY <2>2, <2>3
<1>10. Settled(k, S)
  BY <1>7, <1>8, <1>9 DEF Settled
<1>11. UsedOf(k.block, S) = UsedOf(h.block, S) \cup {b}
  BY <1>1, <1>6 DEF UsedOf
<1> QED
  BY <1>6, <1>10, <1>11

(***************************************************************************)
(* The search: the first class with a block, from the class of the rounded *)
(* request on.                                                             *)
(***************************************************************************)
Found(h, c) ==
  { d \in From(c) : d[1] \in h.fli_bitmap /\ d[2] \in h.sli_bitmap[d[1]] }

LEMMA FirstClass ==
  ASSUME NEW found \in SUBSET Classes, found # {}
  PROVE  \E d \in found : found \subseteq From(d)
<1>1. \A d \in found : d[1] \in Nat /\ d[2] \in Nat /\ d \in Classes
  BY ClassPair, ClassConstants DEF Levels
<1> DEFINE I == { d[1] : d \in found }
<1>2. I \in SUBSET Nat /\ I # {}
  BY <1>1
<1> HIDE DEF I
<1>3. PICK i \in I : \A j \in I : i <= j
  BY <1>2, LeastNumber
<1> DEFINE J == { d[2] : d \in { e \in found : e[1] = i } }
<1>4. J \in SUBSET Nat /\ J # {}
  BY <1>1, <1>3 DEF I
<1> HIDE DEF J
<1>5. PICK j \in J : \A k \in J : j <= k
  BY <1>4, LeastNumber
<1>6. PICK d \in found : d[1] = i /\ d[2] = j
  BY <1>5 DEF J
<1>7. ASSUME NEW e \in found
      PROVE  e[1] > d[1] \/ (e[1] = d[1] /\ e[2] >= d[2])
  <2>1. e[1] \in I /\ i <= e[1] /\ e[1] \in Nat /\ i \in Nat /\ j \in Nat /\ e[2] \in Nat
    BY <1>1, <1>3, <1>6 DEF I
  <2>2. e[1] = i => j <= e[2]
    BY <1>5 DEF J
  <2> QED
    BY <1>6, <2>1, <2>2
<1>8. found \subseteq From(d)
  BY <1>1, <1>7 DEF From
<1> QED
  BY <1>8

LEMMA SearchFinds ==
  ASSUME NEW h \in Pools, NEW F \in SUBSET Addrs, Index(h, F), NEW c
  PROVE  /\ Found(h, c) = {} => find_free_block(h, c) = Null
         /\ Found(h, c) # {} =>
              /\ find_free_block(h, c) \in F
              /\ NotBefore(mapping_insert(h.block[find_free_block(h, c)].size), c)
<1>1. Found(h, c) \in SUBSET Classes
  BY DEF Found, From
<1>2. Found(h, c) = {} => find_free_block(h, c) = Null
  BY DEF find_free_block, Found
<1>3. ASSUME Found(h, c) # {}
      PROVE  /\ find_free_block(h, c) \in F
             /\ NotBefore(mapping_insert(h.block[find_free_block(h, c)].size), c)
  <2>1. PICK d \in Found(h, c) :
          d = CHOOSE e \in Found(h, c) : Found(h, c) \subseteq From(e)
    BY <1>1, <1>3, FirstClass
  <2>2. find_free_block(h, c) = h.blocks[d]
    BY <1>3, <2>1 DEF find_free_block, Found
  <2>3. d \in Classes /\ NotBefore(d, c) /\ d[2] \in h.sli_bitmap[d[1]]
    BY <2>1 DEF Found, From, NotBefore
  <2>4. Members(h, F, d) # {} /\ Linked(h.blocks[d], h.block, Members(h, F, d))
    BY <2>3 DEF Index, Listed
  <2>5. h.block \in [Addrs -> Headers] /\ h.blocks[d] \in Link
    BY <2>3, PoolsFacts DEF Maps
  <2>6. h.blocks[d] \in Members(h, F, d)
    BY <2>4, <2>5, LinkedFacts
  <2> QED
    BY <2>2, <2>3, <2>6 DEF Members
<1> QED
  BY <1>2, <1>3

LEMMA AlignedFacts ==
  ASSUME NEW size \in Nat
  PROVE  size_aligned(size) \in Nat /\ size_aligned(size) >= TLSF_MIN_BLOCK_SIZE
<1>1. TLSF_ALIGN \in Nat \ {0} /\ TLSF_MIN_BLOCK_SIZE \in Nat
  BY TlsfAssumption
<1>2. PICK up \in Nat : up = size + TLSF_ALIGN - 1
  BY <1>1
<1>3. up % TLSF_ALIGN \in 0 .. TLSF_ALIGN - 1
  BY <1>1
<1>4. PICK aligned \in Int : aligned = up - (up % TLSF_ALIGN)
  BY <1>3
<1>5. size_aligned(size) =
        IF aligned < TLSF_MIN_BLOCK_SIZE THEN TLSF_MIN_BLOCK_SIZE ELSE aligned
  BY <1>2, <1>4 DEF size_aligned
<1> QED
  BY <1>1, <1>5

LEMMA ChosenFits ==
  ASSUME NEW h, NEW S, Settled(h, S), NEW size \in Nat, Chosen(h, size) # Null
  PROVE  /\ Chosen(h, size) \in S /\ h.block[Chosen(h, size)].free
         /\ size_aligned(size) \in PoolSizes
         /\ h.block[Chosen(h, size)].size >= size_aligned(size)
<1>1. Frame(h, S) /\ h \in Pools /\ Index(h, FreeOf(h.block, S))
  BY DEF Settled, Frame
<1>2. S \in SUBSET Addrs /\ \A a \in S : h.block[a].size \in PoolSizes
  BY <1>1, FrameFacts
<1>3. PICK n \in Nat : n = size_aligned(size) /\ n >= TLSF_MIN_BLOCK_SIZE
  BY AlignedFacts
<1>4. /\ ~ (n > pool_size - TLSF_HEADER_SIZE)
      /\ Chosen(h, size) = find_free_block(h, mapping_search(n))
  BY <1>3 DEF Chosen
<1>5. n \in PoolSizes
  BY <1>3, <1>4, AddrFacts DEF PoolSizes
<1>6. PICK F \in SUBSET Addrs : F = FreeOf(h.block, S)
  BY <1>2 DEF FreeOf
<1>7. PICK b : b = find_free_block(h, mapping_search(n))
  OBVIOUS
<1>8. b \in F /\ NotBefore(mapping_insert(h.block[b].size), mapping_search(n))
  <2>1. Index(h, F)
    BY <1>1, <1>6
  <2> QED
    BY <1>1, <1>4, <1>7, <2>1, SearchFinds
<1>9. b \in S /\ h.block[b].free /\ h.block[b].size \in PoolSizes
  BY <1>2, <1>6, <1>8 DEF FreeOf
<1>10. h.block[b].size >= n
  BY <1>5, <1>8, <1>9, SearchFits
<1> QED
  BY <1>3, <1>4, <1>5, <1>7, <1>9, <1>10

LEMMA ChosenMisses ==
  ASSUME NEW h, NEW S, Settled(h, S), NEW size \in Nat \ {0}, Chosen(h, size) = Null,
         NEW b \in S, h.block[b].free
  PROVE  h.block[b].size * TLSF_SLI_COUNT < size_aligned(size) * (TLSF_SLI_COUNT + 1)
<1>1. Frame(h, S) /\ h \in Pools /\ Index(h, FreeOf(h.block, S))
  BY DEF Settled, Frame
<1>2. /\ S \in SUBSET Addrs /\ \A a \in S : h.block[a].size \in PoolSizes
      /\ EndAt(h.block, b) <= pool_size
  BY <1>1, FrameFacts
<1>3. PICK n \in Nat : n = size_aligned(size) /\ n >= TLSF_MIN_BLOCK_SIZE
  BY AlignedFacts
<1>4. PICK s \in Nat : s = h.block[b].size /\ s \in PoolSizes
  BY <1>2 DEF PoolSizes
<1>5. PICK K \in Nat \ {0} : K = TLSF_SLI_COUNT
  BY ClassConstants
<1>6. s <= pool_size - TLSF_HEADER_SIZE
  <2>1. b \in Nat /\ b + TLSF_HEADER_SIZE + s <= pool_size
    BY <1>2, <1>4, AddrFacts DEF EndAt
  <2> QED
    BY <2>1, AddrFacts
<1>7. CASE n > pool_size - TLSF_HEADER_SIZE
  <2>1. s <= n /\ n # 0
    BY <1>6, <1>7, <1>4, AddrFacts
  <2>2. s * K <= n * K
    BY <2>1
  <2>3. n * (K + 1) = n * K + n
    OBVIOUS
  <2>4. PICK x \in Nat, y \in Nat : x = s * K /\ y = n * K
    OBVIOUS
  <2> QED
    BY <1>3, <1>4, <1>5, <2>1, <2>2, <2>3, <2>4
<1>8. CASE ~ (n > pool_size - TLSF_HEADER_SIZE)
  <2>1. n \in PoolSizes
    BY <1>3, <1>8, AddrFacts DEF PoolSizes
  <2>2. find_free_block(h, mapping_search(n)) = Null
    BY <1>3, <1>8 DEF Chosen
  <2>3. PICK F \in SUBSET Addrs : F = FreeOf(h.block, S)
    BY <1>2 DEF FreeOf
  <2>4. Index(h, F) /\ Null \notin F /\ b \in F
    BY <1>1, <2>3, AddrFacts DEF FreeOf
  <2>5. PICK c : c = mapping_search(n)
    OBVIOUS
  <2>6. Found(h, c) = {}
    BY <1>1, <2>2, <2>4, <2>5, SearchFinds
  <2>7. PICK d \in Classes : d = mapping_insert(s)
    BY <1>4, ClassFacts
  <2>8. ~ NotBefore(d, c)
    <3>1. b \in Members(h, F, d)
      BY <1>4, <2>4, <2>7 DEF Members
    <3>2. d[2] \in h.sli_bitmap[d[1]] /\ d[1] \in Levels
      BY <2>4, <3>1, ClassPair DEF Index, Listed
    <3>3. d[1] \in h.fli_bitmap
      BY <2>4, <3>2 DEF Index
    <3>4. ~ (d \in From(c))
      BY <2>6, <3>2, <3>3 DEF Found
    <3> QED
      BY <3>4 DEF From, NotBefore
  <2>9. s * TLSF_SLI_COUNT < n * (TLSF_SLI_COUNT + 1)
    BY <1>4, <2>1, <2>5, <2>7, <2>8, SearchMisses
  <2> QED
    BY <1>3, <1>4, <2>9
<1> QED
  BY <1>7, <1>8

(***************************************************************************)
(* The invariant: the pool is settled over some set of blocks, and those   *)
(* in use are the regions given out.                                       *)
(***************************************************************************)
Fitted(h, S, R) ==
  /\ UsedOf(h.block, S) = { r.at - TLSF_HEADER_SIZE : r \in R }
  /\ R \in SUBSET [at : Nat, len : Nat]
  /\ \A r \in R : r.len <= h.block[r.at - TLSF_HEADER_SIZE].size
  /\ \A r, s \in R : r.at = s.at => r = s

Sound(h, R) == \E S : Settled(h, S) /\ Fitted(h, S, R)

LEMMA WalkIsInPool ==
  ASSUME NEW S, Settled(tlsf, S)
  PROVE  InPool = S
<1>1. InPool = Walk(tlsf.block)
  BY DEF InPool, Walk, NextPhysical, EndAt
<1> QED
  BY <1>1 DEF Settled, Frame, Laid

LEMMA SoundIsTlsfInv == Sound(tlsf, regions) => TlsfInv
<1>1. SUFFICES ASSUME NEW S, Settled(tlsf, S), Fitted(tlsf, S, regions)
               PROVE  TlsfInv
  BY DEF Sound
<1>2. Frame(tlsf, S) /\ tlsf \in Pools /\ InPool = S
  BY <1>1, WalkIsInPool DEF Settled, Frame
<1>3. \A b \in S : NextPhysical(tlsf, b) = EndAt(tlsf.block, b)
  BY EndIsNext
<1>4. /\ \A b \in S : EndAt(tlsf.block, b) < pool_size => EndAt(tlsf.block, b) \in S
      /\ S \in SUBSET Addrs
  BY <1>2, FrameFacts
<1>5. PoolTiled
  <2>1. \E b \in InPool : NextPhysical(tlsf, b) = pool_size
    BY <1>2, <1>3 DEF Frame, Laid
  <2>2. ASSUME NEW b \in InPool, NextPhysical(tlsf, b) < pool_size
        PROVE  /\ tlsf.block[NextPhysical(tlsf, b)].prev_physical = b
               /\ tlsf.block[NextPhysical(tlsf, b)].prev_is_free = tlsf.block[b].free
               /\ ~ (tlsf.block[b].free /\ tlsf.block[NextPhysical(tlsf, b)].free)
    <3>1. PICK y \in S : y = NextPhysical(tlsf, b) /\ EndAt(tlsf.block, b) = y
      BY <1>2, <1>3, <1>4, <2>2
    <3>2. Known(tlsf.block, b, y) /\ ~ (tlsf.block[b].free /\ tlsf.block[y].free)
      BY <1>1, <1>2, <3>1 DEF Settled
    <3> QED
      BY <3>1, <3>2 DEF Known
  <2>3. { b \in InPool : ~ tlsf.block[b].free } =
          { r.at - TLSF_HEADER_SIZE : r \in regions }
    BY <1>1, <1>2 DEF Fitted, UsedOf
  <2> QED
    BY <2>1, <2>2, <2>3 DEF PoolTiled
<1>6. RegionsFit
  BY <1>1, <1>2 DEF RegionsFit, Fitted, Frame, first_block
<1> QED
  BY <1>2, <1>5, <1>6 DEF TlsfInv, TlsfTypeOK

LEMMA SoundIsIndexExact == Sound(tlsf, regions) => IndexExact
<1>1. SUFFICES ASSUME NEW S, Settled(tlsf, S)
               PROVE  IndexExact
  BY DEF Sound
<1>2. Index(tlsf, FreeOf(tlsf.block, S)) /\ InPool = S
  BY <1>1, WalkIsInPool DEF Settled
<1>3. PICK F : F = FreeOf(tlsf.block, S) /\ F = { b \in InPool : tlsf.block[b].free }
  BY <1>2 DEF FreeOf
<1>4. ASSUME NEW c \in Classes, NEW M,
             M = Chain(tlsf.blocks[c], [a \in Addrs |-> tlsf.block[a].next_free])
      PROVE  /\ M = { b \in F : mapping_insert(tlsf.block[b].size) = c }
             /\ \A b \in M :
                  /\ tlsf.block[b].prev_free = Null <=> tlsf.blocks[c] = b
                  /\ tlsf.block[b].next_free # Null =>
                       tlsf.block[tlsf.block[b].next_free].prev_free = b
             /\ c[2] \in tlsf.sli_bitmap[c[1]] <=> M # {}
  <2>1. /\ Linked(tlsf.blocks[c], tlsf.block, Members(tlsf, F, c))
        /\ c[2] \in tlsf.sli_bitmap[c[1]] <=> Members(tlsf, F, c) # {}
    BY <1>2, <1>3 DEF Index, Listed
  <2>2. M = Members(tlsf, F, c)
    BY <1>4, <2>1 DEF Linked, FreeList
  <2> QED
    BY <2>1, <2>2 DEF Linked, Members
<1>5. \A i \in Levels : i \in tlsf.fli_bitmap <=> tlsf.sli_bitmap[i] # {}
  BY <1>2 DEF Index
<1>6. ASSUME NEW c \in Classes
      PROVE  LET members == Chain(tlsf.blocks[c], [a \in Addrs |-> tlsf.block[a].next_free])
             IN  /\ members = { b \in F : mapping_insert(tlsf.block[b].size) = c }
                 /\ \A b \in members :
                      /\ tlsf.block[b].prev_free = Null <=> tlsf.blocks[c] = b
                      /\ tlsf.block[b].next_free # Null =>
                           tlsf.block[tlsf.block[b].next_free].prev_free = b
                 /\ c[2] \in tlsf.sli_bitmap[c[1]] <=> members # {}
  BY <1>4, ZenonT(30)
<1> QED
  BY <1>3, <1>5, <1>6 DEF IndexExact

LEMMA SoundIsGoodFit == Sound(tlsf, regions) => GoodFit
<1>1. SUFFICES ASSUME NEW S, Settled(tlsf, S), NEW size \in Sizes \ {0},
                      Chosen(tlsf, size) = Null, NEW b \in InPool, tlsf.block[b].free
               PROVE  tlsf.block[b].size * TLSF_SLI_COUNT <
                        size_aligned(size) * (TLSF_SLI_COUNT + 1)
  BY DEF Sound, GoodFit
<1>2. b \in S /\ size \in Nat \ {0}
  BY <1>1, WalkIsInPool, TlsfAssumption
<1> QED
  BY <1>1, <1>2, ChosenMisses

LEMMA MallocKeepsSound ==
  ASSUME Sound(tlsf, regions), NEW size \in Sizes, tlsf_malloc(size)
  PROVE  Sound(tlsf, regions)'
<1>1. PICK S : Settled(tlsf, S) /\ Fitted(tlsf, S, regions)
  BY DEF Sound
<1>2. size \in Nat
  BY TlsfAssumption
<1>3. PICK b : b = Chosen(tlsf, size)
  OBVIOUS
<1>4. PICK n : n = size_aligned(size)
  OBVIOUS
<1>5. CASE b = Null
  BY <1>3, <1>5 DEF tlsf_malloc, tlsfVars
<1>6. CASE b # Null
  <2>1. b \in S /\ tlsf.block[b].free /\ n \in PoolSizes /\ tlsf.block[b].size >= n
    BY <1>1, <1>2, <1>3, <1>4, <1>6, ChosenFits
  <2>2. PICK h : h = remove_free_block(tlsf, b)
    OBVIOUS
  <2>3. /\ Loose(h, S, b) /\ SameBlocks(tlsf.block, h.block)
        /\ UsedAfter(h.block, S, b) /\ PlaceKnown(h.block, S, b)
        /\ UsedOf(h.block, S) = UsedOf(tlsf.block, S)
    BY <1>1, <2>1, <2>2, TakenIsLoose
  <2>4. /\ tlsf' = IF Splits(tlsf, b, n) THEN Split(h, b, n) ELSE Whole(h, b)
        /\ regions' = regions \cup {[at |-> b + TLSF_HEADER_SIZE, len |-> n]}
    BY <1>3, <1>4, <1>6, <2>2 DEF tlsf_malloc
  <2>5. S \in SUBSET Addrs /\ \A a \in S : tlsf.block[a].size \in Nat
    BY <1>1, FrameFacts DEF Settled
  <2>6. \A a \in S : h.block[a].size = tlsf.block[a].size
    BY <2>3, <2>5 DEF SameBlocks
  <2>7. \E T : /\ Settled(tlsf', T)
               /\ UsedOf(tlsf'.block, T) = UsedOf(tlsf.block, S) \cup {b}
               /\ \A x \in UsedOf(tlsf.block, S) : tlsf'.block[x].size = tlsf.block[x].size
               /\ n <= tlsf'.block[b].size
    <3>1. CASE Splits(tlsf, b, n)
      <4>1. h.block[b].size - n >= TLSF_MIN_BLOCK_SIZE + TLSF_HEADER_SIZE
        BY <2>1, <2>6, <3>1 DEF Splits
      <4>2. PICK k : k = Split(h, b, n) /\ k = tlsf'
        BY <2>4, <3>1
      <4>3. PICK T : /\ Settled(k, T) /\ UsedOf(k.block, T) = UsedOf(h.block, S) \cup {b}
                     /\ \A x \in UsedOf(h.block, S) : k.block[x].size = h.block[x].size
                     /\ k.block[b].size = n
        <5>1. PICK g : g = Split(h, b, n)
          OBVIOUS
        <5>2. \E T : /\ Settled(g, T) /\ UsedOf(g.block, T) = UsedOf(h.block, S) \cup {b}
                     /\ \A x \in UsedOf(h.block, S) : g.block[x].size = h.block[x].size
                     /\ g.block[b].size = n
          BY <2>1, <2>3, <4>1, <5>1, SplitSettles
        <5>3. g = k
          BY <4>2, <5>1
        <5> QED
          BY <5>2, <5>3
      <4>4. n <= k.block[b].size
        BY <2>1, <4>3 DEF PoolSizes
      <4>5. \A x \in UsedOf(tlsf.block, S) : k.block[x].size = tlsf.block[x].size
        BY <2>3, <2>6, <4>3 DEF UsedOf
      <4> QED
        BY <2>3, <4>2, <4>3, <4>4, <4>5
    <3>2. CASE ~ Splits(tlsf, b, n)
      <4>1. PICK k : k = Whole(h, b) /\ k = tlsf'
        BY <2>4, <3>2
      <4>2. /\ Settled(k, S) /\ UsedOf(k.block, S) = UsedOf(h.block, S) \cup {b}
            /\ \A x \in S : k.block[x].size = h.block[x].size
        <5>1. PICK g : g = Whole(h, b)
          OBVIOUS
        <5>2. /\ Settled(g, S) /\ UsedOf(g.block, S) = UsedOf(h.block, S) \cup {b}
              /\ \A x \in S : g.block[x].size = h.block[x].size
          BY <2>3, <5>1, WholeSettles
        <5>3. g = k
          BY <4>1, <5>1
        <5> QED
          BY <5>2, <5>3
      <4>3. n <= k.block[b].size
        BY <2>1, <2>5, <2>6, <4>2 DEF PoolSizes
      <4>4. \A x \in UsedOf(tlsf.block, S) : k.block[x].size = tlsf.block[x].size
        BY <2>6, <4>2 DEF UsedOf
      <4> QED
        BY <2>3, <4>1, <4>2, <4>3, <4>4
    <3> QED
      BY <3>1, <3>2
  <2>8. PICK T : /\ Settled(tlsf', T)
                 /\ UsedOf(tlsf'.block, T) = UsedOf(tlsf.block, S) \cup {b}
                 /\ \A x \in UsedOf(tlsf.block, S) :
                      tlsf'.block[x].size = tlsf.block[x].size
                 /\ n <= tlsf'.block[b].size
    BY <2>7
  <2>9. PICK r : r = [at |-> b + TLSF_HEADER_SIZE, len |-> n]
    OBVIOUS
  <2>10. /\ r \in [at : Nat, len : Nat] /\ r.at - TLSF_HEADER_SIZE = b
         /\ r.len = n /\ r.at = b + TLSF_HEADER_SIZE /\ b \in Nat
    BY <2>1, <2>5, <2>9, AddrFacts DEF PoolSizes
  <2>11. ASSUME NEW s \in regions
         PROVE  s.at # r.at /\ s.at - TLSF_HEADER_SIZE \in UsedOf(tlsf.block, S)
    <3>1. s.at - TLSF_HEADER_SIZE \in UsedOf(tlsf.block, S)
      BY <1>1 DEF Fitted
    <3>2. s.at - TLSF_HEADER_SIZE # b
      BY <2>1, <3>1 DEF UsedOf
    <3> QED
      BY <2>10, <3>1, <3>2
  <2>12. Fitted(tlsf', T, regions')
    <3>1. regions' = regions \cup {r}
      BY <2>4, <2>9
    <3>2. UsedOf(tlsf'.block, T) = { s.at - TLSF_HEADER_SIZE : s \in regions' }
      BY <1>1, <2>8, <2>10, <3>1 DEF Fitted
    <3>3. \A s \in regions' : s.len <= tlsf'.block[s.at - TLSF_HEADER_SIZE].size
      BY <1>1, <2>8, <2>10, <2>11, <3>1 DEF Fitted
    <3>4. \A s, t \in regions' : s.at = t.at => s = t
      BY <1>1, <2>11, <3>1 DEF Fitted
    <3>5. regions' \in SUBSET [at : Nat, len : Nat]
      BY <1>1, <2>10, <3>1 DEF Fitted
    <3> QED
      BY <3>2, <3>3, <3>4, <3>5 DEF Fitted
  <2> QED
    BY <2>8, <2>12 DEF Sound
<1> QED
  BY <1>5, <1>6

LEMMA FreeKeepsSound ==
  ASSUME Sound(tlsf, regions), NEW r \in regions, tlsf_free(r)
  PROVE  Sound(tlsf, regions)'
<1>1. PICK S : Settled(tlsf, S) /\ Fitted(tlsf, S, regions)
  BY DEF Sound
<1>2. PICK b0 : b0 = r.at - TLSF_HEADER_SIZE
  OBVIOUS
<1>3. b0 \in S /\ ~ tlsf.block[b0].free
  BY <1>1, <1>2 DEF Fitted, UsedOf
<1>4. tlsf' = AfterFree(tlsf, b0) /\ regions' = regions \ {r}
  BY <1>2 DEF tlsf_free, AfterFree, MergeNext
<1>5. PICK k : k = AfterFree(tlsf, b0) /\ k = tlsf'
  BY <1>4
<1>6. PICK T : /\ Settled(k, T) /\ UsedOf(k.block, T) = UsedOf(tlsf.block, S) \ {b0}
               /\ \A x \in UsedOf(k.block, T) : k.block[x].size = tlsf.block[x].size
  <2>1. PICK g : g = AfterFree(tlsf, b0)
    OBVIOUS
  <2>2. \E T : /\ Settled(g, T) /\ UsedOf(g.block, T) = UsedOf(tlsf.block, S) \ {b0}
               /\ \A x \in UsedOf(g.block, T) : g.block[x].size = tlsf.block[x].size
    BY <1>1, <1>3, <2>1, FreeSettles
  <2>3. g = k
    BY <1>5, <2>1
  <2> QED
    BY <2>2, <2>3
<1>7. ASSUME NEW s \in regions \ {r}
      PROVE  /\ s.at - TLSF_HEADER_SIZE # b0
             /\ s.at - TLSF_HEADER_SIZE \in UsedOf(k.block, T)
  <2>1. s.at \in Nat /\ r.at \in Nat /\ s.at # r.at
    BY <1>1 DEF Fitted
  <2>2. s.at - TLSF_HEADER_SIZE # b0
    BY <1>2, <2>1, AddrFacts
  <2>3. s.at - TLSF_HEADER_SIZE \in UsedOf(tlsf.block, S)
    BY <1>1 DEF Fitted
  <2> QED
    BY <1>6, <2>2, <2>3
<1>8. Fitted(k, T, regions \ {r})
  <2>1. UsedOf(k.block, T) = { s.at - TLSF_HEADER_SIZE : s \in regions \ {r} }
    <3>1. ASSUME NEW x \in UsedOf(k.block, T)
          PROVE  x \in { s.at - TLSF_HEADER_SIZE : s \in regions \ {r} }
      <4>1. x \in UsedOf(tlsf.block, S) /\ x # b0
        BY <1>6, <3>1
      <4>2. PICK s \in regions : x = s.at - TLSF_HEADER_SIZE
        BY <1>1, <4>1 DEF Fitted
      <4> QED
        BY <1>2, <4>1, <4>2
    <3> QED
      BY <1>7, <3>1
  <2>2. \A s \in regions \ {r} : s.len <= k.block[s.at - TLSF_HEADER_SIZE].size
    BY <1>1, <1>6, <1>7 DEF Fitted
  <2> QED
    BY <1>1, <2>1, <2>2 DEF Fitted
<1> QED
  BY <1>4, <1>5, <1>6, <1>8 DEF Sound

(* At first the pool is one free block, in the list of its class.           *)
LEMMA InitSound == TlsfInit => Sound(tlsf, regions)
<1>1. SUFFICES ASSUME TlsfInit
               PROVE  Sound(tlsf, regions)
  OBVIOUS
<1>2. PICK size : size = pool_size - TLSF_HEADER_SIZE
  OBVIOUS
<1>3. size \in PoolSizes /\ size \in Addrs /\ size \in Nat
  <2>1. /\ TLSF_MIN_BLOCK_SIZE \in Nat
        /\ pool_size >= TLSF_HEADER_SIZE + TLSF_MIN_BLOCK_SIZE
    BY TlsfAssumption
  <2> QED
    BY <1>2, <2>1, AddrFacts DEF PoolSizes
<1>4. PICK c \in Classes : c = mapping_insert(size)
  BY <1>3, ClassFacts
<1>5. c[1] \in Levels /\ c[2] \in 0 .. TLSF_SLI_COUNT - 1 /\ c = <<c[1], c[2]>>
  BY ClassPair
<1>6. PICK m : m = [a \in Addrs |->
                     IF a = first_block
                     THEN [NoHeader EXCEPT !.size = size, !.free = TRUE]
                     ELSE NoHeader]
  OBVIOUS
<1>7. tlsf = [block |-> m,
              blocks |-> [d \in Classes |-> IF d = c THEN first_block ELSE Null],
              fli_bitmap |-> {c[1]},
              sli_bitmap |-> [i \in Levels |-> IF i = c[1] THEN {c[2]} ELSE {}]]
  BY <1>1, <1>2, <1>4, <1>6 DEF TlsfInit, tlsf_init
<1>8. /\ tlsf.block = m
      /\ \A d \in Classes : tlsf.blocks[d] = IF d = c THEN 0 ELSE Null
      /\ tlsf.fli_bitmap = {c[1]}
      /\ \A i \in Levels : tlsf.sli_bitmap[i] = IF i = c[1] THEN {c[2]} ELSE {}
  BY <1>7, AddrFacts
<1>9. PICK w : w = [NoHeader EXCEPT !.size = size, !.free = TRUE]
  OBVIOUS
<1>10. w \in Headers /\ NoHeader \in Headers
  <2>1. NoHeader \in Headers
    BY AddrFacts DEF NoHeader, Headers
  <2>2. [NoHeader EXCEPT !.size = size, !.free = TRUE] \in Headers
    BY <1>3, <2>1 DEF Headers
  <2> QED
    BY <1>9, <2>1, <2>2
<1>11. /\ m \in [Addrs -> Headers] /\ m[0] = w
       /\ m[0].size = size /\ m[0].free = TRUE /\ m[0].prev_physical = Null
       /\ m[0].next_free = Null /\ m[0].prev_free = Null
  <2>1. m = [a \in Addrs |-> IF a = first_block THEN w ELSE NoHeader]
    BY <1>6, <1>9
  <2>2. m \in [Addrs -> Headers]
    BY <1>10, <2>1
  <2>3. m[0] = w
    BY <2>1, AddrFacts
  <2>4. /\ w.size = size /\ w.free = TRUE /\ w.prev_physical = Null
        /\ w.next_free = Null /\ w.prev_free = Null
    BY <1>9 DEF NoHeader
  <2> QED
    BY <2>2, <2>3, <2>4
<1>12. tlsf \in Pools
  <2>1. [d \in Classes |-> IF d = c THEN first_block ELSE Null] \in
          [Classes -> Addrs \cup {Null}]
    BY AddrFacts
  <2>2. [i \in Levels |-> IF i = c[1] THEN {c[2]} ELSE {}] \in
          [Levels -> SUBSET (0 .. TLSF_SLI_COUNT - 1)]
    BY <1>5
  <2>3. {c[1]} \in SUBSET Levels
    BY <1>5
  <2> QED
    BY <1>7, <1>11, <2>1, <2>2, <2>3 DEF Pools
<1>13. {0} \in SUBSET Addrs /\ Null # 0 /\ Null \in Link /\ 0 \in Link /\ {} \in SUBSET Addrs
  BY AddrFacts DEF Link
<1>14. EndAt(m, 0) = pool_size
  BY <1>2, <1>3, <1>11, AddrFacts DEF EndAt
<1>15. \A a \in Addrs : m[a].size \in Nat
  BY <1>8, <1>12, HeaderTypes
<1>16. Laid(m, {0})
  <2>1. \A x \in {0} : EndAt(m, x) < pool_size => EndAt(m, x) \in {0}
    BY <1>14, AddrFacts
  <2>2. Walk(m) \subseteq {0}
    BY <1>13, <1>15, <2>1, WalkLeast
  <2>3. 0 \in Walk(m)
    BY <1>15, WalkClosed
  <2>4. {0} = Walk(m)
    BY <2>2, <2>3
  <2> QED
    BY <1>14, <1>15, <2>4 DEF Laid
<1>17. Frame(tlsf, {0})
  BY <1>3, <1>8, <1>11, <1>12, <1>16 DEF Frame, PoolSizes
<1>18. Linked(0, m, {0}) /\ Linked(Null, m, {})
  <2>1. FreeList(0, m) \subseteq {0}
    BY <1>11, <1>13, ListLeast
  <2>2. 0 \in FreeList(0, m)
    BY <1>11, <1>13, ListClosed
  <2>3. FreeList(Null, m) \subseteq {}
    BY <1>11, <1>13, ListLeast
  <2> QED
    BY <1>11, <2>1, <2>2, <2>3 DEF Linked
<1>19. Index(tlsf, {0})
  <2>1. ASSUME NEW d \in Classes
        PROVE  Listed(tlsf, {0}, d)
    <3>1. d = <<d[1], d[2]>> /\ d[1] \in Levels
      BY ClassPair
    <3>2. CASE d = c
      <4>1. Members(tlsf, {0}, d) = {0}
        BY <1>4, <1>8, <1>11, <3>2 DEF Members
      <4>2. tlsf.blocks[d] = 0 /\ tlsf.sli_bitmap[d[1]] = {d[2]}
        BY <1>5, <1>8, <3>2
      <4>3. Linked(tlsf.blocks[d], tlsf.block, Members(tlsf, {0}, d))
        BY <1>8, <1>18, <4>1, <4>2
      <4> QED
        BY <4>1, <4>2, <4>3 DEF Listed
    <3>3. CASE d # c
      <4>1. Members(tlsf, {0}, d) = {}
        BY <1>4, <1>8, <1>11, <3>3 DEF Members
      <4>2. ~ (d[2] \in tlsf.sli_bitmap[d[1]])
        BY <1>5, <1>8, <3>1, <3>3
      <4> QED
        BY <1>8, <1>18, <3>3, <4>1, <4>2 DEF Listed
    <3> QED
      BY <3>2, <3>3
  <2>2. \A i \in Levels : i \in tlsf.fli_bitmap <=> tlsf.sli_bitmap[i] # {}
    BY <1>8
  <2> QED
    BY <2>1, <2>2 DEF Index
<1>20. FreeOf(tlsf.block, {0}) = {0} /\ UsedOf(tlsf.block, {0}) = {}
  BY <1>8, <1>11 DEF FreeOf, UsedOf
<1>21. Settled(tlsf, {0})
  <2>1. \A u \in {0}, y \in {0} : EndAt(tlsf.block, u) # y
    BY <1>8, <1>14, AddrFacts
  <2> QED
    BY <1>17, <1>19, <1>20, <2>1 DEF Settled
<1>22. Fitted(tlsf, {0}, regions)
  BY <1>1, <1>20 DEF Fitted, TlsfInit
<1> QED
  BY <1>21, <1>22 DEF Sound

LEMMA NextKeepsSound == Sound(tlsf, regions) /\ [TlsfNext]_tlsfVars => Sound(tlsf, regions)'
<1>1. SUFFICES ASSUME Sound(tlsf, regions), [TlsfNext]_tlsfVars
               PROVE  Sound(tlsf, regions)'
  OBVIOUS
<1>2. CASE \E size \in Sizes : tlsf_malloc(size)
  BY <1>1, <1>2, MallocKeepsSound
<1>3. CASE \E r \in regions : tlsf_free(r)
  BY <1>1, <1>3, FreeKeepsSound
<1>4. CASE UNCHANGED tlsfVars
  BY <1>1, <1>4 DEF tlsfVars
<1> QED
  BY <1>1, <1>2, <1>3, <1>4 DEF TlsfNext

LEMMA StaysSound == TlsfSpec => []Sound(tlsf, regions)
BY InitSound, NextKeepsSound, PTL DEF TlsfSpec

(* After any sequence of tlsf_malloc and tlsf_free the blocks tile the      *)
(* pool, know their neighbours, are never two free ones in a row, and those *)
(* in use are the regions given out.                                        *)
THEOREM PoolStaysTiled == TlsfSpec => []TlsfInv
BY StaysSound, SoundIsTlsfInv, PTL

(* The free lists and both bitmaps hold the free blocks, each in the list   *)
(* of its class, and nothing else (insert_free_block, remove_free_block).   *)
THEOREM IndexStaysExact == TlsfSpec => []IndexExact
BY StaysSound, SoundIsIndexExact, PTL

(* A call of tlsf_malloc that the pool could hold fails only when every free *)
(* block is smaller than the request and one part in TLSF_SLI_COUNT more     *)
(* (mapping_search, find_free_block).                                        *)
THEOREM SearchIsGoodFit == TlsfSpec => []GoodFit
BY StaysSound, SoundIsGoodFit, PTL
-----------------------------------------------------------------------------
LEMMA MallocAllocates ==
  ASSUME Sound(tlsf, regions), NEW size \in Sizes, tlsf_malloc(size)
  PROVE  Allocator!Alloc("caller") \/ UNCHANGED held
<1>1. PICK S : Settled(tlsf, S) /\ Fitted(tlsf, S, regions)
  BY DEF Sound
<1>2. size \in Nat
  BY TlsfAssumption
<1>3. PICK b : b = Chosen(tlsf, size)
  OBVIOUS
<1>4. PICK n : n = size_aligned(size)
  OBVIOUS
<1>5. CASE b = Null
  BY <1>3, <1>5 DEF tlsf_malloc, tlsfVars, held
<1>6. CASE b # Null
  <2>1. b \in S /\ tlsf.block[b].free /\ n \in PoolSizes /\ tlsf.block[b].size >= n
    BY <1>1, <1>2, <1>3, <1>4, <1>6, ChosenFits
  <2>2. Frame(tlsf, S) /\ Laid(tlsf.block, S)
    BY <1>1 DEF Settled, Frame
  <2>3. /\ S \in SUBSET Addrs
        /\ \A a \in S : /\ tlsf.block[a].size \in PoolSizes
                        /\ EndAt(tlsf.block, a) \in Nat /\ EndAt(tlsf.block, a) <= pool_size
    BY <2>2, FrameFacts
  <2>4. \A x, y \in S : x < y => EndAt(tlsf.block, x) <= y
    BY <2>2, LaidFacts
  <2>5. PICK at \in Nat, len \in Nat, e \in Nat :
          /\ at = b + TLSF_HEADER_SIZE /\ len = n /\ e = EndAt(tlsf.block, b)
          /\ at + len <= e /\ b \in Nat
    <3>1. n \in Nat /\ b \in Nat /\ EndAt(tlsf.block, b) \in Nat
      BY <2>1, <2>3, AddrFacts DEF PoolSizes
    <3>2. PICK q \in Nat : q = tlsf.block[b].size
      BY <2>1, <2>3 DEF PoolSizes
    <3>3. EndAt(tlsf.block, b) = b + TLSF_HEADER_SIZE + q /\ n <= q
      BY <2>1, <3>1, <3>2, AddrFacts DEF EndAt
    <3>4. PICK x \in Nat : x = b
      BY <3>1
    <3>5. x + TLSF_HEADER_SIZE \in Nat /\ x + TLSF_HEADER_SIZE + n <= x + TLSF_HEADER_SIZE + q
      BY <3>1, <3>2, <3>3, <3>4, AddrFacts
    <3>6. /\ b + TLSF_HEADER_SIZE \in Nat
          /\ (b + TLSF_HEADER_SIZE) + n <= EndAt(tlsf.block, b)
      BY <3>3, <3>4, <3>5
    <3> QED
      BY <3>1, <3>6
  <2>6. at \in 0 .. pool_size /\ len \in 0 .. pool_size - at
    <3>1. e <= pool_size
      BY <2>1, <2>3, <2>5
    <3> QED
      BY <2>5, <3>1, AddrFacts
  <2>7. PICK new : new = [at |-> at, len |-> len]
    OBVIOUS
  <2>8. regions' = regions \cup {new}
    BY <1>3, <1>4, <1>6, <2>5, <2>7 DEF tlsf_malloc
  <2>9. ASSUME NEW r \in regions
        PROVE  r.at # at /\ (r.at .. r.at + r.len - 1) \cap (at .. at + len - 1) = {}
    <3>1. PICK p \in Nat, l \in Nat : p = r.at /\ l = r.len
      BY <1>1 DEF Fitted
    <3>2. PICK u : u = p - TLSF_HEADER_SIZE
      OBVIOUS
    <3>3. u \in S /\ u # b /\ l <= tlsf.block[u].size
      BY <1>1, <2>1, <3>1, <3>2 DEF Fitted, UsedOf
    <3>4. PICK f \in Nat : f = EndAt(tlsf.block, u) /\ p + l <= f
      <4>1. PICK q \in Nat : q = tlsf.block[u].size
        BY <2>3, <3>3 DEF PoolSizes
      <4>2. u \in Nat /\ EndAt(tlsf.block, u) = u + TLSF_HEADER_SIZE + q
        BY <2>3, <3>3, <4>1, AddrFacts DEF EndAt
      <4> QED
        BY <3>1, <3>2, <3>3, <4>1, <4>2, AddrFacts
    <3>5. u \in Nat /\ p = u + TLSF_HEADER_SIZE
      BY <2>3, <3>1, <3>2, <3>3, AddrFacts
    <3>6. p # at
      BY <2>5, <3>3, <3>5, AddrFacts
    <3>7. CASE u < b
      <4>1. f <= b
        BY <2>1, <2>4, <3>3, <3>4, <3>7
      <4>2. p + l <= at
        BY <2>5, <3>4, <4>1, AddrFacts
      <4> QED
        BY <3>1, <3>6, <4>2
    <3>8. CASE b < u
      <4>1. e <= u
        BY <2>1, <2>4, <2>5, <3>3, <3>8
      <4>2. at + len <= p
        BY <2>5, <3>5, <4>1, AddrFacts
      <4> QED
        BY <3>1, <3>6, <4>2
    <3> QED
      BY <2>5, <3>3, <3>5, <3>7, <3>8
  <2>10. Allocator!Held = regions
    BY DEF Allocator!Held, held
  <2>11. held' = [held EXCEPT !["caller"] = @ \cup {new}]
    BY <2>8 DEF held
  <2>12. Allocator!Cells(new) = at .. at + len - 1
    BY <2>7 DEF Allocator!Cells
  <2> QED
    BY <2>6, <2>7, <2>9, <2>10, <2>11, <2>12 DEF Allocator!Alloc, Allocator!Cells
<1> QED
  BY <1>5, <1>6

LEMMA FreeFrees ==
  ASSUME NEW r \in regions, tlsf_free(r)
  PROVE  Allocator!Free("caller")
<1>1. regions' = regions \ {r}
  BY DEF tlsf_free
<1>2. held' = [held EXCEPT !["caller"] = @ \ {r}]
  BY <1>1 DEF held
<1> QED
  BY <1>2 DEF Allocator!Free, held

(* No byte is given out twice: tlsf_malloc maps to an allocation of the     *)
(* arena, tlsf_free to a free.                                              *)
THEOREM TlsfIsAnArena == TlsfSpec => TlsfImplementsArena
<1>1. TlsfInit => Allocator!Init
  BY DEF TlsfInit, Allocator!Init, held
<1>2. Sound(tlsf, regions) /\ [TlsfNext]_tlsfVars =>
        [Allocator!Next]_held
  <2>1. SUFFICES ASSUME Sound(tlsf, regions), [TlsfNext]_tlsfVars
                 PROVE  Allocator!Next \/ UNCHANGED held
    OBVIOUS
  <2>2. CASE \E size \in Sizes : tlsf_malloc(size)
    BY <2>1, <2>2, MallocAllocates DEF Allocator!Next
  <2>3. CASE \E r \in regions : tlsf_free(r)
    BY <2>3, FreeFrees DEF Allocator!Next
  <2>4. CASE UNCHANGED tlsfVars
    BY <2>4 DEF tlsfVars, held
  <2> QED
    BY <2>1, <2>2, <2>3, <2>4 DEF TlsfNext
<1> QED
  BY <1>1, <1>2, StaysSound, PTL DEF TlsfSpec, TlsfImplementsArena, Allocator!Spec
=============================================================================
