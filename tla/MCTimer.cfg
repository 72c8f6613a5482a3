CONSTANTS
  one_shot = one_shot
  periodic = periodic
  dropped = dropped
  OS_MAX_TIMERS = 2
  Timers = {one_shot, periodic, dropped}
  Created <- MCCreated
  Creator = c1
  period_ticks <- MCPeriod
  repeating <- MCRepeating
  Clients = {c1, c2}
  c1 = c1
  c2 = c2
  NULL = NULL
SPECIFICATION TimerSpec
INVARIANT TimerTypeOK
INVARIANT SlotsFilled
INVARIANT NotEarly
INVARIANT NeverOverdue
