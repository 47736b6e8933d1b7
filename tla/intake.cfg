\* One event delivered twice, two API slots and a sweeper racing over it, one
\* death or lost answer, one requeue.
SPECIFICATION IntakeSpec
CONSTANTS
  Events = {e1}
  Handled = {e1}
  NoEvent = NoEvent
  Requests = {r1, r2}
  Servers = {api1, api2}
  Sweepers = {worker}
  MaxAttempts = 2
  Limit = 1
  MaxFaults = 1
  MaxRequeues = 1
SYMMETRY Symmetry
INVARIANTS
  IntakeTypeOK
  CommitIsAtomic
  OverlapBoundsEffects
  NotBuriedEarly
  OneRecorder
  ClaimIsHonest
PROPERTIES ImplementsLedger
CHECK_DEADLOCK FALSE
