\* Two events, one failing in front of one that needs no handler; the sweep
\* takes one row at a time and one process dies.
SPECIFICATION FairIntakeSpec
CONSTANTS
  Events = {e1, e2}
  Handled = {e1}
  NoEvent = NoEvent
  Requests = {r1, r2}
  Servers = {}
  Sweepers = {worker}
  MaxAttempts = 2
  Limit = 1
  MaxFaults = 1
  MaxRequeues = 0
PROPERTIES EveryEnvelopeSettles
CHECK_DEADLOCK FALSE
