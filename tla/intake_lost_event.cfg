\* One event delivered twice, and one request that dies between its claim in
\* Redis and its commit.
SPECIFICATION IntakeSpec
CONSTANTS
  Events = {e1}
  Handled = {e1}
  NoEvent = NoEvent
  Requests = {r1, r2}
  Servers = {}
  Sweepers = {}
  MaxAttempts = 2
  Limit = 1
  MaxFaults = 1
  MaxRequeues = 0
INVARIANTS DuplicateMeansStored
CHECK_DEADLOCK FALSE
