\* One debt, a worker and two other sessions, two attempts, two failures, a
\* mandate that may be charged.
SPECIFICATION LinksSpec
CONSTANTS
  Worker = worker
  Others = {s1, s2}
  MaxAttempts = 2
  MaxFailures = 2
  Mandate = TRUE
  MaxCharges = 2
SYMMETRY Symmetry
INVARIANTS LinksTypeOK DebtIsAskedOnce PaidMoneyIsCredited
CHECK_DEADLOCK FALSE
