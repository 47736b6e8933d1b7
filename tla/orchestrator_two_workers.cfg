\* Two debts of one person, two workers, Redis always up; a unit is twelve hours, the day
\* starts at 09:00.
SPECIFICATION OrchestratorSpec
CONSTANTS
  c1 = c1
  c2 = c2
  u1 = u1
  Diagnosis = "unknown"
  Cases = {c1, c2}
  Customers = {u1}
  Workers = {w1, w2}
  NoOne = NoOne
  Subscribed = {}
  CustomerOf <- OneDebtor
  CauseOf <- SameCause
  AmountOf <- Rupees
  Worth <- Ranking
  Phoned = {u1}
  Mailable = {}
  BatchSize = 1
  CacheFails = FALSE
  MaxLag = 0
  MaxAborts = 0
  MaxAttempts = 2
  MaxDeliveryFailures = 2
  MinAmount = 50
  Backoff = 2
  Cooldown = 2
  Grace = 0
  Day = 2
  WindowStart = 0
  WindowEnd = 1
  MandateRetryEnabled = FALSE
SYMMETRY WorkerSymmetry
PROPERTIES OneContactPerCooldown
CHECK_DEADLOCK FALSE
