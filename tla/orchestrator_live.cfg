\* Two debts of one person, one worker whose ticks may last a unit, Redis that may
\* be down, and fairness; a unit is twelve hours, the day starts at 09:00.
SPECIFICATION FairOrchestratorSpec
CONSTANTS
  c1 = c1
  c2 = c2
  u1 = u1
  Diagnosis = "transient"
  Cases = {c1, c2}
  Customers = {u1}
  Workers = {w1}
  NoOne = NoOne
  Subscribed = {c1}
  CustomerOf <- OneDebtor
  CauseOf <- SameCause
  AmountOf <- Rupees
  Worth <- Ranking
  Phoned = {u1}
  Mailable = {}
  BatchSize = 1
  CacheFails = TRUE
  MaxLag = 1
  MaxAborts = 0
  MaxAttempts = 2
  MaxDeliveryFailures = 1
  MinAmount = 50
  Backoff = 2
  Cooldown = 2
  Grace = 2
  Day = 2
  WindowStart = 0
  WindowEnd = 1
  MandateRetryEnabled = FALSE
PROPERTIES EveryCaseCloses
CHECK_DEADLOCK FALSE
