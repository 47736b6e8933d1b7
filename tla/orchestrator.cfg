\* Two debts of one person, two workers; a unit is a day, which is what the backoff and
\* the cooldown are by default, so the contact window is always open.
SPECIFICATION OrchestratorSpec
CONSTANTS
  c1 = c1
  c2 = c2
  u1 = u1
  Diagnosis = "unknown"
  Cases = {c1, c2}
  Customers = {u1}
  Workers = {w1, w2}
  NoOne = NoOne
  Subscribed = {}
  CustomerOf <- OneDebtor
  CauseOf <- SameCause
  AmountOf <- Rupees
  Worth <- Ranking
  Phoned = {u1}
  Mailable = {}
  BatchSize = 2
  CacheFails = FALSE
  MaxLag = 0
  MaxAborts = 1
  MaxAttempts = 2
  MaxDeliveryFailures = 2
  MinAmount = 50
  Backoff = 1
  Cooldown = 1
  Grace = 0
  Day = 1
  WindowStart = 0
  WindowEnd = 1
  MandateRetryEnabled = FALSE
SYMMETRY WorkerSymmetry
INVARIANTS
  OrchestratorTypeOK
  TriesAreBounded
  NobodyIsChasedForAClosedCase
  OptOutIsHonoured
  CooldownHoldsOnRecord
PROPERTIES ImplementsPursuit
CHECK_DEADLOCK FALSE
