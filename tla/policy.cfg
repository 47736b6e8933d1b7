\* Unit: six hours.  Backoff and cooldown 24 h, grace 72 h, window 09-21 h of
\* a day that starts at 03:00.  Every threshold is met from both sides.
SPECIFICATION WalkSpec
CONSTANTS
  MaxAttempts = 3
  MaxDeliveryFailures = 5
  MinAmount = 50
  Backoff = 4
  Cooldown = 4
  Grace = 12
  Day = 4
  WindowStart = 1
  WindowEnd = 3
  MandateRetryEnabled = TRUE
  Attempts = {0, 2, 3}
  Failures = {4, 5}
  Amounts = {49, 50}
  Diagnoses = {"customer_funds", "customer_instrument", "bank_decline",
               "configuration", "unknown"}
  Ages = {0, 11, 12}
  Sinces = {0, 3, 4}
  Hours = {0, 1, 3}
INVARIANTS
  DecisionMeetsReference
  ParkingIsTight
  WaitingChangesNothing
PROPERTIES NothingWaitsForEver
CHECK_DEADLOCK FALSE
