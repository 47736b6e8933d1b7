------------------------------- MODULE Policy -------------------------------
(***************************************************************************)
(* decide(): given a case, its customer and the clock, what to do next.    *)
(* Pure operators, no state.  decide() reads the clock only as "how long   *)
(* ago" and "what hour is it for the customer", so a time stamp is an age  *)
(* here, in hours or in any unit the constants share; a time stamp that is *)
(* None is any age past every threshold.                                   *)
(*                                                                         *)
(* A case is a record [status, attempts, failures, amount, cause, halted,  *)
(* age, since] (since: last_attempt_at) and a customer a record [known,    *)
(* do_not_contact, phone, phone_is_wrong, email, since] (since:            *)
(* last_contacted_at; known: there is such a row).                         *)
(***************************************************************************)
EXTENDS Naturals

CONSTANTS MaxAttempts,          \* recovery_cases.max_attempts
          MaxDeliveryFailures,  \* max_delivery_failures
          MinAmount,            \* min_recoverable_amount_paise
          Backoff,              \* retry_backoff_hours
          Cooldown,             \* customer_contact_cooldown_hours
          Grace,                \* bank_retry_grace_hours
          Day,                  \* units of time in a day
          WindowStart,          \* contact_window_start_hour
          WindowEnd,            \* contact_window_end_hour
          MandateRetryEnabled   \* mandate_retry_enabled

ASSUME PolicyAssumption ==
  /\ MaxAttempts \in Nat \ {0} /\ MaxDeliveryFailures \in Nat \ {0}
  /\ MinAmount \in Nat
  /\ Backoff \in Nat /\ Cooldown \in Nat /\ Grace \in Nat
  /\ Day \in Nat \ {0} /\ WindowStart \in 0..Day /\ WindowEnd \in 0..Day
  /\ MandateRetryEnabled \in BOOLEAN

Statuses == {"open", "in_progress", "recovered", "declined", "stopped"}

CLOSED_STATUSES == {"recovered", "declined", "stopped"}

Causes == {"customer_funds", "customer_instrument", "customer_action",
           "bank_decline", "transient", "configuration", "unknown"}

NEEDS_A_CONVERSATION == {"customer_instrument"}

DEFERS_TO_THE_BANK == {"transient", "bank_decline"}
-----------------------------------------------------------------------------
CanCall(u) == u.known /\ u.phone /\ ~u.phone_is_wrong

ReachableAtAll(u) == u.known /\ (CanCall(u) \/ u.email)

MutantAwaitsHalted(k) == k.cause \in DEFERS_TO_THE_BANK /\ ~k.halted

\* Bounded by the clock: subscription.halted may never arrive.
DeferringToTheBank(k) ==
  k.cause \in DEFERS_TO_THE_BANK /\ ~k.halted /\ k.age < Grace

WithinBackoff(k) == k.since < Backoff

CoolingDown(u) == u.since < Cooldown

WithinContactWindow(hour) == WindowStart <= hour /\ hour < WindowEnd

MutantOneMore(k) == k.attempts > MaxAttempts

AttemptsSpent(k) == k.attempts >= MaxAttempts

MutantCallsAnyway(u) == FALSE

OptedOut(u) == u.known /\ u.do_not_contact

\* The first rule that stops the case, "none" when no rule does.
StopReason(k, u) ==
  IF k.status \in CLOSED_STATUSES THEN "already_closed"
  ELSE IF OptedOut(u) THEN "do_not_contact"
  ELSE IF AttemptsSpent(k) THEN "max_attempts_reached"
  ELSE IF k.failures >= MaxDeliveryFailures THEN "undeliverable"
  ELSE IF k.amount < MinAmount THEN "below_min_amount"
  ELSE IF k.cause = "configuration" THEN "needs_human"
  ELSE IF ~ReachableAtAll(u) THEN "no_contact_details"
  ELSE "none"

\* The first rule that parks it.
WaitReason(k, u, hour) ==
  IF DeferringToTheBank(k) THEN "awaiting_bank_retry"
  ELSE IF WithinBackoff(k) THEN "within_backoff"
  ELSE IF CoolingDown(u) THEN "customer_recently_contacted"
  ELSE IF ~WithinContactWindow(hour) THEN "outside_contact_window"
  ELSE "none"

MutantParkLong(k, u, reason) == Backoff

\* retry_after, counted from now; None (re-read at every tick) is 0.
RetryAfter(k, u, reason) ==
  CASE reason = "awaiting_bank_retry" -> Grace - k.age
    [] reason = "within_backoff" -> Backoff - k.since
    [] reason = "customer_recently_contacted" -> Cooldown - u.since
    [] OTHER -> 0

MutantCallsTheOld(k, u) == IF k.age >= Grace /\ CanCall(u) THEN "call" ELSE "link"

InterventionFor(k, u) ==
  IF MandateRetryEnabled /\ k.cause = "customer_funds" /\ k.attempts = 0
    THEN "retry_mandate"
  ELSE IF ~CanCall(u) THEN "link"
  ELSE IF k.cause \in NEEDS_A_CONVERSATION THEN "call"
  ELSE IF k.attempts = 0 THEN "link" ELSE "call"

Decision(action, reason, retry) ==
  [action |-> action, reason |-> reason, retry |-> retry]

MutantWaitsFirst(k, u, hour) ==
  LET stop == StopReason(k, u)
      wait == WaitReason(k, u, hour)
  IN IF wait # "none" THEN Decision("wait", wait, RetryAfter(k, u, wait))
     ELSE IF stop # "none" THEN Decision("stop", stop, 0)
     ELSE Decision(InterventionFor(k, u), "eligible", 0)

Decide(k, u, hour) ==
  LET stop == StopReason(k, u)
      wait == WaitReason(k, u, hour)
  IN IF stop # "none" THEN Decision("stop", stop, 0)
     ELSE IF wait # "none" THEN Decision("wait", wait, RetryAfter(k, u, wait))
     ELSE Decision(InterventionFor(k, u), "eligible", 0)
=============================================================================
