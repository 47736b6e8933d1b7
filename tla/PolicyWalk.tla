----------------------------- MODULE PolicyWalk -----------------------------
(***************************************************************************)
(* One case on its way through the WAITs of decide(): the worker reads it, *)
(* parks it until retry_after, and reads it again when that time has come; *)
(* nothing but the clock changes.  The behaviours start from every mix of  *)
(* facts that the CONSTANT sets below allow.                               *)
(***************************************************************************)
EXTENDS Policy, FiniteSets

CONSTANTS Attempts, Failures, Amounts, Diagnoses, Ages, Sinces, Hours

ASSUME WalkAssumption ==
  /\ Diagnoses \subseteq Causes
  /\ Attempts \subseteq Nat /\ Failures \subseteq Nat /\ Amounts \subseteq Nat
  /\ Ages \subseteq Nat /\ Sinces \subseteq Nat /\ Hours \subseteq 0..(Day - 1)

VARIABLES k, u, hour

walkVars == <<k, u, hour>>

\* Ages saturate: past every threshold, older makes no difference.
Horizon == Grace + Backoff + Cooldown

Later(age, n) == IF age + n > Horizon THEN Horizon ELSE age + n

CaseIn(n) == [k EXCEPT !.age = Later(@, n), !.since = Later(@, n)]

CustomerIn(n) == [u EXCEPT !.since = Later(@, n)]

HourIn(n) == (hour + n) % Day

\* What decide() says n units of time from now.
DecisionIn(n) == Decide(CaseIn(n), CustomerIn(n), HourIn(n))

Now == DecisionIn(0)

\* Only a number that was called can turn out to be wrong, and a customer row
\* that is absent has no columns to vary.
Customers ==
  {c \in [known : {TRUE}, do_not_contact : BOOLEAN, phone : BOOLEAN,
          phone_is_wrong : BOOLEAN, email : BOOLEAN, since : Sinces] :
     c.phone_is_wrong => c.phone}
  \cup [known : {FALSE}, do_not_contact : {FALSE}, phone : {FALSE},
        phone_is_wrong : {FALSE}, email : {FALSE}, since : {Horizon}]

WalkInit ==
  /\ k \in [status : {"open", "stopped"}, attempts : Attempts,
            failures : Failures, amount : Amounts, cause : Diagnoses,
            halted : BOOLEAN, age : Ages, since : Sinces]
  /\ u \in Customers
  /\ hour \in Hours

\* next_eligible_at keeps the claim query off a parked case until retry_after;
\* a WAIT without one is read again by the next tick, at most a unit later.
ReadAgain ==
  LET n == IF Now.retry > 0 THEN Now.retry ELSE 1
  IN /\ Now.action = "wait"
     /\ k' = CaseIn(n) /\ u' = CustomerIn(n) /\ hour' = HourIn(n)

WalkSpec == WalkInit /\ [][ReadAgain]_walkVars /\ WF_walkVars(ReadAgain)
-----------------------------------------------------------------------------
\* decide()'s docstring, without an order of rules: stop when any ground to
\* stop exists, else wait when any ground to wait exists, else the cheapest
\* intervention that can work -- a re-charge when only the funds were missing
\* and nothing was tried, a link unless a phone is there for a cause no link
\* can clear or for a link already ignored, a call otherwise.
Grounds ==
  [stop |-> \/ k.status \notin {"open", "in_progress"}
            \/ u.do_not_contact \/ ~u.known
            \/ ~(u.email \/ (u.phone /\ ~u.phone_is_wrong))
            \/ k.attempts > MaxAttempts - 1
            \/ k.failures > MaxDeliveryFailures - 1
            \/ k.amount + 1 <= MinAmount
            \/ k.cause = "configuration",
   wait |-> \/ /\ k.cause = "transient" \/ k.cause = "bank_decline"
               /\ k.halted = FALSE /\ Grace - k.age > 0
            \/ Backoff - k.since > 0 \/ Cooldown - u.since > 0
            \/ hour \notin WindowStart..(WindowEnd - 1)]

Works(action) ==
  CASE action = "retry_mandate" ->
         MandateRetryEnabled /\ k.cause = "customer_funds" /\ k.attempts = 0
    [] action = "link" ->
         \/ ~u.phone \/ u.phone_is_wrong
         \/ k.attempts = 0 /\ k.cause # "customer_instrument"
    [] action = "call" -> u.phone /\ ~u.phone_is_wrong

Cheapest ==
  IF Works("retry_mandate") THEN "retry_mandate"
  ELSE IF Works("link") THEN "link" ELSE "call"

DecisionMeetsReference ==
  Now.action = IF Grounds.stop THEN "stop"
               ELSE IF Grounds.wait THEN "wait" ELSE Cheapest

\* retry_after is tight: the orchestrator will not look at the case before it,
\* so at no earlier time may decide() have acted, and once it has come, the
\* rule that parked the case is no longer the one that holds it.
ParkingIsTight ==
  LET n == Now.retry
  IN Now.action = "wait" /\ n > 0 =>
       /\ \A m \in 0..(n - 1) : DecisionIn(m).action = "wait"
       /\ DecisionIn(n).reason # Now.reason

\* Waiting only defers: within a day of the last threshold something is done
\* with the case, and what it is does not depend on when it is looked at.
WaitingChangesNothing ==
  Cardinality({DecisionIn(n).action : n \in 0..(Horizon + Day)} \ {"wait"}) = 1

\* "A second permanent terminal state that nothing can leave": no mix of facts
\* parks a case for ever, whether or not subscription.halted ever arrives.
NothingWaitsForEver == <>(Now.action # "wait")
=============================================================================
