---------------------------- MODULE PolicyProofs ----------------------------
(***************************************************************************)
(* decide() for any thresholds, any window and any mix of facts: it meets  *)
(* its docstring, and the time until which it parks a case is tight.       *)
(*                                                                         *)
(* WalkTypeOK says which facts there are.  From it the two properties      *)
(* follow of each state; nothing is carried from one state to the next.    *)
(***************************************************************************)
EXTENDS PolicyWalk, Integers, FiniteSetTheorems, TLAPS

Facts ==
  [status : {"open", "stopped"}, attempts : Nat, failures : Nat, amount : Nat,
   cause : Causes, halted : BOOLEAN, age : Nat, since : Nat]

WalkTypeOK ==
  /\ k \in Facts
  /\ u \in [known : BOOLEAN, do_not_contact : BOOLEAN, phone : BOOLEAN,
            phone_is_wrong : BOOLEAN, email : BOOLEAN, since : Nat]
  /\ ~u.known => ~u.do_not_contact /\ ~u.phone /\ ~u.email
  /\ hour \in 0..(Day - 1)

USE PolicyAssumption, WalkAssumption

LEMMA HorizonCovers ==
  Horizon \in Nat /\ Grace <= Horizon /\ Backoff <= Horizon /\ Cooldown <= Horizon
BY DEF Horizon

\* Saturation tells a stamp from a threshold as the sum would.
LEMMA LaterIsAge ==
  ASSUME NEW age \in Nat, NEW n \in Nat
  PROVE  /\ Later(age, n) \in Nat
         /\ \A t \in 0..Horizon : Later(age, n) < t <=> age + n < t
BY HorizonCovers DEF Later

LEMMA FactsLater ==
  ASSUME WalkTypeOK, NEW n \in Nat
  PROVE  /\ CaseIn(n) \in Facts
         /\ CaseIn(n).status = k.status /\ CaseIn(n).attempts = k.attempts
         /\ CaseIn(n).failures = k.failures /\ CaseIn(n).amount = k.amount
         /\ CaseIn(n).cause = k.cause /\ CaseIn(n).halted = k.halted
         /\ CaseIn(n).age = Later(k.age, n) /\ CaseIn(n).since = Later(k.since, n)
         /\ CustomerIn(n) = [known |-> u.known, do_not_contact |-> u.do_not_contact,
                             phone |-> u.phone, phone_is_wrong |-> u.phone_is_wrong,
                             email |-> u.email, since |-> Later(u.since, n)]
         /\ HourIn(n) \in 0..(Day - 1)
<1>. USE DEF WalkTypeOK
<1>1. HourIn(n) \in 0..(Day - 1)
  <2>1. hour + n \in Nat /\ Day \in Nat /\ Day > 0
    OBVIOUS
  <2>2. ASSUME NEW m \in Nat, NEW d \in Nat, d > 0 PROVE m % d \in 0..(d - 1)
    BY <2>2, SMTT(30)
  <2>. QED BY <2>1, <2>2 DEF HourIn
<1>2. Later(k.age, n) \in Nat /\ Later(k.since, n) \in Nat
  BY LaterIsAge DEF Facts
<1>3. CaseIn(n) \in Facts
  BY <1>2 DEF CaseIn, Facts
<1>4. /\ CaseIn(n).status = k.status /\ CaseIn(n).attempts = k.attempts
      /\ CaseIn(n).failures = k.failures /\ CaseIn(n).amount = k.amount
      /\ CaseIn(n).cause = k.cause /\ CaseIn(n).halted = k.halted
  BY DEF CaseIn, Facts
<1>5. CaseIn(n).age = Later(k.age, n) /\ CaseIn(n).since = Later(k.since, n)
  BY DEF CaseIn, Facts
<1>6. CustomerIn(n) = [known |-> u.known, do_not_contact |-> u.do_not_contact,
                       phone |-> u.phone, phone_is_wrong |-> u.phone_is_wrong,
                       email |-> u.email, since |-> Later(u.since, n)]
  BY DEF CustomerIn
<1>. QED BY <1>1, <1>3, <1>4, <1>5, <1>6

LEMMA WalkTypeInitially == WalkInit => WalkTypeOK
BY HorizonCovers DEF WalkInit, WalkTypeOK, Facts, Customers

LEMMA WalkTypeStep == WalkTypeOK /\ [ReadAgain]_walkVars => WalkTypeOK'
<1>. SUFFICES ASSUME WalkTypeOK, [ReadAgain]_walkVars PROVE WalkTypeOK'
  OBVIOUS
<1>1. CASE UNCHANGED walkVars
  BY <1>1 DEF walkVars, WalkTypeOK, Facts
<1>2. CASE ReadAgain
  <2>1. Now.retry > 0 => Now.retry \in Nat
    BY LaterIsAge, FactsLater DEF Now, DecisionIn, Decide, Decision, RetryAfter, WalkTypeOK, Facts
  <2>2. PICK n \in Nat : k' = CaseIn(n) /\ u' = CustomerIn(n) /\ hour' = HourIn(n)
    BY <1>2, <2>1 DEF ReadAgain
  <2>3. Later(k.age, n) \in Nat /\ Later(k.since, n) \in Nat /\ Later(u.since, n) \in Nat
    BY LaterIsAge DEF WalkTypeOK, Facts
  <2>4. k' \in Facts
    BY <2>2, FactsLater
  <2>5. u' \in [known : BOOLEAN, do_not_contact : BOOLEAN, phone : BOOLEAN,
                phone_is_wrong : BOOLEAN, email : BOOLEAN, since : Nat]
    BY <2>2, <2>3, FactsLater DEF WalkTypeOK, Facts
  <2>6. ~u'.known => ~u'.do_not_contact /\ ~u'.phone /\ ~u'.email
    <3>1. /\ u'.known = u.known /\ u'.do_not_contact = u.do_not_contact
          /\ u'.phone = u.phone /\ u'.email = u.email
      BY <2>2, FactsLater
    <3>. QED BY <3>1 DEF WalkTypeOK
  <2>. QED BY <2>2, <2>4, <2>5, <2>6, FactsLater DEF WalkTypeOK, Facts
<1>. QED BY <1>1, <1>2
-----------------------------------------------------------------------------
(***************************************************************************)
(* The parts of a decision, n units of time from now.                      *)
(***************************************************************************)
\* A ground to stop is one of fact, and no fact changes while the case waits.
LEMMA StopStays ==
  ASSUME WalkTypeOK, NEW n \in Nat
  PROVE  StopReason(CaseIn(n), CustomerIn(n)) = StopReason(k, u)
BY FactsLater DEF StopReason, OptedOut, AttemptsSpent, ReachableAtAll, CanCall

LEMMA StopReference ==
  ASSUME WalkTypeOK
  PROVE  StopReason(k, u) # "none" <=> Grounds.stop
BY DEF StopReason, Grounds, WalkTypeOK, Facts, OptedOut, AttemptsSpent, ReachableAtAll,
       CanCall, CLOSED_STATUSES

LEMMA TimeReference ==
  ASSUME WalkTypeOK, NEW n \in Nat
  PROVE  /\ DeferringToTheBank(CaseIn(n)) <=>
              k.cause \in {"transient", "bank_decline"} /\ ~k.halted /\ k.age + n < Grace
         /\ WithinBackoff(CaseIn(n)) <=> k.since + n < Backoff
         /\ CoolingDown(CustomerIn(n)) <=> u.since + n < Cooldown
<1>1. k.age \in Nat /\ k.since \in Nat /\ u.since \in Nat
  BY DEF WalkTypeOK, Facts
<1>2. Grace \in 0..Horizon /\ Backoff \in 0..Horizon /\ Cooldown \in 0..Horizon
  BY HorizonCovers
<1>3. /\ CaseIn(n).age = Later(k.age, n) /\ CaseIn(n).since = Later(k.since, n)
      /\ CaseIn(n).cause = k.cause /\ CaseIn(n).halted = k.halted
      /\ CustomerIn(n).since = Later(u.since, n)
  BY FactsLater
<1>4. /\ Later(k.age, n) < Grace <=> k.age + n < Grace
      /\ Later(k.since, n) < Backoff <=> k.since + n < Backoff
      /\ Later(u.since, n) < Cooldown <=> u.since + n < Cooldown
  BY <1>1, <1>2, LaterIsAge
<1>. QED BY <1>3, <1>4
     DEF DeferringToTheBank, WithinBackoff, CoolingDown, DEFERS_TO_THE_BANK

LEMMA HourNow == ASSUME WalkTypeOK PROVE HourIn(0) = hour
BY DEF WalkTypeOK, Facts, HourIn

LEMMA WaitReference ==
  ASSUME WalkTypeOK
  PROVE  WaitReason(CaseIn(0), CustomerIn(0), HourIn(0)) # "none" <=> Grounds.wait
<1>1. WithinContactWindow(hour) <=> hour \in WindowStart..(WindowEnd - 1)
  BY DEF WalkTypeOK, Facts, WithinContactWindow
<1>2. Grounds.wait <=>
        \/ k.cause \in {"transient", "bank_decline"} /\ ~k.halted /\ k.age < Grace
        \/ k.since < Backoff \/ u.since < Cooldown
        \/ hour \notin WindowStart..(WindowEnd - 1)
  BY DEF Grounds, WalkTypeOK, Facts
<1>3. k.age \in Nat /\ k.since \in Nat /\ u.since \in Nat
  BY DEF WalkTypeOK, Facts
<1>. QED BY <1>1, <1>2, <1>3, TimeReference, HourNow DEF WaitReason

LEMMA InterventionReference ==
  ASSUME WalkTypeOK, ~Grounds.stop
  PROVE  InterventionFor(CaseIn(0), CustomerIn(0)) = Cheapest
<1>1. u.known
  BY DEF Grounds, WalkTypeOK, Facts
<1>. QED BY <1>1, FactsLater
     DEF InterventionFor, Cheapest, Works, CanCall, NEEDS_A_CONVERSATION, WalkTypeOK, Facts

\* The decision, n units from now, by what holds then.
LEMMA DecisionCases ==
  ASSUME WalkTypeOK, NEW n \in Nat
  PROVE  LET stop == StopReason(k, u)
             wait == WaitReason(CaseIn(n), CustomerIn(n), HourIn(n))
         IN DecisionIn(n) =
              IF stop # "none" THEN Decision("stop", stop, 0)
              ELSE IF wait # "none"
                THEN Decision("wait", wait, RetryAfter(CaseIn(n), CustomerIn(n), wait))
              ELSE Decision(InterventionFor(CaseIn(n), CustomerIn(n)), "eligible", 0)
BY StopStays DEF DecisionIn, Decide

\* A stop, a wait and an intervention are different actions.
LEMMA ActionIsWait ==
  ASSUME WalkTypeOK, NEW n \in Nat
  PROVE  DecisionIn(n).action = "wait" <=>
           /\ StopReason(k, u) = "none"
           /\ WaitReason(CaseIn(n), CustomerIn(n), HourIn(n)) # "none"
<1>1. InterventionFor(CaseIn(n), CustomerIn(n)) # "wait"
  BY DEF InterventionFor
<1>. QED BY <1>1, DecisionCases DEF Decision

LEMMA MeetsReference == WalkTypeOK => DecisionMeetsReference
<1>. SUFFICES ASSUME WalkTypeOK PROVE DecisionMeetsReference
  OBVIOUS
<1>. DEFINE wait == WaitReason(CaseIn(0), CustomerIn(0), HourIn(0))
<1>1. CASE Grounds.stop
  BY <1>1, StopReference, DecisionCases DEF DecisionMeetsReference, Now, Decision
<1>2. CASE ~Grounds.stop /\ Grounds.wait
  BY <1>2, StopReference, WaitReference, ActionIsWait DEF DecisionMeetsReference, Now
<1>3. CASE ~Grounds.stop /\ ~Grounds.wait
  <2>1. StopReason(k, u) = "none" /\ wait = "none"
    BY <1>3, StopReference, WaitReference
  <2>2. DecisionIn(0).action = Cheapest
    BY <1>3, <2>1, DecisionCases, InterventionReference DEF Decision
  <2>. QED BY <1>3, <2>2 DEF DecisionMeetsReference, Now
<1>. QED BY <1>1, <1>2, <1>3

\* A WAIT that names a time is one of three rules, and ends when its rule does.
LEMMA ParkedBy ==
  ASSUME WalkTypeOK, Now.action = "wait", Now.retry > 0
  PROVE  \/ /\ Now.reason = "awaiting_bank_retry" /\ DeferringToTheBank(CaseIn(0))
            /\ Now.retry = Grace - Later(k.age, 0)
         \/ /\ Now.reason = "within_backoff" /\ WithinBackoff(CaseIn(0))
            /\ Now.retry = Backoff - Later(k.since, 0)
         \/ /\ Now.reason = "customer_recently_contacted" /\ CoolingDown(CustomerIn(0))
            /\ Now.retry = Cooldown - Later(u.since, 0)
<1>. DEFINE wait == WaitReason(CaseIn(0), CustomerIn(0), HourIn(0))
<1>1. StopReason(k, u) = "none" /\ wait # "none"
  BY ActionIsWait DEF Now
<1>2. Now.reason = wait /\ Now.retry = RetryAfter(CaseIn(0), CustomerIn(0), wait)
  BY <1>1, DecisionCases DEF Now, Decision
<1>3. CaseIn(0).age = Later(k.age, 0) /\ CaseIn(0).since = Later(k.since, 0)
      /\ CustomerIn(0).since = Later(u.since, 0)
  BY FactsLater
<1>. HIDE DEF wait
<1>4. CASE wait = "outside_contact_window"
  BY <1>2, <1>4 DEF RetryAfter
<1>5. CASE DeferringToTheBank(CaseIn(0))
  <2>1. wait = "awaiting_bank_retry"
    BY <1>5 DEF wait, WaitReason
  <2>. QED BY <1>2, <1>3, <1>5, <2>1 DEF RetryAfter
<1>6. CASE ~DeferringToTheBank(CaseIn(0)) /\ WithinBackoff(CaseIn(0))
  <2>1. wait = "within_backoff"
    BY <1>6 DEF wait, WaitReason
  <2>. QED BY <1>2, <1>3, <1>6, <2>1 DEF RetryAfter
<1>7. CASE /\ ~DeferringToTheBank(CaseIn(0)) /\ ~WithinBackoff(CaseIn(0))
           /\ CoolingDown(CustomerIn(0))
  <2>1. wait = "customer_recently_contacted"
    BY <1>7 DEF wait, WaitReason
  <2>. QED BY <1>2, <1>3, <1>7, <2>1 DEF RetryAfter
<1>. QED BY <1>1, <1>4, <1>5, <1>6, <1>7 DEF wait, WaitReason

\* What a rule says at each time until it ends, and when it ends.
LEMMA TightFor ==
  ASSUME WalkTypeOK, Now.action = "wait", Now.retry > 0
  PROVE  /\ Now.retry \in Nat
         /\ \A m \in 0..(Now.retry - 1) :
              WaitReason(CaseIn(m), CustomerIn(m), HourIn(m)) # "none"
         /\ WaitReason(CaseIn(Now.retry), CustomerIn(Now.retry), HourIn(Now.retry))
              # Now.reason
<1>. DEFINE n == Now.retry
            reason == Now.reason
<1>1. k.age \in Nat /\ k.since \in Nat /\ u.since \in Nat
  BY DEF WalkTypeOK, Facts
<1>2. CASE reason = "awaiting_bank_retry"
  <2>1. DeferringToTheBank(CaseIn(0)) /\ n = Grace - Later(k.age, 0)
    BY <1>2, ParkedBy
  <2>2. /\ k.cause \in {"transient", "bank_decline"} /\ ~k.halted /\ k.age < Grace
    BY <1>1, <2>1, TimeReference
  <2>3. Later(k.age, 0) = k.age
    BY <1>1, <2>2, HorizonCovers DEF Later
  <2>. HIDE DEF n, reason
  <2>4. n \in Nat /\ k.age + n = Grace
    BY <1>1, <2>1, <2>2, <2>3
  <2>5. \A m \in 0..(n - 1) : DeferringToTheBank(CaseIn(m))
    BY <1>1, <2>2, <2>4, TimeReference
  <2>6. ~DeferringToTheBank(CaseIn(n))
    BY <1>1, <2>4, TimeReference
  <2>. QED BY <1>2, <2>4, <2>5, <2>6 DEF WaitReason, n, reason
<1>3. CASE reason = "within_backoff"
  <2>1. WithinBackoff(CaseIn(0)) /\ n = Backoff - Later(k.since, 0)
    BY <1>3, ParkedBy
  <2>2. k.since < Backoff
    BY <1>1, <2>1, TimeReference
  <2>3. Later(k.since, 0) = k.since
    BY <1>1, <2>2, HorizonCovers DEF Later
  <2>. HIDE DEF n, reason
  <2>4. n \in Nat /\ k.since + n = Backoff
    BY <1>1, <2>1, <2>2, <2>3
  <2>5. \A m \in 0..(n - 1) : WithinBackoff(CaseIn(m))
    BY <1>1, <2>2, <2>4, TimeReference
  <2>6. ~WithinBackoff(CaseIn(n))
    BY <1>1, <2>4, TimeReference
  <2>. QED BY <1>3, <2>4, <2>5, <2>6 DEF WaitReason, n, reason
<1>4. CASE reason = "customer_recently_contacted"
  <2>1. CoolingDown(CustomerIn(0)) /\ n = Cooldown - Later(u.since, 0)
    BY <1>4, ParkedBy
  <2>2. u.since < Cooldown
    BY <1>1, <2>1, TimeReference
  <2>3. Later(u.since, 0) = u.since
    BY <1>1, <2>2, HorizonCovers DEF Later
  <2>. HIDE DEF n, reason
  <2>4. n \in Nat /\ u.since + n = Cooldown
    BY <1>1, <2>1, <2>2, <2>3
  <2>5. \A m \in 0..(n - 1) : CoolingDown(CustomerIn(m))
    BY <1>1, <2>2, <2>4, TimeReference
  <2>6. ~CoolingDown(CustomerIn(n))
    BY <1>1, <2>4, TimeReference
  <2>. QED BY <1>4, <2>4, <2>5, <2>6 DEF WaitReason, n, reason
<1>. QED BY <1>2, <1>3, <1>4, ParkedBy

LEMMA IsTight == WalkTypeOK => ParkingIsTight
<1>. SUFFICES ASSUME WalkTypeOK, Now.action = "wait", Now.retry > 0
              PROVE  /\ \A m \in 0..(Now.retry - 1) : DecisionIn(m).action = "wait"
                     /\ DecisionIn(Now.retry).reason # Now.reason
  BY DEF ParkingIsTight
<1>. DEFINE n == Now.retry
            later == WaitReason(CaseIn(n), CustomerIn(n), HourIn(n))
<1>1. StopReason(k, u) = "none"
  BY ActionIsWait DEF Now
<1>2. n \in Nat /\ \A m \in 0..(n - 1) : DecisionIn(m).action = "wait"
  BY <1>1, TightFor, ActionIsWait
<1>3. later # Now.reason /\ Now.reason # "eligible"
  BY TightFor, ParkedBy
<1>4. DecisionIn(n).reason \in {later, "eligible"}
  BY <1>1, <1>2, DecisionCases DEF Decision
<1>. QED BY <1>2, <1>3, <1>4
-----------------------------------------------------------------------------
(***************************************************************************)
(* Waiting only defers.                                                    *)
(***************************************************************************)
LEMMA RemainderOf ==
  ASSUME NEW d \in Nat, d > 0, NEW q \in Nat, NEW r \in 0..(d - 1)
  PROVE  (d * q + r) % d = r
<1>. DEFINE a == d * q + r
            p == a \div d
            e == a % d
<1>1. a \in Nat
  OBVIOUS
<1>. HIDE DEF a
<1>2. p \in Int /\ e \in 0..(d - 1) /\ a = d * p + e
  BY <1>1, SMTT(30)
<1>. HIDE DEF p, e
<1>3. d * (p - q) = r - e
  BY <1>2 DEF a
<1>4. CASE p > q
  <2>1. PICK m \in Nat : p - q = 1 + m
    <3>1. p - q - 1 \in Nat /\ p - q = 1 + (p - q - 1)
      BY <1>2, <1>4
    <3>. QED BY <3>1
  <2>2. d * (1 + m) = d + d * m /\ d * m \in Nat
    OBVIOUS
  <2>. QED BY <1>2, <1>3, <2>1, <2>2
<1>5. CASE p < q
  <2>1. PICK m \in Nat : p - q = -(1 + m)
    <3>1. q - p - 1 \in Nat /\ p - q = -(1 + (q - p - 1))
      BY <1>2, <1>5
    <3>. QED BY <3>1
  <2>2. d * (-(1 + m)) = -(d + d * m) /\ d * m \in Nat
    OBVIOUS
  <2>. QED BY <1>2, <1>3, <2>1, <2>2
<1>6. CASE p = q
  BY <1>2, <1>6 DEF a
<1>. QED BY <1>2, <1>4, <1>5, <1>6 DEF e, a

\* Within a day every hour comes.
LEMMA HourComes ==
  ASSUME NEW a \in Nat, NEW h \in 0..(Day - 1)
  PROVE  \E n \in 0..(Day - 1) : (a + n) % Day = h
<1>. DEFINE q == a \div Day
            r == a % Day
<1>1. q \in Nat /\ r \in 0..(Day - 1) /\ a = Day * q + r
  BY SMTT(30)
<1>. HIDE DEF q, r
<1>2. CASE r <= h
  <2>1. a + (h - r) = Day * q + h /\ h - r \in 0..(Day - 1)
    BY <1>1, <1>2
  <2>2. (Day * q + h) % Day = h
    BY <1>1, RemainderOf
  <2>. QED BY <2>1, <2>2
<1>3. CASE r > h
  <2>1. Day * (q + 1) = Day * q + Day
    BY <1>1
  <2>2. a + (Day - r + h) = Day * (q + 1) + h /\ Day - r + h \in 0..(Day - 1)
    BY <1>1, <1>3, <2>1
  <2>3. (Day * (q + 1) + h) % Day = h
    <3>. DEFINE w == q + 1
    <3>1. w \in Nat
      BY <1>1
    <3>. HIDE DEF w
    <3>2. (Day * w + h) % Day = h
      BY <3>1, RemainderOf
    <3>. QED BY <3>2 DEF w
  <2>. QED BY <2>2, <2>3
<1>. QED BY <1>1, <1>2, <1>3

\* What is done when nothing holds a case back is settled by the facts.
LEMMA InterventionStays ==
  ASSUME WalkTypeOK, NEW n \in Nat
  PROVE  InterventionFor(CaseIn(n), CustomerIn(n)) = InterventionFor(k, u)
BY FactsLater DEF InterventionFor, CanCall

\* Past the last threshold, an open window is all a case waits for.
LEMMA NothingButTheWindow ==
  ASSUME WalkTypeOK, NEW n \in Nat, n >= Horizon, WithinContactWindow(HourIn(n))
  PROVE  WaitReason(CaseIn(n), CustomerIn(n), HourIn(n)) = "none"
<1>1. k.age \in Nat /\ k.since \in Nat /\ u.since \in Nat
  BY DEF WalkTypeOK, Facts
<1>2. /\ ~DeferringToTheBank(CaseIn(n)) /\ ~WithinBackoff(CaseIn(n))
      /\ ~CoolingDown(CustomerIn(n))
  BY <1>1, TimeReference, HorizonCovers
<1>. QED BY <1>2 DEF WaitReason

LEMMA OnlyDefers ==
  ASSUME WalkTypeOK, WindowStart < WindowEnd
  PROVE  WaitingChangesNothing
<1>. DEFINE does == IF StopReason(k, u) # "none" THEN "stop" ELSE InterventionFor(k, u)
            actions == {DecisionIn(n).action : n \in 0..(Horizon + Day)}
<1>1. ASSUME NEW n \in Nat PROVE DecisionIn(n).action \in {does, "wait"}
  BY DecisionCases, InterventionStays DEF Decision
<1>2. does # "wait"
  BY DEF InterventionFor
<1>3. PICK m \in 0..(Day - 1) : (hour + Horizon + m) % Day = WindowStart
  <2>1. hour + Horizon \in Nat /\ WindowStart \in 0..(Day - 1)
    BY HorizonCovers DEF WalkTypeOK
  <2>. QED BY <2>1, HourComes
<1>4. DecisionIn(Horizon + m).action = does
  <2>1. Horizon + m \in Nat /\ Horizon + m >= Horizon
    BY HorizonCovers
  <2>2. HourIn(Horizon + m) = WindowStart
    <3>1. hour + (Horizon + m) = hour + Horizon + m
      BY HorizonCovers DEF WalkTypeOK
    <3>. QED BY <1>3, <3>1 DEF HourIn
  <2>3. WithinContactWindow(WindowStart)
    BY DEF WithinContactWindow
  <2>4. WaitReason(CaseIn(Horizon + m), CustomerIn(Horizon + m), HourIn(Horizon + m)) = "none"
    BY <2>1, <2>2, <2>3, NothingButTheWindow
  <2>. QED BY <2>1, <2>4, DecisionCases, InterventionStays DEF Decision
<1>5. Horizon + m \in 0..(Horizon + Day) /\ 0..(Horizon + Day) \subseteq Nat
  BY HorizonCovers
<1>. HIDE DEF does
<1>6. actions \ {"wait"} = {does}
  BY <1>1, <1>2, <1>4, <1>5
<1>7. Cardinality({does}) = 1
  BY FS_Singleton
<1>. QED BY <1>6, <1>7 DEF WaitingChangesNothing
-----------------------------------------------------------------------------
LEMMA WalkTypeCorrect == WalkSpec => []WalkTypeOK
BY WalkTypeInitially, WalkTypeStep, PTL DEF WalkSpec

\* decide()'s docstring holds for all thresholds, counts, amounts, ages and
\* hours: stop if any ground to stop exists, else wait if any ground to wait
\* exists, else the cheapest intervention that can work.
THEOREM DecideMeetsReference == WalkSpec => []DecisionMeetsReference
BY WalkTypeCorrect, MeetsReference, PTL

\* retry_after is tight for all thresholds: at no earlier time would decide()
\* have acted, and at that time the rule that parked the case lets go of it.
THEOREM RetryAfterIsTight == WalkSpec => []ParkingIsTight
BY WalkTypeCorrect, IsTight, PTL

\* Wherever the window lies, as long as it opens at all: within a day of the
\* last threshold a case is acted on or stopped, and whichever of these is done
\* would have been done at any earlier time that was not a wait.
THEOREM WaitingOnlyDefers ==
  ASSUME WindowStart < WindowEnd
  PROVE  WalkSpec => []WaitingChangesNothing
BY WalkTypeCorrect, OnlyDefers, PTL
=============================================================================
