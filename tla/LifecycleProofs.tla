--------------------------- MODULE LifecycleProofs ---------------------------
(***************************************************************************)
(* Safety of CaseLifecycle, for any number of payments, debts,             *)
(* subscriptions and dispatchers.                                          *)
(*                                                                         *)
(* Mailed says what an event in the store stands for, Grasped what a       *)
(* handler holds once it has selected cases.  With the types they give     *)
(* that recovery is by real money, that no failure is lost and, with the   *)
(* lock of the payment's row, that a charge is credited once.  FoundNone   *)
(* and Together say who may open a second case for an invoice.             *)
(***************************************************************************)
EXTENDS CaseLifecycle, TLAPS

\* What Razorpay says is so, and stays so.
Means(e) ==
  /\ e.kind = "payment.failed" =>
       e.pay \in Charges /\ e.sub = SubOfCharge(e.pay) /\ e.case = None
  /\ e.kind \in {"subscription.pending", "subscription.halted", "subscription.charged"}
       => e.sub \in Subs
  /\ e.kind \in SuccessKinds => e.pay \in Payments /\ bank[e.pay] = "captured"
  /\ e.case # None =>
       e.kind \in SuccessKinds /\ e.pay \in LinkPayments /\ linkOf[e.pay] = e.case /\ status[e.case] # "absent"
  /\ e.kind \in SuccessKinds /\ e.pay \in Charges => e.case = None
  /\ e.kind = "order.paid" => e.pay \in Charges /\ e.case = None /\ e.sub = None
  /\ e.kind \in SuccessKinds /\ e.sub # None =>
       e.pay \in Charges /\ SubOfCharge(e.pay) = e.sub

Mailed == \A e \in sent : Means(e)

\* A case that is selected, or whose customer is rung, has been opened.
Opened ==
  /\ \A c \in onCall : status[c] # "absent"
  /\ \A d \in Dispatchers : \A c \in seen[d] : status[c] # "absent"

Grasped ==
  \A d \in Dispatchers : pc[d] = "read" /\ at[d].kind \in SuccessKinds =>
    \A c \in seen[d] : PaysFor(at[d].pay, c)

BaseInv == LifecycleTypeOK /\ Mailed /\ Opened
-----------------------------------------------------------------------------
LEMMA EventShape ==
  \A kind, p, s, c : /\ Event(kind, p, s, c).kind = kind /\ Event(kind, p, s, c).pay = p
                     /\ Event(kind, p, s, c).sub = s /\ Event(kind, p, s, c).case = c
BY DEF Event

LEMMA ChargeFacts ==
  ASSUME NEW p \in Charges
  PROVE  /\ p \in Payments /\ p \notin LinkPayments /\ p # None
         /\ DebtOf[p] \in Debts /\ SubOfCharge(p) \in Subs \cup {None}
BY LifecycleAssumption DEF Payments, SubOfCharge

LEMMA BaseInitially == LifecycleInit => BaseInv
<1>. SUFFICES ASSUME LifecycleInit PROVE BaseInv
  OBVIOUS
<1>1. LifecycleTypeOK
  BY LifecycleAssumption DEF LifecycleInit, LifecycleTypeOK, Live
<1>. QED BY <1>1 DEF LifecycleInit, BaseInv, Mailed, Opened

\* What events stand for outlives every step: no step takes money or a link
\* back, or unmakes a case.
Keeps ==
  /\ \A p \in Payments : bank[p] = "captured" => bank'[p] = "captured"
  /\ \A p \in LinkPayments : bank[p] = "captured" => linkOf'[p] = linkOf[p]
  /\ \A c \in Charges : status[c] # "absent" => status'[c] # "absent"

LEMMA MeaningLasts ==
  ASSUME BaseInv, Keeps, NEW e \in sent PROVE Means(e)'
<1>1. Means(e) /\ e \in Events
  BY DEF BaseInv, Mailed, LifecycleTypeOK
<1>. QED
  BY <1>1, LifecycleAssumption
     DEF Keeps, Means, BaseInv, LifecycleTypeOK, Events, Payments, SubOfCharge

\* A step that sends nothing, and selects and rings only what has been opened.
LEMMA BaseFrame ==
  ASSUME BaseInv, LifecycleTypeOK', Keeps, sent' = sent,
         \A c \in onCall' : status[c] # "absent",
         \A d \in Dispatchers : \A c \in seen'[d] : status[c] # "absent"
  PROVE  BaseInv'
<1>1. Mailed'
  BY MeaningLasts DEF Mailed
<1>2. Opened'
  BY DEF Opened, Keeps, LifecycleTypeOK
<1>. QED BY <1>1, <1>2 DEF BaseInv

LEMMA BaseCharges ==
  ASSUME BaseInv, NEW p \in Charges, ChargeFails(p) \/ ChargeSucceeds(p)
  PROVE  BaseInv'
<1>. USE ChargeFacts DEF caseVars, rowVars, dispatchVars
<1>0. /\ bank[p] = "none" /\ UNCHANGED <<linkOf, caseVars, rowVars, dispatchVars, onCall>>
      /\ \E end \in {"failed", "captured"} : bank' = [bank EXCEPT ![p] = end]
      /\ ChargeSucceeds(p) => bank'[p] = "captured"
  BY DEF ChargeFails, ChargeSucceeds, ChargeEnds, BaseInv, LifecycleTypeOK
<1>1. Keeps
  BY <1>0 DEF Keeps, BaseInv, LifecycleTypeOK
<1>2. \A e \in sent' \ sent : e \in Events /\ Means(e)'
  <2>1. CASE ChargeFails(p)
    BY <2>1 DEF ChargeFails, Event, Events, Means, SuccessKinds, SubOfCharge
  <2>2. CASE ChargeSucceeds(p)
    BY <2>2, <1>0 DEF ChargeSucceeds, SuccessKind, Event, Events, Means, SuccessKinds, SubOfCharge
  <2>. QED BY <2>1, <2>2
<1>3. sent \subseteq sent'
  BY DEF ChargeFails, ChargeSucceeds
<1>4. LifecycleTypeOK'
  BY <1>0, <1>2, <1>3 DEF BaseInv, LifecycleTypeOK
<1>5. Mailed'
  BY <1>1, <1>2, MeaningLasts DEF Mailed
<1>. QED BY <1>0, <1>4, <1>5 DEF BaseInv, Opened

LEMMA BaseLink ==
  ASSUME BaseInv, NEW p \in LinkPayments, NEW c \in Charges, LinkIsPaid(p, c)
  PROVE  BaseInv'
<1>. USE DEF caseVars, rowVars, dispatchVars
<1>0. p \in Payments /\ p \notin Charges /\ p # None /\ c # None
  BY LifecycleAssumption DEF Payments
<1>1. Keeps
  BY DEF LinkIsPaid, Keeps, BaseInv, LifecycleTypeOK
<1>2. /\ bank'[p] = "captured" /\ linkOf'[p] = c /\ status'[c] # "absent"
      /\ bank' \in [Payments -> {"none", "failed", "captured"}]
      /\ linkOf' \in [LinkPayments -> Charges \cup {None}]
  BY <1>0 DEF LinkIsPaid, BaseInv, LifecycleTypeOK
<1>3. \A e \in sent' \ sent : e \in Events /\ Means(e)'
  <2>1. PICK note \in {c, None} :
          sent' = sent \cup {Event("payment.captured", p, None, note),
                             Event("payment_link.paid", p, None, c)}
    BY DEF LinkIsPaid
  <2>. QED BY <2>1, <1>0, <1>2 DEF Event, Events, Means, SuccessKinds
<1>4. sent \subseteq sent'
  BY DEF LinkIsPaid
<1>5. LifecycleTypeOK'
  BY <1>2, <1>3, <1>4 DEF LinkIsPaid, BaseInv, LifecycleTypeOK
<1>6. Mailed'
  BY <1>1, <1>3, MeaningLasts DEF Mailed
<1>. QED BY <1>5, <1>6 DEF LinkIsPaid, BaseInv, Opened

LEMMA BaseSubscription ==
  ASSUME BaseInv, NEW s \in Subs, NEW kind \in {"subscription.pending", "subscription.halted"},
         SubscriptionFails(s, kind)
  PROVE  BaseInv'
<1>. USE DEF SubscriptionFails, caseVars, rowVars, dispatchVars
<1>1. Keeps
  BY DEF Keeps
<1>2. \A e \in sent' \ sent : e \in Events /\ Means(e)'
  BY LifecycleAssumption DEF Event, Events, Means, SuccessKinds
<1>3. LifecycleTypeOK'
  BY <1>2 DEF BaseInv, LifecycleTypeOK
<1>4. Mailed'
  BY <1>1, <1>2, MeaningLasts DEF Mailed
<1>. QED BY <1>3, <1>4 DEF BaseInv, Opened

LEMMA BaseWorkers ==
  ASSUME BaseInv, NEW c \in Charges, Ring(c) \/ Stop(c) \/ Refuse(c) \/ HangUp(c)
  PROVE  BaseInv'
<1>. USE DEF SetsStatus, outsideVars, rowVars, dispatchVars, BaseInv
<1>0. status[c] # "absent"
  BY DEF Ring, Stop, Refuse, HangUp, Opened, Live
<1>1. \E new \in Live \cup {"absent", "recovered", "declined", "stopped"} :
        SetsStatus(c, new) /\ new # "absent"
  BY <1>0 DEF Ring, Stop, Refuse, HangUp, Live, LifecycleTypeOK
<1>2. onCall' \subseteq onCall \cup {c}
  BY DEF Ring, Stop, Refuse, HangUp
<1>3. LifecycleTypeOK'
  BY <1>1, <1>2 DEF LifecycleTypeOK
<1>4. Keeps
  BY <1>1 DEF Keeps, LifecycleTypeOK
<1>. QED BY <1>0, <1>1, <1>2, <1>3, <1>4, BaseFrame DEF Opened

LEMMA BaseCall ==
  ASSUME BaseInv, NEW d \in Dispatchers, NEW e \in sent, Call(d, e)
  PROVE  BaseInv'
<1>. USE DEF Call, outsideVars, caseVars, rowVars
<1>1. LifecycleTypeOK'
  BY DEF BaseInv, LifecycleTypeOK
<1>2. Keeps
  BY DEF Keeps
<1>. QED BY <1>1, <1>2, BaseFrame DEF BaseInv, Opened

\* What a handler selects are cases that exist.
LEMMA SelectionIsOpened ==
  ASSUME BaseInv, NEW e \in sent, NEW S \in SUBSET Charges, Selects(e, S)
  PROVE  \A c \in S : status[c] # "absent"
<1>1. \A c \in LiveCases : status[c] # "absent"
  BY DEF LiveCases, Live
<1>2. \A c \in Creditable(e) : status[c] # "absent"
  BY <1>1 DEF Creditable, CasesOfOrder, CasesOfSub, BaseInv, Mailed, Means
<1>3. \A p : CasesOfInvoice(p) \subseteq LiveCases
  BY DEF CasesOfInvoice
<1>. QED BY <1>1, <1>2, <1>3 DEF Selects

LEMMA BaseRead ==
  ASSUME BaseInv, NEW d \in Dispatchers, Read(d)
  PROVE  BaseInv'
<1>. USE DEF outsideVars, caseVars, rowVars
<1>1. PICK S \in SUBSET Charges :
        /\ Selects(at[d], S) /\ seen' = [seen EXCEPT ![d] = S]
        /\ raced' = raced \cup (IF Races(d, S) THEN {DebtOf[at[d].pay]} ELSE {})
  BY DEF Read
<1>2. at[d] \in sent /\ Means(at[d])
  BY DEF Read, BaseInv, LifecycleTypeOK, Mailed
<1>3. LifecycleTypeOK'
  <2>1. raced' \subseteq Debts
    BY <1>1, <1>2, ChargeFacts DEF Races, Means, BaseInv, LifecycleTypeOK
  <2>2. seen' \in [Dispatchers -> SUBSET Charges]
    BY <1>1 DEF BaseInv, LifecycleTypeOK
  <2>. QED BY <2>1, <2>2 DEF Read, BaseInv, LifecycleTypeOK
<1>4. Keeps
  BY DEF Read, Keeps
<1>5. \A c \in S : status[c] # "absent"
  BY <1>1, <1>2, SelectionIsOpened
<1>. QED BY <1>1, <1>3, <1>4, <1>5, BaseFrame DEF Read, BaseInv, LifecycleTypeOK, Opened

\* The end of a handler's transaction, whatever it wrote.
LEMMA BaseEnd ==
  ASSUME BaseInv, NEW d \in Dispatchers, pc[d] # "idle", Ends(d),
         UNCHANGED <<outsideVars, onCall>>,
         done' \subseteq done \cup {at[d]},
         status' \in [Charges -> Live \cup {"absent", "recovered", "declined", "stopped"}],
         \A c \in Charges : status[c] # "absent" => status'[c] # "absent",
         by' \in [Charges -> Payments \cup {None}], halted' \subseteq Charges,
         onFile' \in [Charges -> Nat], credited' \in [Charges -> [Payments -> Nat]],
         subscriptions' \subseteq Subs, payers' \subseteq Subs \cup Checkouts,
         giveUps' \in 0..MaxGiveUps, raced' = raced
  PROVE  BaseInv'
<1>. USE DEF outsideVars, Ends
<1>1. LifecycleTypeOK'
  BY DEF BaseInv, LifecycleTypeOK
<1>2. Keeps
  BY DEF Keeps
<1>. QED BY <1>1, <1>2, BaseFrame DEF BaseInv, LifecycleTypeOK, Opened

LEMMA BaseFinish ==
  ASSUME BaseInv, NEW d \in Dispatchers, Finish(d) PROVE BaseInv'
<1>. USE DEF Commits
<1>0. /\ LifecycleTypeOK /\ Opened
      /\ pc[d] = "read" => at[d] \in sent /\ at[d] \in Events /\ Means(at[d])
  BY DEF BaseInv, LifecycleTypeOK, Mailed
<1>1. CASE OpensCase(d)
  <2>1. at[d].pay \in Charges /\ SubOfCharge(at[d].pay) \in Subs \cup {None}
    BY <1>0, <1>1, ChargeFacts DEF OpensCase, IsFailure, Means
  <2>2. subscriptions' \subseteq Subs /\ payers' \subseteq Subs \cup Checkouts
    BY <1>0, <1>1, <2>1 DEF OpensCase, Introduces, LifecycleTypeOK
  <2>3. /\ status' \in [Charges -> Live \cup {"absent", "recovered", "declined", "stopped"}]
        /\ \A c \in Charges : status[c] # "absent" => status'[c] # "absent"
        /\ onFile' \in [Charges -> Nat]
    <3>1. CASE status[at[d].pay] = "absent"
      <4>1. /\ status' = [status EXCEPT ![at[d].pay] = "open"]
            /\ onFile' = [onFile EXCEPT ![at[d].pay] = @ + 1]
        BY <1>1, <3>1 DEF OpensCase, Records
      <4>. QED BY <1>0, <2>1, <4>1 DEF LifecycleTypeOK, Live
    <3>2. CASE UNCHANGED <<status, onFile>>
      BY <1>0, <3>2 DEF LifecycleTypeOK
    <3>. QED BY <1>1, <3>1, <3>2 DEF OpensCase
  <2>4. /\ pc[d] = "read" /\ Ends(d) /\ done' = done \cup {at[d]}
        /\ UNCHANGED <<outsideVars, onCall, giveUps, raced, by, halted, credited>>
    BY <1>1 DEF OpensCase
  <2>. QED BY <1>0, <2>2, <2>3, <2>4, BaseEnd DEF LifecycleTypeOK
<1>2. CASE IgnoresStranger(d)
  BY <1>0, <1>2, BaseEnd DEF IgnoresStranger, LifecycleTypeOK, caseVars, rowVars
<1>3. CASE RepeatsFailure(d)
  <2>1. at[d].pay \in Charges /\ SubOfCharge(at[d].pay) \in Subs \cup {None}
    BY <1>0, <1>3, ChargeFacts DEF RepeatsFailure, IsFailure, Means
  <2>2. subscriptions' \subseteq Subs /\ payers' \subseteq Subs \cup Checkouts
    BY <1>0, <1>3, <2>1 DEF RepeatsFailure, Introduces, LifecycleTypeOK
  <2>3. onFile' \in [Charges -> Nat]
    BY <1>0, <1>3, <2>1 DEF RepeatsFailure, Records, LifecycleTypeOK
  <2>. QED BY <1>0, <1>3, <2>2, <2>3, BaseEnd DEF RepeatsFailure, LifecycleTypeOK
<1>4. CASE CreditsPayment(d)
  <2>1. at[d].pay \in Payments /\ (at[d].kind = "subscription.charged" => at[d].sub \in Subs)
    BY <1>0, <1>4 DEF CreditsPayment, Means
  <2>2. /\ status' \in [Charges -> Live \cup {"absent", "recovered", "declined", "stopped"}]
        /\ \A c \in Charges : status[c] # "absent" => status'[c] # "absent"
        /\ by' \in [Charges -> Payments \cup {None}]
        /\ subscriptions' \subseteq Subs
    BY <1>0, <1>4, <2>1 DEF CreditsPayment, LifecycleTypeOK
  <2>3. credited' \in [Charges -> [Payments -> Nat]]
    BY <1>0, <1>4, <2>1 DEF CreditsPayment, LifecycleTypeOK
  <2>. QED BY <1>0, <1>4, <2>2, <2>3, BaseEnd DEF CreditsPayment, LifecycleTypeOK
<1>5. CASE MarksSubscription(d)
  <2>1. halted' \subseteq Charges /\ subscriptions' \subseteq Subs
    BY <1>0, <1>5 DEF MarksSubscription, LifecycleTypeOK, Means
  <2>. QED BY <1>0, <1>5, <2>1, BaseEnd DEF MarksSubscription, LifecycleTypeOK
<1>. QED BY <1>1, <1>2, <1>3, <1>4, <1>5 DEF Finish

LEMMA BaseGivesUp ==
  ASSUME BaseInv, NEW d \in Dispatchers, GivesUp(d) PROVE BaseInv'
<1>1. giveUps' \in 0..MaxGiveUps
  BY LifecycleAssumption DEF GivesUp, BaseInv, LifecycleTypeOK
<1>. QED BY <1>1, BaseEnd DEF GivesUp, caseVars, rowVars, BaseInv, LifecycleTypeOK

LEMMA BaseStep == BaseInv /\ [LifecycleNext]_lifecycleVars => BaseInv'
<1>. SUFFICES ASSUME BaseInv, [LifecycleNext]_lifecycleVars PROVE BaseInv'
  OBVIOUS
<1>1. CASE Outside
  BY <1>1, BaseCharges, BaseLink, BaseSubscription, BaseWorkers, LifecycleAssumption
     DEF Outside
<1>2. CASE \E d \in Dispatchers :
             (\E e \in sent : Call(d, e)) \/ Read(d) \/ Finish(d) \/ GivesUp(d)
  BY <1>2, BaseCall, BaseRead, BaseFinish, BaseGivesUp
<1>3. CASE UNCHANGED lifecycleVars
  <2>. USE <1>3 DEF lifecycleVars, outsideVars, caseVars, rowVars, dispatchVars
  <2>1. LifecycleTypeOK'
    BY DEF BaseInv, LifecycleTypeOK
  <2>2. Keeps
    BY DEF Keeps
  <2>. QED BY <2>1, <2>2, BaseFrame DEF BaseInv, Opened
<1>. QED BY <1>1, <1>2, <1>3 DEF LifecycleNext

\* Every reachable state is well formed, and each stored event is still true of
\* Razorpay and of the case it names.
THEOREM LifecycleTypeCorrect == LifecycleSpec => []LifecycleTypeOK
<1>1. BaseInv => LifecycleTypeOK
  BY DEF BaseInv
<1>. QED BY <1>1, BaseInitially, BaseStep, PTL DEF LifecycleSpec
-----------------------------------------------------------------------------
(***************************************************************************)
(* Steps, as the invariants below tell them apart.                         *)
(***************************************************************************)
Closed == {"recovered", "declined", "stopped"}

\* A step that writes to no case but its status, and brings no handler to where
\* it has selected.
Quiet ==
  /\ UNCHANGED <<by, onFile, credited, done, payers, raced>>
  /\ \A d \in Dispatchers : pc'[d] = "read" =>
       pc[d] = "read" /\ at'[d] = at[d] /\ seen'[d] = seen[d]
  /\ \A c \in Charges :
       \/ status'[c] = status[c]
       \/ status[c] \in Live /\ status'[c] = "in_progress"
       \/ status[c] # "absent" /\ status'[c] \in {"declined", "stopped"}

LEMMA OutsideIsQuiet == BaseInv /\ Outside => Quiet /\ Keeps
<1>. SUFFICES ASSUME BaseInv, Outside PROVE Quiet /\ Keeps
  OBVIOUS
<1>. USE DEF caseVars, rowVars, dispatchVars, outsideVars
<1>1. CASE \E p \in Charges : ChargeFails(p) \/ ChargeSucceeds(p)
  BY <1>1, ChargeFacts DEF ChargeFails, ChargeSucceeds, ChargeEnds, Quiet, Keeps, BaseInv, LifecycleTypeOK
<1>2. CASE \E p \in LinkPayments, c \in Charges : LinkIsPaid(p, c)
  BY <1>2 DEF LinkIsPaid, Quiet, Keeps, BaseInv, LifecycleTypeOK
<1>3. CASE \E s \in Halting, kind \in {"subscription.pending", "subscription.halted"} :
             SubscriptionFails(s, kind)
  BY <1>3 DEF SubscriptionFails, Quiet, Keeps
<1>4. CASE \E c \in Charges : Ring(c) \/ Stop(c) \/ Refuse(c) \/ HangUp(c)
  <2>1. PICK c \in Charges : Ring(c) \/ Stop(c) \/ Refuse(c) \/ HangUp(c)
    BY <1>4
  <2>2. status[c] # "absent"
    BY <2>1 DEF Ring, Stop, Refuse, HangUp, BaseInv, Opened, Live
  <2>3. PICK new : /\ SetsStatus(c, new)
                   /\ \/ new = status[c]
                      \/ status[c] \in Live /\ new = "in_progress"
                      \/ new \in {"declined", "stopped"}
    BY <2>1 DEF Ring, Stop, Refuse, HangUp
  <2>4. Quiet
    BY <2>2, <2>3 DEF SetsStatus, Quiet, BaseInv, LifecycleTypeOK
  <2>5. Keeps
    BY <2>2, <2>3 DEF SetsStatus, Keeps, BaseInv, LifecycleTypeOK
  <2>. QED BY <2>4, <2>5
<1>. QED BY <1>1, <1>2, <1>3, <1>4 DEF Outside

LEMMA DispatchIsQuiet ==
  ASSUME BaseInv, NEW d \in Dispatchers, (\E e \in sent : Call(d, e)) \/ GivesUp(d)
  PROVE  Quiet /\ Keeps
<1>. USE DEF outsideVars, caseVars, rowVars
<1>1. Keeps
  BY DEF Call, GivesUp, Keeps
<1>. QED BY <1>1 DEF Call, GivesUp, Ends, Quiet, BaseInv, LifecycleTypeOK

LEMMA FinishKeeps ==
  ASSUME BaseInv, NEW d \in Dispatchers, Finish(d)
  PROVE  /\ Keeps /\ pc[d] = "read" /\ at[d] \in sent /\ Means(at[d])
         /\ Ends(d) /\ done' = done \cup {at[d]}
         /\ UNCHANGED <<outsideVars, giveUps, onCall>>
         /\ \A o \in Dispatchers : pc'[o] = "read" =>
              o # d /\ pc[o] = "read" /\ at'[o] = at[o] /\ seen'[o] = seen[o]
<1>1. /\ pc[d] = "read" /\ Ends(d) /\ done' = done \cup {at[d]}
      /\ UNCHANGED <<outsideVars, giveUps, onCall>>
  BY DEF Finish, OpensCase, IgnoresStranger, RepeatsFailure, CreditsPayment,
         MarksSubscription, Commits
<1>2. at[d] \in sent /\ Means(at[d])
  BY <1>1 DEF BaseInv, LifecycleTypeOK, Mailed
<1>3. \A c \in Charges : status[c] # "absent" => status'[c] # "absent"
  BY DEF Finish, OpensCase, IgnoresStranger, RepeatsFailure, CreditsPayment,
         MarksSubscription, caseVars, BaseInv, LifecycleTypeOK
<1>4. Keeps
  BY <1>1, <1>3 DEF Keeps, outsideVars
<1>5. \A o \in Dispatchers : pc'[o] = "read" =>
        o # d /\ pc[o] = "read" /\ at'[o] = at[o] /\ seen'[o] = seen[o]
  BY <1>1 DEF Ends, BaseInv, LifecycleTypeOK
<1>. QED BY <1>1, <1>2, <1>4, <1>5

\* Every step is quiet, selects, or finishes.
LEMMA StepKinds ==
  ASSUME BaseInv, [LifecycleNext]_lifecycleVars
  PROVE  \/ Quiet /\ Keeps
         \/ \E d \in Dispatchers : Read(d) \/ Finish(d)
<1>1. CASE UNCHANGED lifecycleVars
  BY <1>1 DEF lifecycleVars, outsideVars, caseVars, rowVars, dispatchVars, Quiet, Keeps
<1>. QED BY <1>1, OutsideIsQuiet, DispatchIsQuiet DEF LifecycleNext
-----------------------------------------------------------------------------
(***************************************************************************)
(* Recovery is by real money.                                              *)
(***************************************************************************)
MoneyInv == Grasped /\ RecoveredByRealMoney

LEMMA PaysForLasts ==
  ASSUME BaseInv, Keeps, NEW p \in Payments, bank[p] = "captured", NEW c \in Charges
  PROVE  bank'[p] = "captured" /\ (PaysFor(p, c) => PaysFor(p, c)')
BY DEF Keeps, PaysFor, SubOfCharge

LEMMA SelectionPays ==
  ASSUME BaseInv, NEW e \in sent, e.kind \in SuccessKinds,
         NEW S \in SUBSET Charges, Selects(e, S), NEW c \in S
  PROVE  PaysFor(e.pay, c)
<1>1. Means(e) /\ c \in Creditable(e)
  BY DEF BaseInv, Mailed, Selects, SuccessKinds
<1>2. CASE e.case # None
  BY <1>1, <1>2 DEF Creditable, Means, PaysFor
<1>3. CASE e.case = None /\ e.kind = "order.paid"
  BY <1>1, <1>3, ChargeFacts DEF Creditable, Means, CasesOfOrder, PaysFor
<1>4. CASE e.case = None /\ e.kind # "order.paid"
  BY <1>1, <1>4, ChargeFacts DEF Creditable, Means, CasesOfSub, PaysFor
<1>. QED BY <1>2, <1>3, <1>4

LEMMA MoneyInitially == LifecycleInit => MoneyInv
BY DEF LifecycleInit, MoneyInv, Grasped, RecoveredByRealMoney

\* What is grasped stays grasped, what is recovered stays so for its payment.
LEMMA GraspedLasts ==
  ASSUME BaseInv, Grasped, Keeps,
         \A d \in Dispatchers : pc'[d] = "read" =>
           pc[d] = "read" /\ at'[d] = at[d] /\ seen'[d] = seen[d]
  PROVE  Grasped'
<1>1. \A d \in Dispatchers : pc'[d] = "read" /\ at'[d].kind \in SuccessKinds =>
        at[d].pay \in Payments /\ bank[at[d].pay] = "captured"
  BY DEF BaseInv, LifecycleTypeOK, Mailed, Means
<1>2. \A d \in Dispatchers : seen[d] \subseteq Charges
  BY DEF BaseInv, LifecycleTypeOK
<1>3. \A p \in Payments, c \in Charges :
        bank[p] = "captured" /\ PaysFor(p, c) => PaysFor(p, c)'
  BY PaysForLasts
<1>. QED BY <1>1, <1>2, <1>3 DEF Grasped, SuccessKinds

LEMMA MoneyFrame ==
  ASSUME BaseInv, MoneyInv, Keeps,
         \A c \in Charges : status'[c] = "recovered" => status[c] = "recovered" /\ by'[c] = by[c],
         \A d \in Dispatchers : pc'[d] = "read" =>
           pc[d] = "read" /\ at'[d] = at[d] /\ seen'[d] = seen[d]
  PROVE  MoneyInv'
<1>1. Grasped'
  BY GraspedLasts DEF MoneyInv
<1>2. RecoveredByRealMoney'
  BY PaysForLasts DEF MoneyInv, RecoveredByRealMoney
<1>. QED BY <1>1, <1>2 DEF MoneyInv

LEMMA MoneyStep == BaseInv /\ MoneyInv /\ [LifecycleNext]_lifecycleVars => MoneyInv'
<1>. SUFFICES ASSUME BaseInv, MoneyInv, [LifecycleNext]_lifecycleVars PROVE MoneyInv'
  OBVIOUS
<1>1. CASE Quiet /\ Keeps
  BY <1>1, MoneyFrame DEF Quiet, Live
<1>2. ASSUME NEW d \in Dispatchers, Read(d) PROVE MoneyInv'
  <2>. USE DEF outsideVars, caseVars, rowVars
  <2>1. RecoveredByRealMoney'
    BY <1>2 DEF Read, MoneyInv, RecoveredByRealMoney, PaysFor
  <2>2. PICK S \in SUBSET Charges : Selects(at[d], S) /\ seen' = [seen EXCEPT ![d] = S]
    BY <1>2 DEF Read
  <2>3. at[d] \in sent /\ at' = at
    BY <1>2 DEF Read, BaseInv, LifecycleTypeOK
  <2>4. Grasped'
    <3>1. \A o \in Dispatchers : pc'[o] = "read" /\ at[o].kind \in SuccessKinds =>
            \A c \in seen'[o] : PaysFor(at[o].pay, c)
      BY <1>2, <2>2, <2>3, SelectionPays DEF Read, MoneyInv, Grasped, BaseInv, LifecycleTypeOK
    <3>2. \A p, c : PaysFor(p, c)' = PaysFor(p, c)
      BY <1>2 DEF Read, PaysFor
    <3>. QED BY <2>3, <3>1, <3>2 DEF Grasped
  <2>. QED BY <2>1, <2>4 DEF MoneyInv
<1>3. ASSUME NEW d \in Dispatchers, Finish(d) PROVE MoneyInv'
  <2>. USE <1>3, FinishKeeps
  <2>1. CASE CreditsPayment(d)
    <3>1. Grasped'
      BY GraspedLasts DEF MoneyInv
    <3>2. at[d].pay \in Payments /\ bank[at[d].pay] = "captured"
          /\ \A c \in seen[d] : PaysFor(at[d].pay, c)
      BY <2>1 DEF CreditsPayment, MoneyInv, Grasped, Means
    <3>3. \A c \in Charges : status'[c] = "recovered" =>
            \/ c \in seen[d] /\ by'[c] = at[d].pay
            \/ status[c] = "recovered" /\ by'[c] = by[c]
      BY <2>1 DEF CreditsPayment
    <3>4. RecoveredByRealMoney'
      BY <3>2, <3>3, PaysForLasts DEF MoneyInv, RecoveredByRealMoney
    <3>. QED BY <3>1, <3>4 DEF MoneyInv
  <2>2. CASE OpensCase(d) \/ IgnoresStranger(d) \/ RepeatsFailure(d) \/ MarksSubscription(d)
    <3>1. \A c \in Charges : status'[c] = "recovered" =>
            status[c] = "recovered" /\ by'[c] = by[c]
      BY <2>2 DEF OpensCase, IgnoresStranger, RepeatsFailure, MarksSubscription, caseVars,
                  BaseInv, LifecycleTypeOK
    <3>. QED BY <3>1, MoneyFrame
  <2>. QED BY <2>1, <2>2 DEF Finish
<1>. QED BY <1>1, <1>2, <1>3, StepKinds

\* Whatever order and however often events are handled, a case is called
\* recovered only on account of a captured payment that was for it.
THEOREM RealMoney == LifecycleSpec => []RecoveredByRealMoney
<1>1. MoneyInv => RecoveredByRealMoney
  BY DEF MoneyInv
<1>. QED BY <1>1, BaseInitially, BaseStep, MoneyInitially, MoneyStep, PTL DEF LifecycleSpec
-----------------------------------------------------------------------------
(***************************************************************************)
(* No failure is lost.                                                     *)
(***************************************************************************)
CasesOnFile == \A c \in Charges : status[c] # "absent" => onFile[c] > 0

FileInv == CasesOnFile /\ EveryFailureIsOnFile

LEMMA FileInitially == LifecycleInit => FileInv
BY DEF LifecycleInit, FileInv, CasesOnFile, EveryFailureIsOnFile

\* Nothing is taken off file, and no stranger becomes a customer.
LEMMA FileFrame ==
  ASSUME BaseInv, FileInv,
         \A p \in Charges : onFile'[p] \in Nat /\ onFile'[p] >= onFile[p],
         payers' \subseteq payers \cup Subs,
         \A c \in Charges : status'[c] # "absent" => status[c] # "absent" \/ onFile'[c] > 0,
         \A e \in done' \ done : e.kind = "payment.failed" =>
           e.pay \in Charges /\ (Known(e.pay) => onFile'[e.pay] > 0)
  PROVE  FileInv'
<1>0. onFile \in [Charges -> Nat]
  BY DEF BaseInv, LifecycleTypeOK
<1>1. CasesOnFile'
  BY <1>0 DEF FileInv, CasesOnFile
<1>2. \A p \in Charges : Known(p)' => Known(p)
  BY ChargeFacts, LifecycleAssumption DEF Known
<1>3. \A e \in sent : e.kind = "payment.failed" => e.pay \in Charges
  BY DEF BaseInv, Mailed, Means
<1>4. EveryFailureIsOnFile'
  <2>. SUFFICES ASSUME NEW e \in done', e.kind = "payment.failed", Known(e.pay)'
                PROVE  onFile'[e.pay] > 0
    BY DEF EveryFailureIsOnFile
  <2>1. CASE e \in done
    <3>1. e.pay \in Charges
      BY <2>1, <1>3 DEF BaseInv, LifecycleTypeOK
    <3>. QED BY <2>1, <3>1, <1>0, <1>2 DEF FileInv, EveryFailureIsOnFile
  <2>2. CASE e \notin done
    BY <2>2, <1>2
  <2>. QED BY <2>1, <2>2
<1>. QED BY <1>1, <1>4 DEF FileInv

LEMMA FileStep == BaseInv /\ FileInv /\ [LifecycleNext]_lifecycleVars => FileInv'
<1>. SUFFICES ASSUME BaseInv, FileInv, [LifecycleNext]_lifecycleVars PROVE FileInv'
  OBVIOUS
<1>0. onFile \in [Charges -> Nat] /\ status \in [Charges -> Live \cup Closed \cup {"absent"}]
  BY DEF BaseInv, LifecycleTypeOK, Closed
<1>1. CASE Quiet
  BY <1>0, <1>1, FileFrame DEF Quiet, Live
<1>2. ASSUME NEW d \in Dispatchers, Read(d) PROVE FileInv'
  BY <1>0, <1>2, FileFrame DEF Read, caseVars, rowVars
<1>3. ASSUME NEW d \in Dispatchers, Finish(d) PROVE FileInv'
  <2>1. /\ done' = done \cup {at[d]}
        /\ at[d].kind = "payment.failed" => at[d].pay \in Charges
    BY <1>3, FinishKeeps DEF Means
  <2>2. CASE OpensCase(d)
    <3>1. /\ at[d].pay \in Charges /\ payers' \subseteq payers \cup Subs
          /\ SubOfCharge(at[d].pay) \in Subs \cup {None}
      BY <2>1, <2>2, ChargeFacts DEF OpensCase, IsFailure, Means, Introduces
    <3>2. CASE status[at[d].pay] = "absent"
      <4>1. /\ status' = [status EXCEPT ![at[d].pay] = "open"]
            /\ onFile' = [onFile EXCEPT ![at[d].pay] = @ + 1]
        BY <2>2, <3>2 DEF OpensCase, Records
      <4>. QED BY <1>0, <2>1, <3>1, <4>1, FileFrame
    <3>3. CASE status[at[d].pay] # "absent"
      <4>1. UNCHANGED <<status, onFile>> /\ onFile[at[d].pay] > 0
        BY <2>2, <3>1, <3>3 DEF OpensCase, FileInv, CasesOnFile
      <4>. QED BY <1>0, <2>1, <3>1, <4>1, FileFrame
    <3>. QED BY <3>2, <3>3
  <2>3. CASE IgnoresStranger(d)
    BY <1>0, <2>1, <2>3, FileFrame DEF IgnoresStranger, caseVars, rowVars
  <2>4. CASE RepeatsFailure(d)
    <3>1. /\ at[d].pay \in Charges /\ payers' \subseteq payers \cup Subs /\ status' = status
          /\ SubOfCharge(at[d].pay) \in Subs \cup {None}
      BY <2>1, <2>4, ChargeFacts DEF RepeatsFailure, IsFailure, Means, Introduces
    <3>2. CASE at[d].pay \in seen[d]
      <4>1. onFile' = onFile /\ onFile[at[d].pay] > 0
        BY <2>4, <3>1, <3>2 DEF RepeatsFailure, BaseInv, Opened, FileInv, CasesOnFile
      <4>. QED BY <1>0, <2>1, <3>1, <4>1, FileFrame
    <3>3. CASE at[d].pay \notin seen[d]
      <4>1. onFile' = [onFile EXCEPT ![at[d].pay] = @ + 1]
        BY <2>4, <3>3 DEF RepeatsFailure, Records
      <4>. QED BY <1>0, <2>1, <3>1, <4>1, FileFrame
    <3>. QED BY <3>2, <3>3
  <2>5. CASE CreditsPayment(d)
    <3>1. /\ at[d].kind # "payment.failed" /\ UNCHANGED <<onFile, payers>>
          /\ \A c \in Charges : status'[c] # "absent" => status[c] # "absent"
      BY <2>5 DEF CreditsPayment, SuccessKinds, BaseInv, Opened
    <3>. QED BY <1>0, <2>1, <3>1, FileFrame
  <2>6. CASE MarksSubscription(d)
    BY <1>0, <2>1, <2>6, FileFrame DEF MarksSubscription
  <2>. QED BY <1>3, <2>2, <2>3, <2>4, <2>5, <2>6 DEF Finish
<1>. QED BY <1>1, <1>2, <1>3, StepKinds

\* A failure of somebody we know whose envelope is marked is on file, through
\* every race and rollback.
THEOREM NoFailureLost == LifecycleSpec => []EveryFailureIsOnFile
<1>1. FileInv => EveryFailureIsOnFile
  BY DEF FileInv
<1>. QED BY <1>1, BaseInitially, BaseStep, FileInitially, FileStep, PTL DEF LifecycleSpec
-----------------------------------------------------------------------------
(***************************************************************************)
(* A charge is credited once.                                              *)
(***************************************************************************)
\* The lock of the payment's row.
Exclusive ==
  \A d, o \in Dispatchers :
    pc[d] = "read" /\ pc[o] = "read" /\ at[d].pay \in Payments /\ at[o].pay = at[d].pay
      => d = o

Once ==
  \A c, p \in Charges :
    credited[c][p] <= 1 /\ (credited[c][p] > 0 => status[c] \in Closed)

\* Whoever is about to credit a charge is the first to.
Fresh ==
  \A d \in Dispatchers :
    pc[d] = "read" /\ at[d].kind \in SuccessKinds /\ at[d].pay \in Charges =>
      \A c \in seen[d] : credited[c][at[d].pay] = 0

CreditInv == Exclusive /\ Once /\ Fresh

LEMMA CreditInitially == LifecycleInit => CreditInv
BY ChargeFacts DEF LifecycleInit, CreditInv, Exclusive, Once, Fresh

LEMMA CreditFrame ==
  ASSUME BaseInv, CreditInv, credited' = credited,
         \A c \in Charges : status[c] \in Closed => status'[c] \in Closed,
         \A d \in Dispatchers : pc'[d] = "read" =>
           pc[d] = "read" /\ at'[d] = at[d] /\ seen'[d] = seen[d]
  PROVE  CreditInv'
<1>1. Exclusive'
  BY DEF CreditInv, Exclusive
<1>2. Once'
  BY DEF CreditInv, Once
<1>3. Fresh'
  BY DEF CreditInv, Fresh, SuccessKinds
<1>. QED BY <1>1, <1>2, <1>3 DEF CreditInv

\* A charge closes only live cases, and those have not been credited.
LEMMA SelectionIsLive ==
  ASSUME BaseInv, NEW e \in sent, e.kind \in SuccessKinds, e.pay \in Charges,
         NEW S \in SUBSET Charges, Selects(e, S)
  PROVE  \A c \in S : status[c] \in Live
<1>1. Means(e) /\ S = Creditable(e)
  BY DEF BaseInv, Mailed, Selects, SuccessKinds
<1>. QED BY <1>1 DEF Means, Creditable, CasesOfOrder, CasesOfSub, LiveCases

LEMMA CreditStep == BaseInv /\ CreditInv /\ [LifecycleNext]_lifecycleVars => CreditInv'
<1>. SUFFICES ASSUME BaseInv, CreditInv, [LifecycleNext]_lifecycleVars PROVE CreditInv'
  OBVIOUS
<1>0. /\ status \in [Charges -> Live \cup Closed \cup {"absent"}]
      /\ credited \in [Charges -> [Payments -> Nat]]
      /\ seen \in [Dispatchers -> SUBSET Charges] /\ pc \in [Dispatchers -> {"idle", "called", "read"}]
  BY DEF BaseInv, LifecycleTypeOK, Closed
<1>1. CASE Quiet
  BY <1>0, <1>1, CreditFrame DEF Quiet, Live, Closed
<1>2. ASSUME NEW d \in Dispatchers, Read(d) PROVE CreditInv'
  <2>1. /\ at' = at /\ status' = status /\ credited' = credited
        /\ pc' = [pc EXCEPT ![d] = "read"] /\ pc[d] = "called" /\ at[d] \in sent
        /\ \A o \in Dispatchers \ {d} : Held(o) \cap Locks(at[d]) = {}
    BY <1>2 DEF Read, caseVars, BaseInv, LifecycleTypeOK
  <2>2. PICK S \in SUBSET Charges : Selects(at[d], S) /\ seen' = [seen EXCEPT ![d] = S]
    BY <1>2 DEF Read
  <2>3. \A o \in Dispatchers \ {d} :
          pc[o] = "read" /\ at[d].pay \in Payments => at[o].pay # at[d].pay
    <3>. SUFFICES ASSUME NEW o \in Dispatchers \ {d}, pc[o] = "read",
                         at[d].pay \in Payments, at[o].pay = at[d].pay
                  PROVE  FALSE
      OBVIOUS
    <3>1. <<"payment", at[d].pay>> \in Locks(at[d]) /\ <<"payment", at[d].pay>> \in Locks(at[o])
      BY LifecycleAssumption DEF Locks
    <3>2. Held(o) = Locks(at[o])
      BY DEF Held
    <3>. QED BY <2>1, <3>1, <3>2
  <2>4. Exclusive'
    BY <1>0, <2>1, <2>3 DEF CreditInv, Exclusive
  <2>5. Once'
    BY <2>1 DEF CreditInv, Once
  <2>6. at[d].kind \in SuccessKinds /\ at[d].pay \in Charges =>
          \A c \in S : credited[c][at[d].pay] = 0
    <3>. SUFFICES ASSUME at[d].kind \in SuccessKinds, at[d].pay \in Charges, NEW c \in S
                  PROVE  credited[c][at[d].pay] = 0
      OBVIOUS
    <3>1. status[c] \notin Closed
      BY <2>1, <2>2, SelectionIsLive DEF Live, Closed
    <3>. QED BY <1>0, <3>1, ChargeFacts DEF CreditInv, Once
  <2>7. Fresh'
    BY <1>0, <2>1, <2>2, <2>6 DEF CreditInv, Fresh, SuccessKinds
  <2>. QED BY <2>4, <2>5, <2>7 DEF CreditInv
<1>3. ASSUME NEW d \in Dispatchers, Finish(d) PROVE CreditInv'
  <2>. USE <1>3, FinishKeeps
  <2>1. CASE CreditsPayment(d)
    <3>1. /\ at[d].kind \in SuccessKinds /\ at[d].pay \in Payments
          /\ \A c \in Charges : status'[c] = IF c \in seen[d] THEN "recovered" ELSE status[c]
      BY <2>1 DEF CreditsPayment, Means
    <3>2. \A c, p \in Charges :
            credited'[c][p] = IF c \in seen[d] /\ p = at[d].pay
                                THEN credited[c][p] + 1 ELSE credited[c][p]
      BY <1>0, <2>1, ChargeFacts DEF CreditsPayment
    <3>3. Exclusive'
      BY DEF CreditInv, Exclusive
    <3>4. Once'
      BY <1>0, <3>1, <3>2, ChargeFacts DEF CreditInv, Once, Fresh, Closed
    <3>5. Fresh'
      BY <1>0, <3>1, <3>2 DEF CreditInv, Fresh, Exclusive, SuccessKinds
    <3>. QED BY <3>3, <3>4, <3>5 DEF CreditInv
  <2>2. CASE OpensCase(d) \/ IgnoresStranger(d) \/ RepeatsFailure(d) \/ MarksSubscription(d)
    <3>1. credited' = credited /\ \A c \in Charges : status[c] \in Closed => status'[c] \in Closed
      BY <1>0, <2>2 DEF OpensCase, IgnoresStranger, RepeatsFailure, MarksSubscription,
                        caseVars, Closed
    <3>. QED BY <3>1, CreditFrame
  <2>. QED BY <2>1, <2>2 DEF Finish
<1>. QED BY <1>1, <1>2, <1>3, StepKinds

\* However many handlers the two events of a success are in the hands of, the
\* charge is credited to a case once.
THEOREM ChargeCreditedOnce == LifecycleSpec => []CreditedOnce
<1>1. CreditInv => CreditedOnce
  BY DEF CreditInv, Once, CreditedOnce
<1>. QED BY <1>1, BaseInitially, BaseStep, CreditInitially, CreditStep, PTL DEF LifecycleSpec
-----------------------------------------------------------------------------
(***************************************************************************)
(* One debt, one case.  A failure that found no case of its invoice still  *)
(* would when it opens one, unless another that found none either was in   *)
(* hand at the same time: nothing is locked in between.                    *)
(***************************************************************************)
FoundNone ==
  \A d \in Dispatchers :
    IsFailure(d) /\ seen[d] = {} =>
      CasesOfInvoice(at[d].pay) = {} \/ DebtOf[at[d].pay] \in raced

Together ==
  \A d, o \in Dispatchers :
    (/\ d # o /\ IsFailure(d) /\ seen[d] = {} /\ IsFailure(o) /\ seen[o] = {}
     /\ DebtOf[at[d].pay] = DebtOf[at[o].pay])
      => DebtOf[at[d].pay] \in raced

DebtInv == OneCasePerInvoice /\ FoundNone /\ Together

LEMMA DebtInitially == LifecycleInit => DebtInv
BY DEF LifecycleInit, DebtInv, OneCasePerInvoice, FoundNone, Together, IsFailure,
       LiveCases, Live

\* A step that opens no case and brings no handler to where it has selected.
LEMMA DebtFrame ==
  ASSUME DebtInv, LiveCases' \subseteq LiveCases, raced' = raced,
         \A d \in Dispatchers : pc'[d] = "read" =>
           pc[d] = "read" /\ at'[d] = at[d] /\ seen'[d] = seen[d]
  PROVE  DebtInv'
<1>1. OneCasePerInvoice'
  BY DEF DebtInv, OneCasePerInvoice, SubOfCharge
<1>2. \A p : CasesOfInvoice(p) = {} => CasesOfInvoice(p)' = {}
  BY DEF CasesOfInvoice, SubOfCharge
<1>3. FoundNone'
  BY <1>2 DEF DebtInv, FoundNone, IsFailure
<1>4. Together'
  BY DEF DebtInv, Together, IsFailure
<1>. QED BY <1>1, <1>3, <1>4 DEF DebtInv

LEMMA DebtOpened ==
  ASSUME BaseInv, DebtInv, NEW d \in Dispatchers, OpensCase(d)
  PROVE  DebtInv'
<1>. DEFINE p == at[d].pay
<1>1. IsFailure(d) /\ seen[d] = {} /\ p \in Charges /\ raced' = raced
  BY FinishKeeps DEF OpensCase, IsFailure, Finish, Means, Commits
<1>2. \A o \in Dispatchers : IsFailure(o)' =>
        o # d /\ IsFailure(o) /\ at'[o] = at[o] /\ seen'[o] = seen[o]
  BY FinishKeeps DEF Finish, IsFailure
<1>3. LiveCases' \subseteq LiveCases \cup {p}
  BY <1>1 DEF OpensCase, LiveCases, Live, BaseInv, LifecycleTypeOK
<1>4. CasesOfInvoice(p) = {} \/ DebtOf[p] \in raced
  BY <1>1 DEF DebtInv, FoundNone
<1>5. ASSUME NEW c \in LiveCases', NEW b \in LiveCases',
             DebtOf[c] = DebtOf[b], SubOfCharge(c) # None, c # b
      PROVE  DebtOf[c] \in raced
  <2>1. SubOfCharge(b) = SubOfCharge(c)
    BY <1>5 DEF SubOfCharge
  <2>2. CASE c \in LiveCases /\ b \in LiveCases
    BY <1>5, <2>2 DEF DebtInv, OneCasePerInvoice
  <2>3. CASE c = p \/ b = p
    <3>1. CasesOfInvoice(p) # {}
      BY <1>3, <1>5, <2>1, <2>3 DEF CasesOfInvoice
    <3>. QED BY <1>4, <1>5, <2>3, <3>1
  <2>. QED BY <1>3, <2>2, <2>3
<1>6. OneCasePerInvoice'
  <2>. SUFFICES ASSUME NEW c \in LiveCases', NEW b \in LiveCases',
                       DebtOf[c] = DebtOf[b], SubOfCharge(c) # None
                PROVE  c = b \/ DebtOf[c] \in raced'
    BY DEF OneCasePerInvoice, SubOfCharge
  <2>. QED BY <1>1, <1>5
<1>7. ASSUME NEW o \in Dispatchers, IsFailure(o)', seen'[o] = {}
      PROVE  (CasesOfInvoice(at[o].pay) = {} \/ DebtOf[at[o].pay] \in raced)'
  <2>1. o # d /\ IsFailure(o) /\ at'[o] = at[o] /\ seen[o] = {}
    BY <1>2, <1>7
  <2>2. CASE DebtOf[at[o].pay] = DebtOf[p]
    BY <1>1, <2>1, <2>2 DEF DebtInv, Together
  <2>3. CASE DebtOf[at[o].pay] # DebtOf[p]
    <3>1. \A q : DebtOf[q] # DebtOf[p] => CasesOfInvoice(q)' \subseteq CasesOfInvoice(q)
      BY <1>3 DEF CasesOfInvoice, SubOfCharge
    <3>. QED BY <1>1, <2>1, <2>3, <3>1 DEF DebtInv, FoundNone
  <2>. QED BY <2>2, <2>3
<1>8. FoundNone'
  BY <1>7 DEF FoundNone
<1>9. Together'
  BY <1>1, <1>2 DEF DebtInv, Together
<1>. QED BY <1>6, <1>8, <1>9 DEF DebtInv

LEMMA DebtRead ==
  ASSUME BaseInv, DebtInv, NEW d \in Dispatchers, Read(d) PROVE DebtInv'
<1>. USE DEF caseVars
<1>1. /\ UNCHANGED <<status, at>> /\ pc' = [pc EXCEPT ![d] = "read"] /\ pc[d] = "called"
      /\ pc \in [Dispatchers -> {"idle", "called", "read"}]
      /\ seen \in [Dispatchers -> SUBSET Charges]
  BY DEF Read, BaseInv, LifecycleTypeOK
<1>2. PICK S \in SUBSET Charges :
        /\ Selects(at[d], S) /\ seen' = [seen EXCEPT ![d] = S]
        /\ raced' = raced \cup (IF Races(d, S) THEN {DebtOf[at[d].pay]} ELSE {})
  BY DEF Read
<1>3. /\ seen'[d] = S
      /\ \A o \in Dispatchers : o # d => /\ seen'[o] = seen[o]
                                         /\ IsFailure(o)' <=> IsFailure(o)
      /\ IsFailure(d)' => at[d].kind = "payment.failed"
  BY <1>1, <1>2 DEF IsFailure
<1>4. at[d].kind = "payment.failed" /\ S = {} => CasesOfInvoice(at[d].pay) = {}
  BY <1>2 DEF Selects
<1>5. /\ LiveCases' = LiveCases /\ \A p : CasesOfInvoice(p)' = CasesOfInvoice(p)
      /\ raced \subseteq raced'
  BY <1>1, <1>2 DEF CasesOfInvoice, LiveCases, SubOfCharge
<1>6. OneCasePerInvoice'
  BY <1>5 DEF DebtInv, OneCasePerInvoice, SubOfCharge
<1>7. FoundNone'
  BY <1>1, <1>3, <1>4, <1>5 DEF DebtInv, FoundNone
<1>8. ASSUME NEW o \in Dispatchers, o # d, IsFailure(d)', S = {},
             IsFailure(o), seen[o] = {}, DebtOf[at[o].pay] = DebtOf[at[d].pay]
      PROVE  DebtOf[at[d].pay] \in raced'
  BY <1>2, <1>3, <1>8 DEF Races, Rivals
<1>9. Together'
  BY <1>1, <1>3, <1>5, <1>8 DEF DebtInv, Together
<1>. QED BY <1>6, <1>7, <1>9 DEF DebtInv

LEMMA DebtStep == BaseInv /\ DebtInv /\ [LifecycleNext]_lifecycleVars => DebtInv'
<1>. SUFFICES ASSUME BaseInv, DebtInv, [LifecycleNext]_lifecycleVars PROVE DebtInv'
  OBVIOUS
<1>1. CASE Quiet
  <2>1. LiveCases' \subseteq LiveCases
    BY <1>1 DEF Quiet, LiveCases, Live
  <2>. QED BY <1>1, <2>1, DebtFrame DEF Quiet
<1>2. ASSUME NEW d \in Dispatchers, Finish(d), ~OpensCase(d) PROVE DebtInv'
  <2>1. LiveCases' \subseteq LiveCases /\ raced' = raced
    BY <1>2 DEF Finish, IgnoresStranger, RepeatsFailure, CreditsPayment,
                MarksSubscription, Commits, caseVars, LiveCases, Live
  <2>. QED BY <1>2, <2>1, FinishKeeps, DebtFrame
<1>. QED BY <1>1, <1>2, DebtRead, DebtOpened, StepKinds DEF Finish

\* "One debt, one case", for any number of dispatchers: a second case of an
\* invoice is opened only by failures whose handlers had both selected before
\* either committed, whatever else arrives, fails or is retried meanwhile.
THEOREM OneCaseUnlessRaced == LifecycleSpec => []OneCasePerInvoice
<1>1. DebtInv => OneCasePerInvoice
  BY DEF DebtInv
<1>. QED BY <1>1, BaseInitially, BaseStep, DebtInitially, DebtStep, PTL DEF LifecycleSpec
-----------------------------------------------------------------------------
(***************************************************************************)
(* The book.  A handler of a failure has selected a case of the same debt. *)
(***************************************************************************)
SameDebt ==
  \A d \in Dispatchers : pc[d] = "read" /\ at[d].kind = "payment.failed" =>
    \A c \in seen[d] : DebtOf[c] = DebtOf[at[d].pay]

BookInv == BaseInv /\ MoneyInv /\ CreditInv /\ SameDebt

LEMMA SameDebtFrame ==
  ASSUME SameDebt,
         \A d \in Dispatchers : pc'[d] = "read" =>
           pc[d] = "read" /\ at'[d] = at[d] /\ seen'[d] = seen[d]
  PROVE  SameDebt'
BY DEF SameDebt

LEMMA SameDebtStep == BaseInv /\ SameDebt /\ [LifecycleNext]_lifecycleVars => SameDebt'
<1>. SUFFICES ASSUME BaseInv, SameDebt, [LifecycleNext]_lifecycleVars PROVE SameDebt'
  OBVIOUS
<1>1. CASE Quiet
  BY <1>1, SameDebtFrame DEF Quiet
<1>2. ASSUME NEW d \in Dispatchers, Read(d) PROVE SameDebt'
  <2>1. PICK S \in SUBSET Charges : Selects(at[d], S) /\ seen' = [seen EXCEPT ![d] = S]
    BY <1>2 DEF Read
  <2>2. at' = at /\ pc' = [pc EXCEPT ![d] = "read"]
    BY <1>2 DEF Read
  <2>3. at[d].kind = "payment.failed" => \A c \in S : DebtOf[c] = DebtOf[at[d].pay]
    BY <2>1 DEF Selects, CasesOfInvoice
  <2>. QED BY <2>1, <2>2, <2>3 DEF SameDebt, BaseInv, LifecycleTypeOK
<1>3. ASSUME NEW d \in Dispatchers, Finish(d) PROVE SameDebt'
  BY <1>3, FinishKeeps, SameDebtFrame
<1>. QED BY <1>1, <1>2, <1>3, StepKinds

LEMMA BookHolds == LifecycleSpec => []BookInv
<1>1. LifecycleInit => BookInv
  BY BaseInitially, MoneyInitially, CreditInitially DEF BookInv, SameDebt, LifecycleInit
<1>2. BookInv /\ [LifecycleNext]_lifecycleVars => BookInv'
  BY BaseStep, MoneyStep, CreditStep, SameDebtStep DEF BookInv
<1>. QED BY <1>1, <1>2, PTL DEF LifecycleSpec

BookStep == Booked!BookNext \/ UNCHANGED <<bookBar, worthBar, by, onFile, credited>>

LEMMA BookValues ==
  ASSUME BaseInv, NEW c \in Charges
  PROVE  /\ bookBar[c] = BookOf(c)
         /\ BookOf(c) = "absent" <=> status[c] = "absent"
         /\ BookOf(c) = "live" <=> status[c] \in Live
         /\ BookOf(c) = "lost" <=> status[c] \in {"declined", "stopped"}
         /\ BookOf(c) = "recovered" <=> status[c] = "recovered"
BY DEF BaseInv, LifecycleTypeOK, bookBar, BookOf, Live

LEMMA BookFrame ==
  ASSUME UNCHANGED <<bank, linkOf>> PROVE worthBar' = worthBar
BY DEF worthBar, PaysFor, SubOfCharge

\* Money that comes in: what is paid for did not count as paid before.
LEMMA BookPays ==
  ASSUME BookInv, NEW p \in Payments, bank[p] = "none",
         UNCHANGED <<caseVars>>, bank' = [bank EXCEPT ![p] = "captured"],
         \A q \in LinkPayments \ {p} : linkOf'[q] = linkOf[q]
  PROVE  BookStep
<1>. DEFINE S == {c \in Charges : PaysFor(p, c)'}
<1>1. bookBar' = bookBar
  BY DEF caseVars, bookBar, BookOf
<1>2. worthBar[p] = {}
  BY DEF worthBar
<1>3. worthBar' = [worthBar EXCEPT ![p] = S]
  <2>1. \A q \in Payments : bank'[q] = "captured" <=> q = p \/ bank[q] = "captured"
    BY DEF BookInv, BaseInv, LifecycleTypeOK
  <2>2. \A q \in Payments \ {p}, c \in Charges : PaysFor(q, c)' = PaysFor(q, c)
    BY DEF PaysFor, SubOfCharge
  <2>. DEFINE Worth(q) == {c \in Charges : bank[q] = "captured" /\ PaysFor(q, c)}
  <2>3. worthBar = [q \in Payments |-> Worth(q)] /\ worthBar' = [q \in Payments |-> Worth(q)']
    BY DEF worthBar
  <2>4. Worth(p)' = S
    BY <2>1
  <2>5. \A q \in Payments \ {p} : Worth(q)' = Worth(q)
    BY <2>1, <2>2
  <2>. HIDE DEF Worth, S
  <2>. QED BY <2>3, <2>4, <2>5
<1>4. Booked!Pays(p, S)
  BY <1>1, <1>2, <1>3 DEF Booked!Pays, caseVars
<1>. QED BY <1>4 DEF BookStep, Booked!BookNext, Payments

LEMMA BookOutside == ASSUME BookInv, Outside PROVE BookStep
<1>0. LifecycleTypeOK
  BY DEF BookInv, BaseInv
<1>1. ASSUME NEW p \in Charges, ChargeFails(p) PROVE BookStep
  <2>1. /\ UNCHANGED <<caseVars, linkOf>> /\ bank[p] = "none"
        /\ bank' = [bank EXCEPT ![p] = "failed"]
    BY <1>1 DEF ChargeFails, ChargeEnds
  <2>2. bookBar' = bookBar
    BY <2>1 DEF caseVars, bookBar, BookOf
  <2>3. worthBar' = worthBar
    <3>1. \A q \in Payments : bank'[q] = "captured" <=> bank[q] = "captured"
      BY <1>0, <2>1 DEF LifecycleTypeOK
    <3>2. \A q, c : PaysFor(q, c)' = PaysFor(q, c)
      BY <2>1 DEF PaysFor, SubOfCharge
    <3>. QED BY <3>1, <3>2 DEF worthBar
  <2>. QED BY <2>1, <2>2, <2>3 DEF caseVars, BookStep
<1>2. ASSUME NEW p \in Charges, ChargeSucceeds(p) PROVE BookStep
  BY <1>2, BookPays, ChargeFacts DEF ChargeSucceeds, ChargeEnds
<1>3. ASSUME NEW p \in LinkPayments, NEW c \in Charges, LinkIsPaid(p, c) PROVE BookStep
  BY <1>0, <1>3, BookPays DEF LinkIsPaid, LifecycleTypeOK, Payments
<1>4. CASE \E s \in Halting, kind \in {"subscription.pending", "subscription.halted"} :
             SubscriptionFails(s, kind)
  <2>1. UNCHANGED <<bank, linkOf, caseVars>>
    BY <1>4 DEF SubscriptionFails
  <2>2. bookBar' = bookBar
    BY <2>1 DEF caseVars, bookBar, BookOf
  <2>. QED BY <2>1, <2>2, BookFrame DEF caseVars, BookStep
<1>5. ASSUME NEW c \in Charges, Ring(c) \/ Stop(c) \/ Refuse(c) \/ HangUp(c) PROVE BookStep
  <2>1. status[c] # "absent"
    BY <1>5 DEF Ring, Stop, Refuse, HangUp, BookInv, BaseInv, Opened, Live
  <2>2. PICK new : /\ SetsStatus(c, new)
                   /\ \/ new = status[c]
                      \/ status[c] \in Live /\ new = "in_progress"
                      \/ new \in {"declined", "stopped"}
    BY <1>5 DEF Ring, Stop, Refuse, HangUp
  <2>3. UNCHANGED <<by, onFile, credited>> /\ worthBar' = worthBar
    BY <2>2, BookFrame DEF SetsStatus, outsideVars
  <2>4. CASE new \in {"declined", "stopped"}
    <3>1. \A b \in Charges : BookOf(b)' = IF b = c THEN "lost" ELSE BookOf(b)
      BY <1>0, <2>2, <2>4 DEF SetsStatus, LifecycleTypeOK, BookOf, Live
    <3>2. bookBar' = [bookBar EXCEPT ![c] = "lost"]
      BY <3>1 DEF bookBar
    <3>3. bookBar[c] # "absent"
      BY <2>1, BookValues DEF BookInv
    <3>4. Booked!Loses(c)
      BY <2>3, <3>2, <3>3 DEF Booked!Loses
    <3>. QED BY <3>4 DEF BookStep, Booked!BookNext
  <2>5. CASE new \notin {"declined", "stopped"}
    <3>1. \A b \in Charges : BookOf(b)' = BookOf(b)
      BY <1>0, <2>2, <2>5 DEF SetsStatus, LifecycleTypeOK, BookOf, Live
    <3>2. bookBar' = bookBar
      BY <3>1 DEF bookBar
    <3>. QED BY <2>3, <3>2 DEF BookStep
  <2>. QED BY <2>4, <2>5
<1>. QED BY <1>1, <1>2, <1>3, <1>4, <1>5 DEF Outside

LEMMA BookFinish ==
  ASSUME BookInv, NEW d \in Dispatchers, Finish(d) PROVE BookStep
<1>. DEFINE p == at[d].pay
<1>0. /\ LifecycleTypeOK /\ BaseInv
      /\ pc[d] = "read" /\ Means(at[d]) /\ UNCHANGED outsideVars
      /\ \A c \in seen[d] : c \in Charges /\ status[c] # "absent"
  BY FinishKeeps DEF BookInv, BaseInv, LifecycleTypeOK, Opened
<1>1. worthBar' = worthBar
  BY <1>0, BookFrame DEF outsideVars
<1>2. status' = status => bookBar' = bookBar
  BY DEF bookBar, BookOf
<1>3. CASE OpensCase(d)
  <2>1. p \in Charges /\ UNCHANGED <<by, credited>>
    BY <1>0, <1>3 DEF OpensCase, IsFailure, Means
  <2>2. CASE status[p] = "absent"
    <3>1. status' = [status EXCEPT ![p] = "open"] /\ onFile' = [onFile EXCEPT ![p] = @ + 1]
      BY <1>3, <2>2 DEF OpensCase, Records
    <3>2. \A c \in Charges : BookOf(c)' = IF c = p THEN "live" ELSE BookOf(c)
      BY <1>0, <3>1 DEF LifecycleTypeOK, BookOf, Live
    <3>3. bookBar' = [bookBar EXCEPT ![p] = "live"]
      BY <3>2 DEF bookBar
    <3>4. bookBar[p] = "absent"
      BY <1>0, <2>1, <2>2, BookValues
    <3>5. Booked!Opens(p)
      BY <1>1, <2>1, <3>1, <3>3, <3>4 DEF Booked!Opens, Booked!Files
    <3>. QED BY <2>1, <3>5 DEF BookStep, Booked!BookNext
  <2>3. CASE status[p] # "absent"
    BY <1>1, <1>2, <1>3, <2>1, <2>3 DEF OpensCase, BookStep
  <2>. QED BY <2>2, <2>3
<1>4. CASE IgnoresStranger(d) \/ MarksSubscription(d)
  BY <1>1, <1>2, <1>4 DEF IgnoresStranger, MarksSubscription, caseVars, BookStep
<1>5. CASE RepeatsFailure(d)
  <2>1. p \in Charges /\ UNCHANGED <<by, credited, status>> /\ seen[d] # {}
    BY <1>0, <1>5 DEF RepeatsFailure, IsFailure, Means
  <2>2. CASE p \in seen[d]
    BY <1>1, <1>2, <1>5, <2>1, <2>2 DEF RepeatsFailure, BookStep
  <2>3. CASE p \notin seen[d]
    <3>1. PICK c \in seen[d] : c \in Charges \ {p} /\ DebtOf[c] = DebtOf[p]
      BY <1>0, <1>5, <2>1, <2>3 DEF RepeatsFailure, IsFailure, BookInv, SameDebt
    <3>2. bookBar[c] # "absent"
      BY <1>0, <3>1, BookValues
    <3>3. onFile' = [onFile EXCEPT ![p] = @ + 1]
      BY <1>5, <2>3 DEF RepeatsFailure, Records
    <3>4. Booked!Repeats(p)
      BY <1>1, <1>2, <2>1, <3>1, <3>2, <3>3 DEF Booked!Repeats, Booked!Files
    <3>. QED BY <2>1, <3>4 DEF BookStep, Booked!BookNext
  <2>. QED BY <2>2, <2>3
<1>6. CASE CreditsPayment(d)
  <2>. DEFINE S == seen[d]
  <2>1. /\ p \in Payments /\ bank[p] = "captured" /\ at[d].kind \in SuccessKinds
        /\ S \in SUBSET Charges /\ onFile' = onFile
        /\ status' = [c \in Charges |-> IF c \in S THEN "recovered" ELSE status[c]]
        /\ by' = [c \in Charges |-> IF c \in S THEN p ELSE by[c]]
        /\ credited' = [c \in Charges |->
             IF c \in S THEN [credited[c] EXCEPT ![p] = @ + 1] ELSE credited[c]]
    BY <1>0, <1>6 DEF CreditsPayment, Means
  <2>2. S \in SUBSET worthBar[p]
    BY <1>0, <2>1 DEF worthBar, BookInv, MoneyInv, Grasped
  <2>3. \A c \in S : bookBar[c] # "absent" /\ (p \in Charges => credited[c][p] = 0)
    BY <1>0, <2>1, BookValues DEF BookInv, CreditInv, Fresh
  <2>4. bookBar' = [c \in Charges |-> IF c \in S THEN "recovered" ELSE bookBar[c]]
    <3>1. \A c \in Charges : BookOf(c)' = IF c \in S THEN "recovered" ELSE BookOf(c)
      BY <2>1 DEF BookOf, Live
    <3>. QED BY <3>1 DEF bookBar
  <2>. HIDE DEF S
  <2>5. Booked!Credits(p, S)
    BY <1>1, <2>1, <2>3, <2>4 DEF Booked!Credits
  <2>. QED BY <2>1, <2>2, <2>5 DEF BookStep, Booked!BookNext, Payments
<1>. QED BY <1>3, <1>4, <1>5, <1>6 DEF Finish

\* Whatever dispatchers, workers and calls overlap, each step of the handlers is
\* an entry in the book or none: no closed case comes back to life, a failure
\* is filed with its own debt, only money for a case recovers it, a charge is
\* entered on it once, and nothing is unwritten.
THEOREM LifecycleImplementsBook == LifecycleSpec => ImplementsBook
<1>1. LifecycleInit => Booked!BookInit
  <2>. SUFFICES ASSUME LifecycleInit PROVE Booked!BookInit
    OBVIOUS
  <2>1. bookBar = [c \in Charges |-> "absent"]
    BY DEF LifecycleInit, bookBar, BookOf, Live
  <2>2. worthBar = [p \in Payments |-> {}]
    BY DEF LifecycleInit, worthBar
  <2>. QED BY <2>1, <2>2 DEF Booked!BookInit, LifecycleInit, Payments
<1>2. BookInv /\ [LifecycleNext]_lifecycleVars
        => [Booked!BookNext]_<<bookBar, worthBar, by, onFile, credited>>
  <2>. SUFFICES ASSUME BookInv, [LifecycleNext]_lifecycleVars PROVE BookStep
    BY DEF BookStep
  <2>1. UNCHANGED <<status, by, onFile, credited, bank, linkOf>> => BookStep
    BY BookFrame DEF BookStep, bookBar, BookOf
  <2>2. ASSUME NEW d \in Dispatchers, (\E e \in sent : Call(d, e)) \/ Read(d) \/ GivesUp(d)
        PROVE  BookStep
    BY <2>1, <2>2 DEF Call, Read, GivesUp, outsideVars, caseVars
  <2>3. CASE UNCHANGED lifecycleVars
    BY <2>1, <2>3 DEF lifecycleVars, outsideVars, caseVars
  <2>. QED BY <2>2, <2>3, BookOutside, BookFinish DEF LifecycleNext
<1>. QED BY <1>1, <1>2, BookHolds, PTL DEF LifecycleSpec, ImplementsBook, Booked!BookSpec, Booked!bookVars
=============================================================================
