---------------------------- MODULE CaseLifecycle ----------------------------
(***************************************************************************)
(* The webhook handlers over recovery cases: Razorpay's payments succeed   *)
(* or fail, its events reach process_event in any order and on several     *)
(* dispatchers at once, workers ring customers, calls end.                 *)
(*                                                                         *)
(* A handler is one READ COMMITTED transaction of three steps: it is       *)
(* called (having read processed_at) and asks Razorpay what it needs; it   *)
(* upserts, which locks rows until it ends, and selects cases; it writes   *)
(* what it decided on and commits.  A case is named by the failed payment  *)
(* that opened it, razorpay_payment_id being unique.                       *)
(***************************************************************************)
EXTENDS Naturals, FiniteSets

CONSTANTS Charges,      \* attempts to charge a debt
          LinkPayments, \* payments made through a recovery link
          Debts,        \* invoices of subscriptions, and orders of checkouts
          Subs,         \* subscriptions
          None,         \* no subscription, no payment, no case, no event
          Halting,      \* bound: subscriptions that may go pending, then halted
          DebtOf,       \* what an attempt is meant to pay
          SubOf,        \* the subscription of a debt; None for a checkout
          Dispatchers,  \* concurrent calls of process_event
          MaxGiveUps    \* bound: handlers that raise or die

Payments == Charges \cup LinkPayments

Checkouts == {d \in Debts : SubOf[d] = None}

ASSUME LifecycleAssumption ==
  /\ Charges \cap LinkPayments = {} /\ None \notin Payments \cup Subs
  /\ DebtOf \in [Charges -> Debts] /\ SubOf \in [Debts -> Subs \cup {None}]
  /\ Halting \subseteq Subs /\ Debts \cap Subs = {} /\ MaxGiveUps \in Nat

VARIABLES
  bank,          \* Razorpay: how each payment ended
  linkOf,        \* Razorpay: the case a link payment was made for
  sent, done,    \* webhook events: stored, and those with processed_at set
  status, by,    \* recovery_cases: status and recovered_payment_id
  halted,        \* ... those with halted_at set
  onFile,        \* audit: rows that record the failure of payment p
  credited,      \* audit: rows that credit payment p to case c
  subscriptions, \* rows of subscriptions
  payers,        \* rows of customers: whose subscription, or whose checkout
  onCall,        \* cases whose customer is on the phone
  pc, at, seen,  \* dispatchers: where they stand, their event, cases selected
  giveUps,       \* how much of MaxGiveUps is spent
  raced          \* history: debts of which two handlers found no case at once

outsideVars  == <<bank, linkOf, sent>>
caseVars     == <<status, by, halted, onFile, credited>>
rowVars      == <<subscriptions, payers>>
dispatchVars == <<done, pc, at, seen, giveUps, raced>>
lifecycleVars == <<outsideVars, caseVars, rowVars, dispatchVars, onCall>>

Live == {"open", "in_progress"}

LiveCases == {c \in Charges : status[c] \in Live}

SubOfCharge(p) == SubOf[DebtOf[p]]

MutantMatchesNoSub(s) == {c \in LiveCases : s = None \/ SubOfCharge(c) = s}

MutantOpenOnly(s) == {c \in Charges : status[c] = "open" /\ s # None /\ SubOfCharge(c) = s}

\* get_open_cases_for_subscription.
CasesOfSub(s) == {c \in LiveCases : s # None /\ SubOfCharge(c) = s}

Event(kind, p, s, c) == [kind |-> kind, pay |-> p, sub |-> s, case |-> c]

LifecycleInit ==
  /\ subscriptions \in SUBSET Subs /\ payers \in SUBSET (Subs \cup Checkouts)
  /\ bank = [p \in Payments |-> "none"]
  /\ linkOf = [p \in LinkPayments |-> None]
  /\ sent = {} /\ done = {}
  /\ status = [c \in Charges |-> "absent"]
  /\ by = [c \in Charges |-> None] /\ halted = {}
  /\ onFile = [p \in Charges |-> 0]
  /\ credited = [c \in Charges |-> [p \in Payments |-> 0]]
  /\ onCall = {}
  /\ pc = [d \in Dispatchers |-> "idle"] /\ at = [d \in Dispatchers |-> None]
  /\ seen = [d \in Dispatchers |-> {}] /\ giveUps = 0 /\ raced = {}
-----------------------------------------------------------------------------
(***************************************************************************)
(* Razorpay.  A debt that is paid is not charged again; a recovery link    *)
(* can be paid whatever has become of its case.                            *)
(***************************************************************************)
Unpaid(p) == \A q \in Charges : DebtOf[q] = DebtOf[p] => bank[q] # "captured"

ChargeEnds(p, end) ==
  /\ bank[p] = "none" /\ Unpaid(p) /\ bank' = [bank EXCEPT ![p] = end]
  /\ UNCHANGED <<linkOf, caseVars, rowVars, dispatchVars, onCall>>

ChargeFails(p) ==
  /\ ChargeEnds(p, "failed")
  /\ sent' = sent \cup {Event("payment.failed", p, SubOfCharge(p), None)}

SuccessKind(p) == IF SubOfCharge(p) = None THEN "order.paid" ELSE "subscription.charged"

ChargeSucceeds(p) ==
  /\ ChargeEnds(p, "captured")
  /\ sent' = sent \cup {Event("payment.captured", p, SubOfCharge(p), None),
                        Event(SuccessKind(p), p, SubOfCharge(p), None)}

\* The note that names the case may be lost on the way to the payment entity.
LinkIsPaid(p, c) ==
  /\ bank[p] = "none" /\ status[c] # "absent"
  /\ bank' = [bank EXCEPT ![p] = "captured"]
  /\ linkOf' = [linkOf EXCEPT ![p] = c]
  /\ \E note \in {c, None} :
       sent' = sent \cup {Event("payment.captured", p, None, note),
                          Event("payment_link.paid", p, None, c)}
  /\ UNCHANGED <<caseVars, rowVars, dispatchVars, onCall>>

\* A failed charge leaves its subscription pending, and halted after the last.
SubscriptionFails(s, kind) ==
  /\ IF kind = "subscription.pending"
       THEN \E p \in Charges : bank[p] = "failed" /\ SubOfCharge(p) = s
       ELSE Event("subscription.pending", None, s, None) \in sent
  /\ sent' = sent \cup {Event(kind, None, s, None)}
  /\ UNCHANGED <<bank, linkOf, caseVars, rowVars, dispatchVars, onCall>>

(***************************************************************************)
(* Workers and calls.  finalise_call writes its outcome whatever the case  *)
(* has become meanwhile.                                                   *)
(***************************************************************************)
SetsStatus(c, new) ==
  /\ status' = [status EXCEPT ![c] = new]
  /\ UNCHANGED <<outsideVars, by, halted, onFile, credited, rowVars, dispatchVars>>

Ring(c) ==
  status[c] \in Live /\ SetsStatus(c, "in_progress") /\ onCall' = onCall \cup {c}

Stop(c) == status[c] \in Live /\ SetsStatus(c, "stopped") /\ UNCHANGED onCall

Refuse(c) ==
  /\ c \in onCall /\ onCall' = onCall \ {c}
  /\ SetsStatus(c, "declined") \/ SetsStatus(c, "stopped")

HangUp(c) ==
  c \in onCall /\ SetsStatus(c, status[c]) /\ onCall' = onCall \ {c}
-----------------------------------------------------------------------------
(***************************************************************************)
(* The handlers.                                                           *)
(***************************************************************************)
\* process_event: processed_at is read here, and not again.
Call(d, e) ==
  /\ pc[d] = "idle" /\ e \in sent \ done
  /\ pc' = [pc EXCEPT ![d] = "called"] /\ at' = [at EXCEPT ![d] = e]
  /\ UNCHANGED <<outsideVars, caseVars, rowVars, done, seen, giveUps, raced, onCall>>

UpsertsSubscription(e) ==
  \/ e.kind \in {"subscription.charged", "subscription.pending", "subscription.halted"}
  \/ e.kind = "payment.failed" /\ e.sub \notin subscriptions \cup {None}

UpsertsCustomer(e) ==
  e.kind = "payment.failed" /\ e.sub \notin payers \cup {None}

MutantLocksNothing(e) == {}

\* Rows an event's upserts lock until the transaction ends.  A failure inserts
\* the customer and the subscription only if it finds none.
Locks(e) ==
  (IF e.pay = None THEN {} ELSE {<<"payment", e.pay>>})
  \cup (IF UpsertsSubscription(e) THEN {<<"subscription", e.sub>>} ELSE {})
  \cup (IF UpsertsCustomer(e) THEN {<<"customer", e.sub>>} ELSE {})

Held(d) == IF pc[d] = "read" THEN Locks(at[d]) ELSE {}

MutantIgnoresInvoice(p) == LiveCases \cap {p}

\* get_open_case_for_invoice's candidates; a checkout has no invoice.
CasesOfInvoice(p) ==
  IF SubOfCharge(p) = None THEN {} ELSE {c \in LiveCases : DebtOf[c] = DebtOf[p]}

CasesOfOrder(p) == {c \in LiveCases : SubOfCharge(c) = None /\ DebtOf[c] = DebtOf[p]}

\* What a successful payment closes; by id, a case is found whatever its status.
Creditable(e) ==
  CASE e.case # None -> {e.case} \cap {c \in Charges : status[c] # "recovered"}
    [] e.case = None /\ e.kind = "order.paid" -> CasesOfOrder(e.pay)
    [] OTHER -> CasesOfSub(e.sub)

\* The oldest candidate is the one found; which one that is stays open.
Selects(e, S) ==
  IF e.kind = "payment.failed"
    THEN IF CasesOfInvoice(e.pay) = {} THEN S = {}
         ELSE \E c \in CasesOfInvoice(e.pay) : S = {c}
    ELSE S = Creditable(e)

IsFailure(d) == pc[d] = "read" /\ at[d].kind = "payment.failed"

\* Handlers that found no case of the debt of p either, and have yet to commit.
Rivals(p) ==
  {o \in Dispatchers : IsFailure(o) /\ seen[o] = {} /\ DebtOf[at[o].pay] = DebtOf[p]}

Races(d, S) == at[d].kind = "payment.failed" /\ S = {} /\ Rivals(at[d].pay) # {}

Read(d) ==
  /\ pc[d] = "called"
  /\ \A o \in Dispatchers \ {d} : Held(o) \cap Locks(at[d]) = {}
  /\ \E S \in SUBSET Charges :
       /\ Selects(at[d], S) /\ seen' = [seen EXCEPT ![d] = S]
       /\ raced' = raced \cup (IF Races(d, S) THEN {DebtOf[at[d].pay]} ELSE {})
  /\ pc' = [pc EXCEPT ![d] = "read"]
  /\ UNCHANGED <<outsideVars, caseVars, rowVars, done, at, giveUps, onCall>>

Ends(d) ==
  /\ pc' = [pc EXCEPT ![d] = "idle"] /\ at' = [at EXCEPT ![d] = None]
  /\ seen' = [seen EXCEPT ![d] = {}]

Commits(d) ==
  /\ pc[d] = "read" /\ Ends(d) /\ done' = done \cup {at[d]}
  /\ UNCHANGED <<outsideVars, giveUps, raced, onCall>>

\* _match_known_customer: a checkout's payer is one of our customers.
Known(p) == SubOfCharge(p) # None \/ DebtOf[p] \in payers

MutantIntroducesNobody(s) ==
  subscriptions' = subscriptions \cup {s} /\ payers' = payers \cup {s}

\* The rows _ensure_customer and _ensure_subscription leave behind.
Introduces(s) ==
  /\ subscriptions' = subscriptions \cup ({s} \ {None})
  /\ payers' = payers \cup ({s} \ {None})

MutantNoRecord(p) == UNCHANGED onFile

Records(p) == onFile' = [onFile EXCEPT ![p] = @ + 1]

\* handle_payment_failed and _open_checkout_case: a case for this failure, by
\* an insert that does nothing on conflict.
OpensCase(d) ==
  LET p == at[d].pay
  IN /\ IsFailure(d) /\ seen[d] = {} /\ Known(p)
     /\ IF status[p] = "absent"
          THEN status' = [status EXCEPT ![p] = "open"] /\ Records(p)
          ELSE UNCHANGED <<status, onFile>>
     /\ Introduces(SubOfCharge(p)) /\ Commits(d)
     /\ UNCHANGED <<by, halted, credited>>

IgnoresStranger(d) ==
  /\ IsFailure(d) /\ ~Known(at[d].pay)
  /\ Commits(d) /\ UNCHANGED <<caseVars, rowVars>>

\* ... or a repeat failure on the case that is already open, unless it is the
\* very payment that opened it.
RepeatsFailure(d) ==
  LET p == at[d].pay
  IN /\ IsFailure(d) /\ seen[d] # {}
     /\ IF p \in seen[d] THEN UNCHANGED onFile ELSE Records(p)
     /\ Introduces(SubOfCharge(p)) /\ Commits(d)
     /\ UNCHANGED <<status, by, halted, credited>>

SuccessKinds ==
  {"payment.captured", "subscription.charged", "order.paid", "payment_link.paid"}

\* _record_recovery for each case selected, on what it was when selected.
CreditsPayment(d) ==
  LET e == at[d]
  IN /\ pc[d] = "read" /\ e.kind \in SuccessKinds
     /\ status' = [c \in Charges |-> IF c \in seen[d] THEN "recovered" ELSE status[c]]
     /\ by' = [c \in Charges |-> IF c \in seen[d] THEN e.pay ELSE by[c]]
     /\ credited' = [c \in Charges |->
          IF c \in seen[d] THEN [credited[c] EXCEPT ![e.pay] = @ + 1] ELSE credited[c]]
     /\ subscriptions' = IF e.kind = "subscription.charged"
                           THEN subscriptions \cup {e.sub} ELSE subscriptions
     /\ Commits(d) /\ UNCHANGED <<halted, onFile, payers>>

\* handle_subscription_pending and _halted.
MarksSubscription(d) ==
  LET e == at[d]
  IN /\ pc[d] = "read" /\ e.kind \in {"subscription.pending", "subscription.halted"}
     /\ halted' = IF e.kind = "subscription.halted" THEN halted \cup seen[d] ELSE halted
     /\ subscriptions' = subscriptions \cup {e.sub}
     /\ Commits(d) /\ UNCHANGED <<status, by, onFile, credited, payers>>

\* Razorpay does not answer, or the process dies: the transaction is rolled
\* back and the envelope stays unprocessed.
GivesUp(d) ==
  /\ pc[d] # "idle" /\ giveUps < MaxGiveUps /\ giveUps' = giveUps + 1
  /\ Ends(d)
  /\ UNCHANGED <<outsideVars, caseVars, rowVars, done, raced, onCall>>

Finish(d) ==
  OpensCase(d) \/ IgnoresStranger(d) \/ RepeatsFailure(d)
  \/ CreditsPayment(d) \/ MarksSubscription(d)

Outside ==
  \/ \E p \in Charges : ChargeFails(p) \/ ChargeSucceeds(p)
  \/ \E p \in LinkPayments, c \in Charges : LinkIsPaid(p, c)
  \/ \E s \in Halting, kind \in {"subscription.pending", "subscription.halted"} :
       SubscriptionFails(s, kind)
  \/ \E c \in Charges : Ring(c) \/ Stop(c) \/ Refuse(c) \/ HangUp(c)

LifecycleNext ==
  \/ Outside
  \/ \E d \in Dispatchers :
       (\E e \in sent : Call(d, e)) \/ Read(d) \/ Finish(d) \/ GivesUp(d)

LifecycleSpec == LifecycleInit /\ [][LifecycleNext]_lifecycleVars

(***************************************************************************)
(* Intake keeps dispatching what is stored (EveryEnvelopeSettles), and a   *)
(* handler gives up fewer times than webhook_max_attempts.                 *)
(***************************************************************************)
LifecycleFairness ==
  \A d \in Dispatchers :
    WF_lifecycleVars(Read(d)) /\ WF_lifecycleVars(Finish(d))
    /\ WF_lifecycleVars(\E e \in sent : Call(d, e))

FairLifecycleSpec == LifecycleSpec /\ LifecycleFairness
-----------------------------------------------------------------------------
(***************************************************************************)
(* Properties.                                                             *)
(***************************************************************************)
Events ==
  [kind : SuccessKinds \cup {"payment.failed", "subscription.pending", "subscription.halted"},
   pay : Payments \cup {None}, sub : Subs \cup {None}, case : Charges \cup {None}]

\* Every variable has the shape the code gives it; a dispatcher that has one in
\* hand works on a stored event.
LifecycleTypeOK ==
  /\ bank \in [Payments -> {"none", "failed", "captured"}]
  /\ linkOf \in [LinkPayments -> Charges \cup {None}]
  /\ sent \subseteq Events /\ done \subseteq sent
  /\ status \in [Charges -> Live \cup {"absent", "recovered", "declined", "stopped"}]
  /\ by \in [Charges -> Payments \cup {None}]
  /\ halted \subseteq Charges /\ onCall \subseteq Charges
  /\ onFile \in [Charges -> Nat] /\ credited \in [Charges -> [Payments -> Nat]]
  /\ subscriptions \subseteq Subs /\ payers \subseteq Subs \cup Checkouts
  /\ pc \in [Dispatchers -> {"idle", "called", "read"}]
  /\ at \in [Dispatchers -> Events \cup {None}]
  /\ \A d \in Dispatchers : pc[d] # "idle" => at[d] \in sent
  /\ seen \in [Dispatchers -> SUBSET Charges]
  /\ giveUps \in 0..MaxGiveUps /\ raced \subseteq Debts

\* "One debt, one case": two failures of an invoice are one debt being chased.
\* However many dispatchers there are, only failures that were handled at once
\* open two: each had selected, and found nothing, before the other committed.
OneCasePerInvoice ==
  \A c, b \in LiveCases :
    DebtOf[c] = DebtOf[b] /\ SubOfCharge(c) # None => c = b \/ DebtOf[c] \in raced

PaysFor(p, c) ==
  IF p \in LinkPayments THEN linkOf[p] = c
  ELSE \/ DebtOf[p] = DebtOf[c]
       \/ SubOfCharge(p) # None /\ SubOfCharge(p) = SubOfCharge(c)

\* "Recovery is something only a real Razorpay webhook may assert": a case is
\* recovered by a captured payment, of its own link, order or subscription.
RecoveredByRealMoney ==
  \A c \in Charges : status[c] = "recovered" =>
    by[c] \in Payments /\ bank[by[c]] = "captured" /\ PaysFor(by[c], c)

\* A failure whose event is done is on file, as a case or as a repeat on one.
EveryFailureIsOnFile ==
  \A e \in done : e.kind = "payment.failed" /\ Known(e.pay) => onFile[e.pay] > 0

\* README, Tests: "the double-counting hazard where subscription.charged and
\* payment.captured both fire for a single recovery".  Each may be handled by two
\* dispatchers at once; the row lock of the payment's upsert has the charge
\* credited to a case once all the same.
CreditedOnce ==
  \A c \in Charges, p \in Charges : credited[c][p] <= 1

(***************************************************************************)
(* The abstract specification the handlers implement.                      *)
(***************************************************************************)
BookOf(c) ==
  CASE status[c] \in Live -> "live"
    [] status[c] \in {"declined", "stopped"} -> "lost"
    [] OTHER -> status[c]

bookBar == [c \in Charges |-> BookOf(c)]

worthBar ==
  [p \in Payments |-> {c \in Charges : bank[p] = "captured" /\ PaysFor(p, c)}]

Booked == INSTANCE CaseBook WITH book <- bookBar, worth <- worthBar

\* Seen from outside, the case table and the audit trail are a book in which
\* nothing is unwritten: whatever handlers, workers and calls overlap, no closed
\* case comes back to life, a failure is filed only with its own debt, only
\* money for a case recovers it, and a charge is entered on it once.
ImplementsBook == Booked!BookSpec

\* A case that is open when a payment for it is stored does not stay open.
PaidCasesClose ==
  \A c \in Charges :
    (c \in LiveCases /\ \E p \in Charges :
       /\ bank[p] = "captured" /\ PaysFor(p, c)
       /\ Event(SuccessKind(p), p, SubOfCharge(p), None) \in sent \ done)
      ~> c \notin LiveCases
=============================================================================
