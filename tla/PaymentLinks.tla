---------------------------- MODULE PaymentLinks ----------------------------
(***************************************************************************)
(* The payment links of one debt.  The worker's tick may send one, holding *)
(* the row's lock until it commits; so may sessions that take no lock: of  *)
(* the tool the model calls during a call (a process of its own), of the   *)
(* call's outcome, of the operator's command.  Each reads the row, asks    *)
(* Razorpay, and commits; the link exists at Razorpay, and may be paid,    *)
(* from the moment it was asked for.                                       *)
(*                                                                         *)
(* A link is known by its reference, the attempt count it was made at.     *)
(* Razorpay keeps references for ever.  Here too a mandate is charged.     *)
(***************************************************************************)
EXTENDS Naturals

CONSTANTS Others,       \* sessions other than the worker's
          Worker,       \* the worker's session
          MaxAttempts,  \* max_attempts
          MaxFailures,  \* max_delivery_failures
          Mandate,      \* mandate_retry_enabled, on a debt for lack of funds
          MaxCharges    \* bound: charges Razorpay accepts

ASSUME LinksAssumption ==
  /\ MaxAttempts \in Nat /\ MaxFailures \in Nat /\ MaxCharges \in Nat
  /\ Mandate \in BOOLEAN /\ Worker \notin Others

Senders == Others \cup {Worker}

Refs == 0..MaxAttempts

None == MaxAttempts + 1

VARIABLES
  attempts, failures, status, \* recovery_cases: attempt_count,
  link,       \* delivery_failures, status ("stopped": or declined), payment_link_id
  locked,     \* by the worker's transaction
  refused,    \* history: since it was last credited, a call has closed the case anew
  at,         \* where each sender stands
  saw, has,   \* the attempt count and the link it read
  got,        \* the link it has made and not yet committed
  met,        \* history: another session ran at some time during this one
  does,       \* what the tick in progress does: "link", "call" or "charge"
  line,       \* the phone call
  made,       \* at Razorpay: what became of the link with a reference
  charges,    \* at Razorpay: charges accepted
  captured,   \* of these, taken with a webhook that names the case
  owed,       \* payments whose webhook is still to be handled
  slips       \* history: "lost", an answer or a commit; "overlap", a link made
              \* by a session that met another

caseVars   == <<attempts, failures, status, link, locked, refused>>
senderVars == <<at, saw, has, got, met, does>>
moneyVars  == <<made, charges, captured, owed>>
linksVars  == <<caseVars, senderVars, line, moneyVars, slips>>

LinksInit ==
  /\ attempts = 0 /\ failures = 0 /\ status = "open" /\ link = None
  /\ locked = FALSE /\ refused = FALSE
  /\ at = [s \in Senders |-> "idle"] /\ saw = [s \in Senders |-> 0]
  /\ has = [s \in Senders |-> None] /\ got = [s \in Senders |-> None]
  /\ met = [s \in Senders |-> FALSE]
  /\ does = "link" /\ line = "none"
  /\ made = [r \in Refs |-> "none"] /\ charges = 0 /\ captured = 0
  /\ owed = {} /\ slips = {}
-----------------------------------------------------------------------------
(* Reading the row. *)

\* Another session has read the row, and neither committed nor given up.
Beside(s) == \E t \in Senders \ {s} : at[t] # "idle"

Reads(s) ==
  /\ at[s] = "idle" /\ at' = [at EXCEPT ![s] = "read"]
  /\ saw' = [saw EXCEPT ![s] = attempts] /\ has' = [has EXCEPT ![s] = link]
  /\ met' = [t \in Senders |-> IF t = s THEN Beside(s) ELSE met[t] \/ at[t] # "idle"]
  /\ UNCHANGED got

\* What decide() may choose at these counts, whatever the cause and the hour.
Choices ==
  IF Mandate /\ attempts = 0 THEN {"charge"} ELSE {"link", "call"}

\* A tick claims the case, and acts on it or stops it.
Claim ==
  /\ status \in {"open", "in_progress"} /\ ~locked
  /\ attempts < MaxAttempts /\ failures < MaxFailures
  /\ Reads(Worker) /\ locked' = TRUE /\ does' \in Choices
  /\ UNCHANGED <<attempts, failures, status, link, refused, line, moneyVars, slips>>

StopCase ==
  /\ status \in {"open", "in_progress"} /\ ~locked
  /\ attempts >= MaxAttempts \/ failures >= MaxFailures
  /\ status' = "stopped"
  /\ UNCHANGED <<attempts, failures, link, locked, refused, senderVars, line, moneyVars, slips>>

\* send_payment_link_now, from the tool, on a call that is on.
ToolReads(s) ==
  /\ s # Worker /\ line \in {"talking", "unrecorded"} /\ Reads(s)
  /\ UNCHANGED <<caseVars, does, line, moneyVars, slips>>

\* finalise_call of a call that ended on a promise to pay; a call without a
\* row has no outcome to apply.
OutcomeReads(s) ==
  /\ s # Worker /\ line = "talking" /\ line' = "none" /\ Reads(s)
  /\ UNCHANGED <<caseVars, does, moneyVars, slips>>

\* recover.send_link.
OperatorReads(s) ==
  /\ s # Worker /\ status # "recovered" /\ Reads(s)
  /\ UNCHANGED <<caseVars, does, line, moneyVars, slips>>
-----------------------------------------------------------------------------
(* create_recovery_link. *)

Asks(s) == at[s] = "read" /\ (s = Worker => does = "link")

Answered(s, how, what) ==
  /\ at' = [at EXCEPT ![s] = how] /\ got' = [got EXCEPT ![s] = what]
  /\ UNCHANGED <<caseVars, saw, has, met, does, line, charges, captured, owed>>

MutantIgnoresTheLinkOnFile(s) ==
  /\ Asks(s) /\ has[s] # None
  /\ made' = [made EXCEPT ![saw[s]] = IF @ = "none" THEN "live" ELSE @]
  /\ Answered(s, "done", saw[s])
  /\ UNCHANGED slips

\* A case that has a link gets it again, over whatever reaches the customer
\* and whatever has become of it.
Resend(s) ==
  /\ Asks(s) /\ has[s] # None
  /\ Answered(s, "done", None)
  /\ UNCHANGED <<made, slips>>

Create(s) ==
  /\ Asks(s) /\ has[s] = None /\ made[saw[s]] = "none"
  /\ made' = [made EXCEPT ![saw[s]] = "live"]
  /\ slips' = slips \cup (IF met[s] THEN {"overlap"} ELSE {})
  /\ Answered(s, "done", saw[s])

\* The link is made and sent, and the answer never arrives.
CreateUnanswered(s) ==
  /\ Asks(s) /\ has[s] = None /\ made[saw[s]] = "none"
  /\ made' = [made EXCEPT ![saw[s]] = "live"]
  /\ slips' = slips \cup {"lost"}
  /\ Answered(s, "failed", None)

MutantRecordsBeforeTheAnswer(s) ==
  /\ Asks(s) /\ has[s] = None
  /\ Answered(s, "done", saw[s])
  /\ UNCHANGED <<made, slips>>

\* Razorpay has the reference already, or cannot be reached.
CreateFails(s) ==
  /\ Asks(s) /\ has[s] = None
  /\ Answered(s, "failed", None)
  /\ UNCHANGED <<made, slips>>
-----------------------------------------------------------------------------
(* charge_mandate, and channel.initiate. *)

ChargeEnds(how) ==
  /\ at[Worker] = "read" /\ does = "charge"
  /\ at' = [at EXCEPT ![Worker] = how]
  /\ UNCHANGED <<caseVars, saw, has, got, met, does, line, made, captured, owed>>

Charge ==
  /\ charges < MaxCharges /\ charges' = charges + 1
  /\ ChargeEnds("done") /\ UNCHANGED slips

ChargeUnanswered ==
  /\ charges < MaxCharges /\ charges' = charges + 1
  /\ ChargeEnds("failed") /\ slips' = slips \cup {"lost"}

\* No customer details, no usable token, or an order or charge refused.
ChargeFails == ChargeEnds("failed") /\ UNCHANGED <<charges, slips>>

Dial ==
  /\ at[Worker] = "read" /\ does = "call"
  /\ \/ at' = [at EXCEPT ![Worker] = "done"] /\ line' = "ringing"
     \/ at' = [at EXCEPT ![Worker] = "failed"] /\ UNCHANGED line
  /\ UNCHANGED <<caseVars, saw, has, got, met, does, moneyVars, slips>>

\* open_call_record inserts a row that refers to the case: it waits for the
\* tick that dialled, unless it fails, and then the call has no row.
Connects ==
  /\ line = "ringing"
  /\ \/ ~locked /\ line' = "talking"
     \/ line' = "unrecorded"
  /\ UNCHANGED <<caseVars, senderVars, moneyVars, slips>>

HangsUp ==
  /\ line # "none" /\ line' = "none"
  /\ UNCHANGED <<caseVars, senderVars, moneyVars, slips>>

\* finalise_call of a call that ended on a refusal, a wrong number or a
\* dispute: the case closes for good, whatever its status, a paid one's too.
Refuse ==
  /\ line = "talking" /\ line' = "none" /\ ~locked
  /\ status' = "stopped" /\ attempts' = MaxAttempts
  /\ refused' = (refused \/ status = "recovered")
  /\ UNCHANGED <<failures, link, locked, senderVars, moneyVars, slips>>
-----------------------------------------------------------------------------
(* Committing, or not. *)

Over(s) ==
  /\ at' = [at EXCEPT ![s] = "idle"] /\ got' = [got EXCEPT ![s] = None]
  /\ saw' = [saw EXCEPT ![s] = 0] /\ has' = [has EXCEPT ![s] = None]
  /\ met' = [met EXCEPT ![s] = FALSE]
  /\ does' = (IF s = Worker THEN "link" ELSE does)

MutantForgetsTheAttempt ==
  /\ at[Worker] = "done"
  /\ attempts' = (IF does = "charge" THEN saw[Worker] ELSE saw[Worker] + 1)
  /\ failures' = 0 /\ status' = "in_progress"
  /\ link' = (IF got[Worker] # None THEN got[Worker] ELSE link)
  /\ locked' = FALSE /\ Over(Worker)
  /\ UNCHANGED <<refused, line, moneyVars, slips>>

\* The tick commits: what it sent, charged or dialled costs an attempt.
CommitTick ==
  /\ at[Worker] = "done"
  /\ attempts' = saw[Worker] + 1 /\ failures' = 0 /\ status' = "in_progress"
  /\ link' = (IF got[Worker] # None THEN got[Worker] ELSE link)
  /\ locked' = FALSE /\ Over(Worker)
  /\ UNCHANGED <<refused, line, moneyVars, slips>>

CommitFailure ==
  /\ at[Worker] = "failed"
  /\ failures' = failures + 1 /\ status' = "in_progress"
  /\ locked' = FALSE /\ Over(Worker)
  /\ UNCHANGED <<attempts, link, refused, line, moneyVars, slips>>

\* Any other session writes the link it made, once nobody holds the row, or
\* gives up on an exception.
Commit(s) ==
  /\ s # Worker /\ at[s] = "done" /\ ~locked
  /\ link' = (IF got[s] # None THEN got[s] ELSE link)
  /\ Over(s)
  /\ UNCHANGED <<attempts, failures, status, locked, refused, line, moneyVars, slips>>

GivesUp(s) ==
  /\ s # Worker /\ at[s] = "failed" /\ Over(s)
  /\ UNCHANGED <<caseVars, line, moneyVars, slips>>

\* The process dies, or its commit fails: Razorpay is not told.
Sent(s) == got[s] # None \/ (s = Worker /\ does = "charge" /\ at[s] = "done")

Dies(s) ==
  /\ at[s] # "idle" /\ Over(s)
  /\ locked' = (locked /\ s # Worker)
  /\ slips' = slips \cup (IF Sent(s) THEN {"lost"} ELSE {})
  /\ UNCHANGED <<attempts, failures, status, link, refused, line, moneyVars>>
-----------------------------------------------------------------------------
(* The customer's money. *)

Expires(r) ==
  /\ made[r] = "live" /\ made' = [made EXCEPT ![r] = "expired"]
  /\ UNCHANGED <<caseVars, senderVars, line, charges, captured, owed, slips>>

Pays(r) ==
  /\ made[r] = "live" /\ made' = [made EXCEPT ![r] = "paid"]
  /\ owed' = owed \cup {r}
  /\ UNCHANGED <<caseVars, senderVars, line, charges, captured, slips>>

\* A charge is taken.  Its webhook carries the case in the notes, or an empty
\* list of notes: then it finds no case, and nothing changes.
Captured ==
  /\ captured < charges
  /\ \/ captured' = captured + 1 /\ owed' = owed \cup {None}
     \/ UNCHANGED <<captured, owed>>
  /\ UNCHANGED <<caseVars, senderVars, line, made, charges, slips>>

MutantCreditsTheLinkOnFile(p) ==
  /\ p \in owed /\ owed' = owed \ {p} /\ ~locked
  /\ status' = IF p \in {link, None} THEN "recovered" ELSE status
  /\ refused' = (refused /\ p \notin {link, None})
  /\ UNCHANGED <<attempts, failures, link, locked, senderVars, line, made, charges, captured,
                 slips>>

\* handle_payment_link_paid: the case is found by the reference, which every
\* link of it carries, or by the notes of the charge.
Credit(p) ==
  /\ p \in owed /\ owed' = owed \ {p} /\ ~locked
  /\ status' = "recovered" /\ refused' = FALSE
  /\ UNCHANGED <<attempts, failures, link, locked, senderVars, line, made, charges, captured,
                 slips>>

Sends(s) == Resend(s) \/ Create(s) \/ CreateUnanswered(s) \/ CreateFails(s)

Ends(s) == Commit(s) \/ GivesUp(s) \/ Dies(s)

Helps(s) == ToolReads(s) \/ OutcomeReads(s) \/ OperatorReads(s)

Ticks ==
  \/ Claim \/ StopCase \/ Charge \/ ChargeUnanswered \/ ChargeFails \/ Dial
  \/ CommitTick \/ CommitFailure

LinksNext ==
  \/ Ticks \/ Connects \/ HangsUp \/ Refuse
  \/ (\E s \in Senders : Helps(s) \/ Sends(s) \/ Ends(s))
  \/ (\E r \in Refs : Expires(r) \/ Pays(r)) \/ Captured
  \/ (\E p \in Refs \cup {None} : Credit(p))

LinksSpec == LinksInit /\ [][LinksNext]_linksVars
-----------------------------------------------------------------------------
Issued == {r \in Refs : made[r] # "none"}

\* Every variable keeps to its values, the row is locked exactly while a tick
\* is in progress, and the link on file is one that Razorpay has.
LinksTypeOK ==
  /\ attempts \in Refs /\ failures \in 0..MaxFailures
  /\ status \in {"open", "in_progress", "stopped", "recovered"}
  /\ refused \in BOOLEAN
  /\ at \in [Senders -> {"idle", "read", "done", "failed"}]
  /\ saw \in [Senders -> Refs]
  /\ has \in [Senders -> Refs \cup {None}] /\ got \in [Senders -> Refs \cup {None}]
  /\ met \in [Senders -> BOOLEAN] /\ does \in {"link", "call", "charge"}
  /\ line \in {"none", "ringing", "talking", "unrecorded"}
  /\ made \in [Refs -> {"none", "live", "paid", "expired"}]
  /\ charges \in 0..MaxCharges /\ captured \in 0..charges
  /\ owed \subseteq Refs \cup {None} /\ slips \subseteq {"lost", "overlap"}
  /\ locked \in BOOLEAN /\ (locked <=> at[Worker] # "idle")
  /\ link \in Issued \cup {None}

\* A debt is asked for once: one link in the life of the case, however often
\* it is sent, unless an answer or a commit was lost or two sessions sent at
\* the same time; one charge of the mandate, unless one was lost.
DebtIsAskedOnce ==
  /\ slips = {} => \A r, q \in Issued : r = q
  /\ "lost" \notin slips => charges <= 1

\* Closed by a payment, and if no longer that, by what was said on a call since.
Settled == status = "recovered" \/ (refused /\ status = "stopped")

\* Money that was paid closes the case, whichever of its links it was paid
\* on, one that no row remembers included, and no step opens it again: only a
\* refusal on a call changes what it is closed as.  A charge whose webhook
\* named no case closes nothing.
PaidMoneyIsCredited ==
  /\ \A r \in Refs : made[r] = "paid" /\ r \notin owed => Settled
  /\ captured > 0 /\ None \notin owed => Settled
=============================================================================
