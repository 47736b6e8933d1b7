---------------------------- MODULE RecoveryReport ----------------------------
(***************************************************************************)
(* The figures of the recovery report over a database that real debts,     *)
(* their payments and the outcomes of calls share with simulated batches.  *)
(* A promise to pay is an audit row with a deadline; whether it was kept   *)
(* is never stored, but read later off the case.                           *)
(***************************************************************************)
EXTENDS Naturals, Sequences, FiniteSets

CONSTANTS Cases,
          Window,      \* promise_window_hours
          Days,        \* days a simulated batch runs over
          Latest,      \* bound: the clock
          MaxPromises, \* bound: promises of a case
          MaxPayments  \* bound: payments that arrive for a case

ASSUME ReportAssumption ==
  /\ Window \in Nat /\ Days \in Nat \ {0} /\ Latest \in Nat /\ Days <= Latest + 1
  /\ MaxPromises \in Nat /\ MaxPayments \in Nat

Never == Latest + 1

VARIABLES
  now,              \* utcnow()
  source, caseStatus,   \* recovery_cases
  recoveredAt,      \* recovery_cases.recovered_at
  promises,         \* audit: due_at of the promise_made rows of a case
  phoned,           \* cases whose customer is on the phone
  day,              \* the simulated day, while a batch runs
  handling,         \* payments whose handlers have selected their case
  received          \* how much of MaxPayments has arrived

caseColumns == <<source, caseStatus, recoveredAt, promises>>
paymentVars == <<handling, received>>
reportVars == <<now, caseColumns, phoned, day, paymentVars>>

ReportInit ==
  /\ now = Days - 1
  /\ source = [c \in Cases |-> "none"] /\ caseStatus = [c \in Cases |-> "none"]
  /\ recoveredAt = [c \in Cases |-> Never] /\ promises = [c \in Cases |-> <<>>]
  /\ phoned = {} /\ day = Never
  /\ handling = {} /\ received = [c \in Cases |-> 0]

Worked(c) == caseStatus[c] \in {"open", "in_progress"}

Simulating == day # Never

SetStatus(c, s) == caseStatus' = [caseStatus EXCEPT ![c] = s]

Insert(c, from) ==
  /\ source[c] = "none" /\ source' = [source EXCEPT ![c] = from]
  /\ SetStatus(c, "open")
  /\ UNCHANGED <<now, recoveredAt, promises, phoned, day, paymentVars>>

\* open_recovery_case.
OpensReal(c) == Insert(c, "razorpay")
-----------------------------------------------------------------------------
(* Real debts. *)

\* The worker rings the customer, or gives the case up.
Works(c) ==
  /\ Worked(c) /\ c \notin phoned
  /\ \/ SetStatus(c, "in_progress") /\ phoned' = phoned \cup {c}
     \/ SetStatus(c, "stopped") /\ UNCHANGED phoned
  /\ UNCHANGED <<now, source, recoveredAt, promises, day, paymentVars>>

\* apply_call_result, at the time t: a promise leaves a row, a refusal stops
\* the case, whatever it was.
Promises(c, t) ==
  /\ Len(promises[c]) < MaxPromises
  /\ promises' = [promises EXCEPT ![c] = Append(@, t + Window)]

Results(c, intent, t) ==
  CASE intent = "pays" -> Promises(c, t) /\ UNCHANGED caseStatus
    [] intent = "refuses" -> SetStatus(c, "stopped") /\ UNCHANGED promises
    [] OTHER -> UNCHANGED <<caseStatus, promises>>

CallResult(c, intent) ==
  /\ c \in phoned /\ phoned' = phoned \ {c}
  /\ Results(c, intent, now)
  /\ UNCHANGED <<now, source, recoveredAt, day, paymentVars>>

\* mark_recovered and what comes before it: the handler selects the case, and
\* what it is then decides whether this payment counts; so is the time taken.
PaymentArrives(c) ==
  /\ source[c] = "razorpay" /\ received[c] < MaxPayments
  /\ received' = [received EXCEPT ![c] = @ + 1]
  /\ handling' = handling \cup {[case |-> c, nr |-> received[c], at |-> now,
       seen |-> IF Worked(c) THEN "live" ELSE caseStatus[c],
       unpaid |-> recoveredAt[c] = Never]}
  /\ UNCHANGED <<now, caseColumns, phoned, day>>

MutantTakesEveryPayment(h) ==
  /\ SetStatus(h.case, "recovered")
  /\ recoveredAt' = [recoveredAt EXCEPT ![h.case] = h.at]

\* The UPDATE names the row, not the status it was selected with.
MarkRecovered(h) ==
  IF h.seen = "recovered"
    THEN UNCHANGED <<caseStatus, recoveredAt>>
    ELSE /\ SetStatus(h.case, "recovered")
         /\ recoveredAt' = [recoveredAt EXCEPT ![h.case] = h.at]

PaymentCommits(h) ==
  /\ handling' = handling \ {h} /\ MarkRecovered(h)
  /\ UNCHANGED <<now, source, promises, phoned, day, received>>

Tick ==
  /\ now < Latest /\ now' = now + 1
  /\ UNCHANGED <<caseColumns, phoned, day, paymentVars>>
-----------------------------------------------------------------------------
(* A simulated batch, on days that end today. *)

\* clear.
ClearBatch ==
  LET seeded == {c \in Cases : source[c] = "seed"} IN
    /\ ~Simulating /\ seeded # {}
    /\ source' = [c \in Cases |-> IF c \in seeded THEN "none" ELSE source[c]]
    /\ caseStatus' = [c \in Cases |-> IF c \in seeded THEN "none" ELSE caseStatus[c]]
    /\ recoveredAt' = [c \in Cases |-> IF c \in seeded THEN Never ELSE recoveredAt[c]]
    /\ promises' = [c \in Cases |-> IF c \in seeded THEN <<>> ELSE promises[c]]
    /\ phoned' = phoned \ seeded
    /\ UNCHANGED <<now, day, paymentVars>>

SeedCase(c) == ~Simulating /\ Insert(c, "seed")

StartBatch ==
  /\ ~Simulating /\ \E c \in Cases : source[c] = "seed"
  /\ day' = now - (Days - 1)
  /\ UNCHANGED <<now, caseColumns, phoned, paymentVars>>

\* run_once with the stand-ins for Razorpay and the telephone: it works every
\* case there is, a real one too.
SimulatedTick(c) ==
  /\ Simulating /\ Worked(c)
  /\ SetStatus(c, "in_progress") \/ SetStatus(c, "stopped")
  /\ UNCHANGED <<now, source, recoveredAt, promises, phoned, day, paymentVars>>

\* _settle_unprompted_links.
Settles(c) ==
  /\ Simulating /\ source[c] = "seed" /\ caseStatus[c] = "in_progress"
  /\ SetStatus(c, "recovered") /\ recoveredAt' = [recoveredAt EXCEPT ![c] = day]
  /\ UNCHANGED <<now, source, promises, phoned, day, paymentVars>>

\* The simulated call of a seeded case, and perhaps its payment: later that
\* day or on another, but not after the present.
SimulatedCall(c, intent) ==
  /\ Simulating /\ source[c] = "seed" /\ caseStatus[c] = "in_progress"
  /\ UNCHANGED <<now, source, phoned, day, paymentVars>>
  /\ \/ Results(c, intent, day) /\ UNCHANGED recoveredAt
     \/ /\ intent = "pays" /\ Promises(c, day) /\ SetStatus(c, "recovered")
        /\ \E t \in day..now : recoveredAt' = [recoveredAt EXCEPT ![c] = t]

NextDay ==
  /\ Simulating /\ day' = IF day < now THEN day + 1 ELSE Never
  /\ UNCHANGED <<now, caseColumns, phoned, paymentVars>>

Intents == {"pays", "refuses", "unclear"}

ReportNext ==
  \/ Tick \/ StartBatch \/ NextDay \/ ClearBatch
  \/ \E h \in handling : PaymentCommits(h)
  \/ \E c \in Cases :
       \/ OpensReal(c) \/ Works(c) \/ PaymentArrives(c)
       \/ SeedCase(c) \/ SimulatedTick(c) \/ Settles(c)
       \/ \E intent \in Intents : CallResult(c, intent) \/ SimulatedCall(c, intent)

ReportSpec == ReportInit /\ [][ReportNext]_reportVars
-----------------------------------------------------------------------------
(* compute_metrics: the cases and the promises it counts in a scope. *)

InScope(from) == {c \in Cases : source[c] = from}

Rows(from) == {p \in InScope(from) \X (1..MaxPromises) : p[2] <= Len(promises[p[1]])}

Due(p) == promises[p[1]][p[2]]

PaidAt(p) == recoveredAt[p[1]]

Kept(from) == {p \in Rows(from) : PaidAt(p) # Never /\ PaidAt(p) <= Due(p)}

Pending(from) == {p \in Rows(from) : PaidAt(p) = Never /\ Due(p) > now}

\* promises_broken is what is left.
Broken(from) == Rows(from) \ (Kept(from) \cup Pending(from))

\* Those no payment can still keep: at the very instant of its deadline an
\* unpaid promise counts as broken already.
Lapsed(from) == {p \in Broken(from) : Due(p) < now}

\* What a handler selected is out of date, or was a paid case that a refusal on
\* the telephone had stopped: its commit writes the time of its payment over
\* whatever the row says by then.
Overwrites(h) == h.unpaid \/ h.seen = "stopped"

\* A promise of a real customer, once the report has scored it as kept or as
\* broken, is scored otherwise neither by later payments and calls nor by a
\* batch that is simulated on the same database.  What does change a score is
\* the commit of a payment that overwrites: one that was under way, and in time,
\* when its promise came to count as broken, or one made after the deadline of a
\* promise that another payment had kept.
ScoresSettle ==
  [][\A p \in Kept("razorpay") \cup Lapsed("razorpay") :
       \/ p \in Kept("razorpay") <=> (p \in Kept("razorpay"))'
       \/ \E h \in handling \ handling' :
            /\ h.case = p[1] /\ Overwrites(h)
            /\ h.at <= Due(p) <=> p \notin Kept("razorpay")]_reportVars
=============================================================================
