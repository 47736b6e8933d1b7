---------------------------- MODULE Orchestrator ----------------------------
(***************************************************************************)
(* run_once(): workers that claim batches of recovery cases with           *)
(* FOR UPDATE SKIP LOCKED, ask decide() about each, contact the customer,  *)
(* and commit once per batch.  A contact is made when it is made; the      *)
(* record of it exists when the batch commits.                             *)
(*                                                                         *)
(* row is what the database has committed, work what the session holding   *)
(* the row's lock sees (the same, for a row nobody has locked).  Times are *)
(* ages, counted up to the largest threshold plus the longest tick.        *)
(***************************************************************************)
EXTENDS Policy, Integers, FiniteSets

CONSTANTS Cases, Customers, Workers,
          NoOne,          \* no worker, no customer, nothing read
          CustomerOf,     \* the customer a case belongs to, or NoOne
          Subscribed,     \* cases of a subscription; the others are checkouts
          CauseOf,        \* what diagnose() says of it
          AmountOf,       \* original_amount
          Worth,          \* its score() before the halted boost
          Phoned,         \* customers with a phone number
          Mailable,       \* customers with an email address
          BatchSize,      \* worker_batch_size
          CacheFails,     \* may Redis be unreachable
          MaxLag,         \* bound: how long a tick may last
          MaxAborts       \* bound: ticks that die or are rolled back

ASSUME OrchestratorAssumption ==
  /\ NoOne \notin Customers \cup Workers
  /\ CustomerOf \in [Cases -> Customers \cup {NoOne}]
  /\ Subscribed \subseteq Cases
  /\ CauseOf \in [Cases -> Causes] /\ AmountOf \in [Cases -> Nat]
  /\ Worth \in [Cases -> Nat]
  /\ \A c, d \in Cases :
       c # d => Worth[c] # Worth[d] /\ 6 * Worth[c] # 5 * Worth[d]
  /\ BatchSize \in Nat \ {0} /\ CacheFails \in BOOLEAN
  /\ MaxLag \in 0..Day /\ MaxAborts \in Nat

\* A session that has not read a customer has none of their columns.
ASSUME NoOneIsNobody ==
  NoOne \notin [do_not_contact : BOOLEAN, wrong : BOOLEAN, since : Int]

VARIABLES
  row, work,  \* recovery_cases: committed, and as its lock's holder sees it
  lock,       \* lock[c]: the worker whose transaction locked c
  person,     \* customers: do_not_contact, phone_is_wrong, last_contacted_at
  writer,     \* writer[u]: the worker with an uncommitted UPDATE of u
  cooldown,   \* Redis: time to live of "cooldown:<u>", 0 when unset
  hour,       \* time of day, in units
  pc, lag,    \* where worker w stands, and how long ago its `now` was taken
  batch, cur, act,  \* cases to go, the one in hand, what decide() said
  view,       \* view[w][u]: u's columns as w's session first read them
  touched,    \* customers w has reached in this tick (pending_cooldowns)
  dirty,      \* the one whose last_contacted_at w has yet to flush
  onCall,     \* cases whose customer has been called and not hung up
  aborts,     \* how much of MaxAborts is spent
  tried,      \* history: cases w has made a try for in this tick
  tries,      \* history: tries made for c
  undone,     \* history: ... of which the record was rolled back
  calm,       \* history: how long ago the latest tick began that reached u
  offRecord,  \* history: customers whose last_contacted_at does not say so
  missed,     \* history: ... reached where w's session does not see it
  refused     \* history: ... who had opted out when w's tick began

tableVars   == <<row, work, lock, person, writer>>
workerVars  == <<pc, lag, batch, cur, act, view, touched, dirty>>
contactVars == <<calm, offRecord, missed>>
historyVars == <<tried, tries, undone, contactVars, refused>>
vars == <<tableVars, cooldown, hour, workerVars, onCall, aborts, historyVars>>

MaxSince == Backoff + MaxLag
MaxAge   == Grace + MaxLag
MaxCalm  == Cooldown + MaxLag

Live == {"open", "in_progress"}

Older(age, most) == IF age < most THEN age + 1 ELSE most

Younger(left) == IF left > 0 THEN left - 1 ELSE 0

\* Columns of a case that an INSERT leaves at their defaults.
NewCase == [status |-> "absent", attempts |-> 0, failures |-> 0,
            halted |-> FALSE, age |-> 0, since |-> MaxSince, parked |-> 0]

OrchestratorInit ==
  /\ row = [c \in Cases |-> NewCase] /\ work = row
  /\ lock = [c \in Cases |-> NoOne]
  /\ person = [u \in Customers |->
                 [do_not_contact |-> FALSE, wrong |-> FALSE, since |-> MaxCalm]]
  /\ writer = [u \in Customers |-> NoOne]
  /\ cooldown = [u \in Customers |-> 0]
  /\ hour = 0
  /\ pc = [w \in Workers |-> "idle"] /\ lag = [w \in Workers |-> 0]
  /\ batch = [w \in Workers |-> {}]
  /\ cur = [w \in Workers |-> NoOne] /\ act = [w \in Workers |-> NoOne]
  /\ view = [w \in Workers |-> [u \in Customers |-> NoOne]]
  /\ touched = [w \in Workers |-> {}] /\ dirty = [w \in Workers |-> NoOne]
  /\ onCall = {} /\ aborts = 0
  /\ tried = [w \in Workers |-> {}]
  /\ tries = [c \in Cases |-> 0] /\ undone = [c \in Cases |-> 0]
  /\ calm = [u \in Customers |-> MaxCalm]
  /\ offRecord = {} /\ missed = [w \in Workers |-> {}]
  /\ refused = [w \in Workers |-> {}]
-----------------------------------------------------------------------------
(***************************************************************************)
(* _claim_actionable_cases.                                                *)
(***************************************************************************)
\* score(): the halted boost is a factor of 1.2.
Score(c) == IF row[c].halted THEN 6 * Worth[c] ELSE 5 * Worth[c]

IsFirst(c, S) == \A d \in S : Score(d) <= Score(c)

TopOf(S) == {c \in S : Cardinality({d \in S : Score(d) > Score(c)}) < BatchSize}

MutantNoRowLock(c) == TRUE

\* FOR UPDATE: who needs the row waits for, or skips, the worker holding it.
Unlocked(c) == lock[c] = NoOne

Claimable ==
  {c \in Cases : row[c].status \in Live /\ row[c].parked = 0 /\ Unlocked(c)}

Claim(w) ==
  /\ pc[w] = "idle" /\ Claimable # {}
  /\ pc' = [pc EXCEPT ![w] = "next"]
  /\ batch' = [batch EXCEPT ![w] = TopOf(Claimable)]
  /\ lock' = [c \in Cases |-> IF c \in TopOf(Claimable) THEN w ELSE lock[c]]
  /\ work' = [c \in Cases |-> IF c \in TopOf(Claimable) THEN row[c] ELSE work[c]]
  /\ refused' = [refused EXCEPT ![w] = {u \in Customers : person[u].do_not_contact}]
  /\ UNCHANGED <<row, person, writer, cooldown, hour, lag, cur, act, view,
                 touched, dirty, onCall, aborts, tried, tries, undone, contactVars>>

(***************************************************************************)
(* The body of run_once's loop.  Reading the customer first flushes what   *)
(* is pending; a customer the session already knows is not read again.     *)
(***************************************************************************)
Flush(w) ==
  /\ pc[w] = "next" /\ dirty[w] # NoOne
  /\ writer[dirty[w]] \in {NoOne, w}
  /\ writer' = [writer EXCEPT ![dirty[w]] = w]
  /\ dirty' = [dirty EXCEPT ![w] = NoOne]
  /\ UNCHANGED <<row, work, lock, person, cooldown, hour, pc, lag, batch, cur,
                 act, view, touched, onCall, aborts, historyVars>>

\* The identity map keeps the columns the session read first.
Known(w, u) ==
  IF view[w][u] = NoOne THEN [person[u] EXCEPT !.since = @ - lag[w]]
                        ELSE view[w][u]

InTick(w) == pc[w] \in {"next", "loaded", "acting"}

\* Reached by a tick that is still to commit.
ReachedNow(w, u) == InTick(w) /\ u \in touched[w]

Uncommitted(w, u) == \E v \in Workers \ {w} : ReachedNow(v, u)

Load(w) ==
  /\ pc[w] = "next" /\ dirty[w] = NoOne
  /\ \E c \in batch[w] :
       LET u == CustomerOf[c]
       IN /\ IsFirst(c, batch[w])
          /\ cur' = [cur EXCEPT ![w] = c]
          /\ batch' = [batch EXCEPT ![w] = @ \ {c}]
          /\ view' = IF u = NoOne THEN view ELSE [view EXCEPT ![w][u] = Known(w, u)]
          /\ missed' = IF u \in Customers /\ Uncommitted(w, u)
                         THEN [missed EXCEPT ![w] = @ \cup {u}] ELSE missed
  /\ pc' = [pc EXCEPT ![w] = "loaded"]
  /\ UNCHANGED <<tableVars, cooldown, hour, lag, act, touched, dirty, onCall,
                 aborts, tried, tries, undone, calm, offRecord, refused>>

\* What w hands to decide(), all of it as of the tick's `now`.
CaseFacts(w) ==
  LET c == cur[w]
  IN [status |-> work[c].status, attempts |-> work[c].attempts,
      failures |-> work[c].failures, amount |-> AmountOf[c],
      cause |-> CauseOf[c], halted |-> work[c].halted,
      age |-> work[c].age - lag[w], since |-> work[c].since - lag[w]]

CustomerFacts(w) ==
  LET u == CustomerOf[cur[w]]
  IN IF u = NoOne
     THEN [known |-> FALSE, do_not_contact |-> FALSE, phone |-> FALSE,
           phone_is_wrong |-> FALSE, email |-> FALSE, since |-> MaxCalm]
     ELSE [known |-> TRUE, do_not_contact |-> view[w][u].do_not_contact,
           phone |-> u \in Phoned, phone_is_wrong |-> view[w][u].wrong,
           email |-> u \in Mailable, since |-> view[w][u].since]

Verdict(w) == Decide(CaseFacts(w), CustomerFacts(w), (hour + Day - lag[w]) % Day)

\* _contacted_elsewhere can be true, and can be false.
Elsewhere(w) == CustomerOf[cur[w]] # NoOne /\ cooldown[CustomerOf[cur[w]]] > 0

CacheSilent(w) == Elsewhere(w) => CacheFails

Returns(w, to) ==
  /\ pc[w] = "loaded"
  /\ pc' = [pc EXCEPT ![w] = to]
  /\ UNCHANGED <<row, lock, person, writer, cooldown, hour, lag, batch, view,
                 touched, dirty, onCall, aborts, undone, contactVars, refused>>

Skip(w) ==
  /\ pc[w] = "loaded" /\ Elsewhere(w)
  /\ cur' = [cur EXCEPT ![w] = NoOne]
  /\ Returns(w, "next")
  /\ UNCHANGED <<work, act, tried, tries>>

\* next_eligible_at = retry_after, which a long tick may already have reached.
Park(w) ==
  /\ pc[w] = "loaded" /\ CacheSilent(w) /\ Verdict(w).action = "wait"
  /\ LET left == Verdict(w).retry - lag[w]
     IN work' = [work EXCEPT ![cur[w]].parked = IF left > 0 THEN left ELSE 0]
  /\ cur' = [cur EXCEPT ![w] = NoOne]
  /\ Returns(w, "next")
  /\ UNCHANGED <<act, tried, tries>>

Stop(w) ==
  /\ pc[w] = "loaded" /\ CacheSilent(w) /\ Verdict(w).action = "stop"
  /\ work' = [work EXCEPT ![cur[w]].status = "stopped", ![cur[w]].parked = 0]
  /\ cur' = [cur EXCEPT ![w] = NoOne]
  /\ Returns(w, "next")
  /\ UNCHANGED <<act, tried, tries>>

\* Up to the await of the external call in _retry_mandate, _send_link or
\* _contact, whichever decide() chose.
Act(w) ==
  /\ pc[w] = "loaded" /\ CacheSilent(w)
  /\ Verdict(w).action \in {"retry_mandate", "link", "call"}
  /\ act' = [act EXCEPT ![w] = Verdict(w).action]
  /\ work' = [work EXCEPT ![cur[w]].status = "in_progress",
                          ![cur[w]].since = lag[w], ![cur[w]].parked = 0]
  /\ tried' = [tried EXCEPT ![w] = @ \cup {cur[w]}]
  /\ tries' = [tries EXCEPT ![cur[w]] = @ + 1]
  /\ Returns(w, "acting")
  /\ UNCHANGED cur
MutantForgetsFailure(w) == UNCHANGED work

\* _record_delivery of a try that raised, or of a charge that was refused.
CountFailure(w) == work' = [work EXCEPT ![cur[w]].failures = @ + 1]

MutantTouchesNobody(w, u) == UNCHANGED view

\* customer.last_contacted_at = now, on the object this session holds.
SetContacted(w, u) == view' = [view EXCEPT ![w][u].since = 0]

\* Razorpay or the carrier took it: the customer is charged, sent a link or rung.
Reaches(w, u) ==
  /\ calm' = [calm EXCEPT ![u] = IF @ < lag[w] THEN @ ELSE lag[w]]
  /\ onCall' = IF act[w] = "call" THEN onCall \cup {cur[w]} ELSE onCall

TryEnds(w) ==
  /\ pc[w] = "acting" /\ pc' = [pc EXCEPT ![w] = "next"]
  /\ cur' = [cur EXCEPT ![w] = NoOne] /\ act' = [act EXCEPT ![w] = NoOne]
  /\ UNCHANGED <<row, lock, person, writer, cooldown, hour, lag, batch,
                 aborts, tried, tries, undone, refused>>

Delivered(w) ==
  LET u == CustomerOf[cur[w]]
  IN /\ TryEnds(w) /\ Reaches(w, u)
     /\ work' = [work EXCEPT ![cur[w]].attempts = @ + 1, ![cur[w]].failures = 0]
     /\ SetContacted(w, u)
     /\ touched' = [touched EXCEPT ![w] = @ \cup {u}]
     /\ dirty' = [dirty EXCEPT ![w] = u]
     /\ missed' = [v \in Workers |-> IF v # w /\ view[v][u] # NoOne
                                       THEN missed[v] \cup {u} ELSE missed[v]]
     /\ UNCHANGED offRecord

\* The call raised.  Nobody was reached, or somebody was and the answer was
\* lost: the code cannot tell, and records neither a contact nor a cooldown.
NotDelivered(w) ==
  LET u == CustomerOf[cur[w]]
  IN /\ TryEnds(w) /\ CountFailure(w)
     /\ \/ UNCHANGED <<calm, onCall, offRecord>>
        \/ Reaches(w, u) /\ offRecord' = offRecord \cup {u}
     /\ UNCHANGED <<view, touched, dirty, missed>>

\* The session is gone: its locks, its identity map, its place in the batch.
EndSession(w) ==
  /\ lock' = [c \in Cases |-> IF lock[c] = w THEN NoOne ELSE lock[c]]
  /\ writer' = [u \in Customers |-> IF writer[u] = w THEN NoOne ELSE writer[u]]
  /\ view' = [view EXCEPT ![w] = [u \in Customers |-> NoOne]]
  /\ batch' = [batch EXCEPT ![w] = {}] /\ dirty' = [dirty EXCEPT ![w] = NoOne]
  /\ cur' = [cur EXCEPT ![w] = NoOne] /\ act' = [act EXCEPT ![w] = NoOne]
  /\ lag' = [lag EXCEPT ![w] = 0] /\ tried' = [tried EXCEPT ![w] = {}]
  /\ missed' = [missed EXCEPT ![w] = {}] /\ refused' = [refused EXCEPT ![w] = {}]

Stamped(w, u) == [person[u] EXCEPT !.since = lag[w]]

\* One commit for the whole batch.  The stamp of a tick that began before the
\* latest one that reached the customer sets last_contacted_at back.
Commit(w) ==
  /\ pc[w] = "next" /\ batch[w] = {} /\ dirty[w] = NoOne
  /\ row' = [c \in Cases |-> IF lock[c] = w THEN work[c] ELSE row[c]]
  /\ person' = [u \in Customers |->
                  IF u \in touched[w] THEN Stamped(w, u) ELSE person[u]]
  /\ pc' = [pc EXCEPT ![w] = IF touched[w] = {} THEN "idle" ELSE "publishing"]
  /\ offRecord' = (offRecord \ touched[w]) \cup {u \in touched[w] : calm[u] < lag[w]}
  /\ EndSession(w)
  /\ UNCHANGED <<work, cooldown, hour, touched, onCall, aborts, tries, undone, calm>>

\* cache.claim: SET NX, with the cooldown's time to live.
Publish(w) ==
  /\ pc[w] = "publishing"
  /\ \E u \in touched[w] :
       /\ touched' = [touched EXCEPT ![w] = @ \ {u}]
       /\ \/ cooldown' = [cooldown EXCEPT ![u] = IF @ = 0 THEN Cooldown ELSE @]
          \/ CacheFails /\ UNCHANGED cooldown
       /\ pc' = [pc EXCEPT ![w] = IF touched[w] = {u} THEN "idle" ELSE @]
  /\ UNCHANGED <<tableVars, hour, lag, batch, cur, act, view, dirty, onCall,
                 aborts, historyVars>>

\* The process dies, the database drops the session, or Postgres picks it as
\* the victim of a deadlock: what was done outside the database stays done.
Abort(w) ==
  /\ pc[w] # "idle" /\ aborts < MaxAborts
  /\ aborts' = aborts + 1
  /\ work' = [c \in Cases |-> IF lock[c] = w THEN row[c] ELSE work[c]]
  /\ undone' = [c \in Cases |-> IF c \in tried[w] THEN undone[c] + 1 ELSE undone[c]]
  /\ offRecord' = IF InTick(w) THEN offRecord \cup touched[w] ELSE offRecord
  /\ touched' = [touched EXCEPT ![w] = {}]
  /\ pc' = [pc EXCEPT ![w] = "idle"]
  /\ EndSession(w)
  /\ UNCHANGED <<row, person, cooldown, hour, onCall, tries, calm>>
-----------------------------------------------------------------------------
(***************************************************************************)
(* Everybody else who writes these tables, and time.  An UPDATE of a row a *)
(* worker has locked waits for that worker's commit.                       *)
(***************************************************************************)
Writes(c, new) ==
  /\ Unlocked(c)
  /\ row' = [row EXCEPT ![c] = new]
  /\ work' = IF lock[c] = NoOne THEN [work EXCEPT ![c] = new] ELSE work
  /\ UNCHANGED <<lock, writer, cooldown, hour, workerVars, aborts, historyVars>>

\* A webhook handler; an abandoned checkout is parked for checkout_grace_minutes,
\* which is at most one unit.
OpenCase(c) ==
  /\ row[c].status = "absent"
  /\ Writes(c, [NewCase EXCEPT !.status = "open",
                              !.parked = IF c \in Subscribed THEN 0 ELSE 1])
  /\ UNCHANGED <<person, onCall>>

\* mark_recovered.
Pay(c) ==
  /\ row[c].status \notin {"absent", "recovered"}
  /\ Writes(c, [row[c] EXCEPT !.status = "recovered"])
  /\ UNCHANGED <<person, onCall>>

\* handle_subscription_halted.
Halt(c) ==
  /\ c \in Subscribed /\ row[c].status \in Live /\ ~row[c].halted
  /\ Writes(c, [row[c] EXCEPT !.halted = TRUE])
  /\ UNCHANGED <<person, onCall>>

\* apply_call_result, for the outcomes that suppress contact: they close the
\* case, spend its budget, and mark the person, or only the number.
Refuse(c) ==
  LET u == CustomerOf[c]
  IN /\ c \in onCall /\ onCall' = onCall \ {c}
     /\ writer[u] = NoOne
     /\ \E intent \in {"declined", "dispute", "wrong_number"} :
          /\ Writes(c, [row[c] EXCEPT
                !.status = IF intent = "declined" THEN "declined" ELSE "stopped",
                !.attempts = MaxAttempts])
          /\ person' = IF intent = "wrong_number"
                       THEN [person EXCEPT ![u].wrong = TRUE]
                       ELSE [person EXCEPT ![u].do_not_contact = TRUE]

\* Any other outcome, or one that could not be persisted.
HangUp(c) ==
  /\ c \in onCall /\ onCall' = onCall \ {c}
  /\ UNCHANGED <<tableVars, cooldown, hour, workerVars, aborts, historyVars>>

Aged(r) == [r EXCEPT !.age = IF r.status = "absent" THEN 0 ELSE Older(@, MaxAge),
                     !.since = Older(@, MaxSince), !.parked = Younger(@)]

TimePasses ==
  /\ \A w \in Workers : InTick(w) => lag[w] < MaxLag
  /\ hour' = (hour + 1) % Day
  /\ row' = [c \in Cases |-> Aged(row[c])] /\ work' = [c \in Cases |-> Aged(work[c])]
  /\ person' = [u \in Customers |-> [person[u] EXCEPT !.since = Older(@, MaxCalm)]]
  /\ cooldown' = [u \in Customers |-> Younger(cooldown[u])]
  /\ calm' = [u \in Customers |-> Older(calm[u], MaxCalm)]
  /\ lag' = [w \in Workers |-> IF InTick(w) THEN lag[w] + 1 ELSE lag[w]]
  /\ UNCHANGED <<lock, writer, pc, batch, cur, act, view, touched, dirty,
                 onCall, aborts, tried, tries, undone, offRecord, missed, refused>>

WorkerStep(w) ==
  \/ Claim(w) \/ Flush(w) \/ Load(w)
  \/ Skip(w) \/ Park(w) \/ Stop(w) \/ Act(w)
  \/ Delivered(w) \/ NotDelivered(w)
  \/ Commit(w) \/ Publish(w)

CaseStep(c) == OpenCase(c) \/ Pay(c) \/ Halt(c) \/ Refuse(c) \/ HangUp(c)

OrchestratorNext ==
  \/ \E w \in Workers : WorkerStep(w) \/ Abort(w)
  \/ \E c \in Cases : CaseStep(c)
  \/ TimePasses

OrchestratorSpec == OrchestratorInit /\ [][OrchestratorNext]_vars

(***************************************************************************)
(* The worker is started every five minutes and the contact window is open *)
(* for twelve hours a day: a worker for which there is, again and again,   *)
(* something to claim during the window claims in the window again and     *)
(* again.  A tick that has started goes on, since every call it awaits     *)
(* returns or raises.  Time passes (strongly, as a tick that takes no time *)
(* disables it while it lasts).  Nothing is assumed of customers, webhooks *)
(* or calls.                                                               *)
(***************************************************************************)
OrchestratorFairness ==
  /\ SF_vars(TimePasses)
  /\ \A w \in Workers :
       /\ WF_vars(WorkerStep(w))
       /\ SF_vars(Claim(w) /\ WithinContactWindow(hour))

FairOrchestratorSpec == OrchestratorSpec /\ OrchestratorFairness
-----------------------------------------------------------------------------
(***************************************************************************)
(* Properties.                                                             *)
(***************************************************************************)
CaseRow == [status : Statuses \cup {"absent"}, attempts : 0..MaxAttempts,
            failures : 0..MaxDeliveryFailures, halted : BOOLEAN,
            age : 0..MaxAge, since : 0..MaxSince, parked : Nat]

RowsOK ==
  /\ row \in [Cases -> CaseRow] /\ work \in [Cases -> CaseRow]
  /\ lock \in [Cases -> Workers \cup {NoOne}]
  /\ \A c \in Cases : lock[c] = NoOne => work[c] = row[c]

PeopleOK ==
  /\ person \in [Customers -> [do_not_contact : BOOLEAN, wrong : BOOLEAN,
                               since : 0..MaxCalm]]
  /\ writer \in [Customers -> Workers \cup {NoOne}]
  /\ cooldown \in [Customers -> 0..Cooldown]
  /\ hour \in 0..(Day - 1) /\ onCall \subseteq Cases /\ aborts \in 0..MaxAborts

WorkersOK ==
  /\ pc \in [Workers -> {"idle", "next", "loaded", "acting", "publishing"}]
  /\ lag \in [Workers -> 0..MaxLag]
  /\ batch \in [Workers -> SUBSET Cases]
  /\ cur \in [Workers -> Cases \cup {NoOne}]
  /\ touched \in [Workers -> SUBSET Customers]
  /\ dirty \in [Workers -> Customers \cup {NoOne}]
  /\ \A w \in Workers : pc[w] \in {"loaded", "acting"} => cur[w] \in Cases

\* Every variable has the shape the code gives it; the attempt and the failure
\* counts stay within their limits; a row nobody locked is as committed.
OrchestratorTypeOK == RowsOK /\ PeopleOK /\ WorkersOK

\* _record_delivery: attempt_count and delivery_failures are separate budgets
\* and each success resets the second, yet together they end a case: at most
\* max_attempts * max_delivery_failures tries, plus those of batches that were
\* rolled back after the try was made.
TriesAreBounded ==
  \A c \in Cases : tries[c] <= MaxAttempts * MaxDeliveryFailures + undone[c]

\* "Something has to end it, or the case retries every backoff window forever":
\* whatever fails, every case that was opened is closed in the end, the one at
\* the bottom of the queue included.
EveryCaseCloses ==
  \A c \in Cases :
    (row[c].status = "open") ~> (row[c].status \in CLOSED_STATUSES)

\* README: do_not_contact is held on the person.  All of their cases stop, not
\* the refused one only: nobody is tried in a tick that began after they opted
\* out, whichever worker's it is and whatever was lost or rolled back before.
OptOutIsHonoured ==
  \A w \in Workers : pc[w] = "acting" => CustomerOf[cur[w]] \notin refused[w]

\* STOP is permanent, and so is every other close: no worker's batch, however
\* stale, brings a case back that a payment, a call or a rule has closed.
ClosedStaysClosed ==
  [][\A c \in Cases : row[c].status \in CLOSED_STATUSES =>
                        row'[c].status \in CLOSED_STATUSES]_row

\* No customer is contacted about a case that is closed: what a payment closes
\* before a worker locks the row is never chased, what it would close during
\* the tick waits for the lock.
NobodyIsChasedForAClosedCase ==
  \A w \in Workers : pc[w] = "acting" => row[cur[w]].status \in Live

\* "One customer with several debts is contacted once": when somebody is
\* reached, a whole cooldown lies between the start of this tick and the start
\* of the one that reached them last, whichever debt either was about.  (The
\* stamp is the tick's `now`: the calls themselves may be closer by a tick.)
OneContactPerCooldown ==
  [][\A w \in Workers, u \in Customers :
       (/\ pc[w] = "acting" /\ u = CustomerOf[cur[w]]
        /\ work'[cur[w]].attempts > work[cur[w]].attempts)
         => calm[u] - lag[w] >= Cooldown]_vars

\* What holds of it, for any number of workers: when somebody is tried, the
\* try heard of or not, a whole cooldown lies since any tick reached them,
\* unless the record of that contact is wrong (its answer was lost, its tick
\* was rolled back, or a tick that began before it set the stamp back later)
\* or the tick that made it overlaps this one.  Within one tick it holds with
\* no exception but a lost answer: a debt's contact defers the person's others.
CooldownHoldsOnRecord ==
  \A w \in Workers :
    LET u == CustomerOf[cur[w]]
    IN pc[w] = "acting" =>
         u \in offRecord \cup missed[w] \/ calm[u] - lag[w] >= Cooldown

\* _retry_mandate: "nothing reached the customer, so the next tick falls
\* through to a payment link instead".
FailedMandateFallsToLink ==
  \A w \in Workers : act[w] = "retry_mandate" => work[cur[w]].failures = 0

(***************************************************************************)
(* The abstract specification the workers implement.                       *)
(***************************************************************************)
StandingOf(c) ==
  CASE row[c].status = "absent" -> "absent"
    [] row[c].status \in Live -> "live"
    [] OTHER -> "closed"

standingBar == [c \in Cases |-> StandingOf(c)]

underwayBar == {cur[w] : w \in {v \in Workers : pc[v] = "acting"}}

\* STOP is permanent, and so is every other close: no worker's batch, however
\* stale, brings a case back that a payment, a call or a rule has closed.  And
\* a case is tried by one worker at a time, only while it is live, within its
\* budgets; it cannot close while it is being tried; a tick that dies takes
\* back the record of a try it made, and of no other, once.
Pursued ==
  INSTANCE Pursuit WITH Budget <- MaxAttempts * MaxDeliveryFailures,
                        standing <- standingBar, underway <- underwayBar

ImplementsPursuit == Pursued!PursuitSpec
=============================================================================
