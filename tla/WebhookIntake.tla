---------------------------- MODULE WebhookIntake ----------------------------
(***************************************************************************)
(* Razorpay's webhooks from the HTTP request to the committed handler:     *)
(* the Redis claim in front of the INSERT, the three paths that dispatch a *)
(* stored envelope (background task, Pub/Sub push, cron sweep), the        *)
(* failure bookkeeping on a second session, dead-lettering and requeueing. *)
(* One action per stretch of code between two awaits that another process  *)
(* can observe.  Definitions named Mutant... are not part of the model:    *)
(* they are the plausible bugs each property is shown to catch.            *)
(***************************************************************************)
EXTENDS Naturals, FiniteSets

CONSTANTS Events,       \* Razorpay event ids
          NoEvent,      \* "no event", for a slot that carries none
          Handled,      \* those whose name is in EVENT_HANDLERS
          Requests,     \* webhook deliveries: each is one HTTP request
          Servers,      \* API-side slots running a background task or a push
          Sweepers,     \* worker processes running the replay sweep
          MaxAttempts,  \* webhook_max_attempts
          Limit,        \* the row limit of the sweep and of requeue_dead
          MaxFaults,    \* bound: process deaths and lost answers per behaviour
          MaxRequeues   \* bound: times an operator requeues the dead letters

Dispatchers == Servers \cup Sweepers

ASSUME IntakeAssumption ==
  /\ NoEvent \notin Events /\ Handled \subseteq Events
  /\ IsFiniteSet(Servers) /\ IsFiniteSet(Sweepers)
  /\ MaxAttempts \in Nat \ {0} /\ Limit \in Nat \ {0}
  /\ MaxFaults \in Nat /\ MaxRequeues \in Nat

VARIABLES
  claimed,      \* Redis: event ids whose "webhook:<id>" key is set
  orphaned,     \* history: keys left set by a request that stored nothing
  pk,           \* webhook_events: e's primary key, 0 when there is no row
  processed,    \* ... rows with processed_at set
  dead,         \* ... rows with dead_at set
  attempts,     \* ... attempt_count, saturated at MaxAttempts
  aged,         \* ... rows older than the sweep's cutoff
  req,          \* req[r]: how far delivery r got
  about,        \* about[r]: the event it carries
  tasks,        \* background tasks in the API's memory, by event
  topic,        \* Pub/Sub: announced and not yet acknowledged, by event
  pc,           \* pc[d]: where d's call of process_event stands
  at,           \* at[d]: the envelope it is about
  read,         \* read[d]: the attempt_count it read
  fatal,        \* fatal[d]: its handler's failure was not retryable
  batch,        \* batch[s]: what sweeper s selected and has yet to replay
  faults, requeues,     \* how much of the two bounds is spent
  applied,      \* history: handler transactions committed, per event
  failures,     \* history: failures recorded since e was last requeued, saturated
  hopeless,     \* history: events with a non-retryable failure since then
  stale,        \* history: calls recording a count they read before a requeue
  overrun       \* history: events such a count was written to since then

cacheVars   == <<claimed, orphaned>>
rowVars     == <<pk, processed, dead, attempts, aged>>
apiVars     == <<req, about, tasks>>
callVars    == <<pc, at, read, fatal>>
boundVars   == <<faults, requeues>>
historyVars == <<applied, failures, hopeless, stale, overrun>>
vars == <<cacheVars, rowVars, apiVars, topic, callVars, batch, boundVars,
          historyVars>>

Stored == {e \in Events : pk[e] # 0}

Recorded(r) == req[r] \in {"recorded", "announced", "accepted"}

Inserting(e) == {r \in Requests : req[r] = "inserting" /\ about[r] = e}

Handling(e) == {d \in Dispatchers : pc[d] = "handling" /\ at[d] = e}

Fault == faults < MaxFaults /\ faults' = faults + 1 /\ UNCHANGED requeues

IntakeInit ==
  /\ claimed = {} /\ orphaned = {}
  /\ pk = [e \in Events |-> 0] /\ attempts = [e \in Events |-> 0]
  /\ processed = {} /\ dead = {} /\ aged = {}
  /\ req = [r \in Requests |-> "unsent"]
  /\ about = [r \in Requests |-> NoEvent]
  /\ tasks = {} /\ topic = {}
  /\ pc = [d \in Dispatchers |-> "idle"]
  /\ at = [d \in Dispatchers |-> NoEvent]
  /\ read = [d \in Dispatchers |-> 0]
  /\ fatal = [d \in Dispatchers |-> FALSE]
  /\ batch = [s \in Sweepers |-> {}]
  /\ faults = 0 /\ requeues = 0
  /\ applied = [e \in Events |-> 0] /\ failures = [e \in Events |-> 0]
  /\ hopeless = {} /\ stale = {} /\ overrun = {}
-----------------------------------------------------------------------------
(***************************************************************************)
(* record_event.  The cache is asked first, and asking records the key; a  *)
(* cache that is unconfigured or unreachable answers "not seen".           *)
(***************************************************************************)
Receive(r, e, outcome) ==
  /\ req[r] = "unsent"
  /\ req' = [req EXCEPT ![r] = outcome]
  /\ about' = [about EXCEPT ![r] = e]
  /\ UNCHANGED <<rowVars, tasks, topic, callVars, batch, boundVars,
                 historyVars, orphaned>>

CacheSaysSeen(r, e) ==
  e \in claimed /\ Receive(r, e, "duplicate") /\ UNCHANGED claimed

Claim(r, e) ==
  e \notin claimed /\ Receive(r, e, "inserting") /\ claimed' = claimed \cup {e}

ClaimFailsOpen(r, e) ==
  Receive(r, e, "inserting") /\ UNCHANGED claimed

\* The key's TTL is a day and a request lives seconds, so no request that is
\* still inserting sees a claim on its event expire.
ExpireClaim(e) ==
  /\ e \in claimed /\ Inserting(e) = {}
  /\ claimed' = claimed \ {e} /\ orphaned' = orphaned \ {e}
  /\ UNCHANGED <<rowVars, apiVars, topic, callVars, batch, boundVars,
                 historyVars>>

MutantNoConstraint(e) == TRUE

\* The unique constraint on razorpay_event_id.
Unique(e) == pk[e] = 0

StoreRow(e) ==
  /\ pk' = [pk EXCEPT ![e] = Cardinality(Stored) + 1]
  /\ UNCHANGED <<processed, dead, attempts, aged>>

RequestMoves(r, from, to) ==
  /\ req[r] = from
  /\ req' = [req EXCEPT ![r] = to]
  /\ UNCHANGED <<about, callVars, batch, historyVars>>

Insert(r) ==
  /\ RequestMoves(r, "inserting", "recorded")
  /\ Unique(about[r])
  /\ StoreRow(about[r])
  /\ UNCHANGED <<cacheVars, tasks, topic, boundVars>>

\* IntegrityError: rolled back, reported as a duplicate; the key stays.
InsertConflict(r) ==
  /\ RequestMoves(r, "inserting", "duplicate")
  /\ ~Unique(about[r])
  /\ UNCHANGED <<cacheVars, rowVars, tasks, topic, boundVars>>

MutantNoForget(e) == UNCHANGED <<cacheVars, boundVars>>

\* cache.forget is best effort: a Redis that does not answer keeps the key.
Forget(e) ==
  \/ claimed' = claimed \ {e} /\ orphaned' = orphaned \ {e} /\ UNCHANGED boundVars
  \/ Fault /\ orphaned' = orphaned \cup (claimed \cap {e}) /\ UNCHANGED claimed

\* Any other exception of the commit: forget the key, answer 500.  The row may
\* be there all the same, when only the commit's acknowledgement was lost.
InsertFails(r) ==
  /\ RequestMoves(r, "inserting", "failed")
  /\ Forget(about[r])
  /\ \/ UNCHANGED rowVars
     \/ Unique(about[r]) /\ StoreRow(about[r])
  /\ UNCHANGED <<tasks, topic>>

(***************************************************************************)
(* razorpay_webhook once record_event returned a row: announce it (best    *)
(* effort), answer 200, leave a background task in this process's memory.  *)
(***************************************************************************)
MutantAnnounceFirst(r) ==
  /\ req[r] = "inserting" /\ topic' = topic \cup {about[r]}
  /\ UNCHANGED <<cacheVars, rowVars, apiVars, callVars, batch, boundVars,
                 historyVars>>

Announce(r) ==
  /\ RequestMoves(r, "recorded", "announced")
  /\ topic' \in {topic, topic \cup {about[r]}}
  /\ UNCHANGED <<cacheVars, rowVars, tasks, boundVars>>

Answer(r) ==
  /\ RequestMoves(r, "announced", "accepted")
  /\ tasks' = tasks \cup {about[r]}
  /\ UNCHANGED <<cacheVars, rowVars, topic, boundVars>>

\* The process dies, or the request is cancelled, at an await.  No except
\* branch runs: CancelledError is not an Exception.
RequestDies(r) ==
  /\ \E from \in {"inserting", "recorded", "announced"} :
       RequestMoves(r, from, "killed")
  /\ Fault
  /\ orphaned' = IF req[r] = "inserting" THEN orphaned \cup (claimed \cap {about[r]})
                                         ELSE orphaned
  /\ UNCHANGED <<claimed, rowVars, tasks, topic>>

TaskDies(e) ==
  /\ e \in tasks /\ tasks' = tasks \ {e}
  /\ Fault
  /\ UNCHANGED <<cacheVars, rowVars, req, about, topic, callVars, batch,
                 historyVars>>
-----------------------------------------------------------------------------
(***************************************************************************)
(* process_event(e) called by d: one unlocked read of the row decides.     *)
(***************************************************************************)
Handle(d, e) ==
  /\ pc' = [pc EXCEPT ![d] = "handling"]
  /\ at' = [at EXCEPT ![d] = e]
  /\ UNCHANGED <<read, fatal, processed>>

MutantNoEarlyReturn(d, e) ==
  \/ e \notin Handled /\ processed' = processed \cup {e} /\ UNCHANGED callVars
  \/ e \in Handled /\ Handle(d, e)

Begin(d, e) ==
  \/ e \in processed /\ UNCHANGED <<processed, callVars>>
  \/ e \notin processed \cup Handled /\ processed' = processed \cup {e}
     /\ UNCHANGED callVars
  \/ e \in Handled \ processed /\ Handle(d, e)

Dispatch(d, e) ==
  /\ pc[d] = "idle"
  /\ Begin(d, e)
  /\ UNCHANGED <<cacheVars, pk, dead, attempts, aged, req, about, historyVars>>

RunTask(d, e) ==
  /\ e \in tasks /\ tasks' = tasks \ {e}
  /\ Dispatch(d, e)
  /\ UNCHANGED <<topic, batch, boundVars>>

\* At-least-once delivery: a lost acknowledgement leaves the message there.
Push(d, e) ==
  /\ e \in topic
  /\ \/ topic' = topic \ {e} /\ UNCHANGED boundVars
     \/ Fault /\ UNCHANGED topic
  /\ Dispatch(d, e)
  /\ UNCHANGED <<tasks, batch>>

\* ORDER BY id LIMIT Limit.
Oldest(S) == {e \in S : Cardinality({f \in S : pk[f] < pk[e]}) < Limit}

Due == (Stored \cap aged) \ (processed \cup dead)

Sweep(s) ==
  /\ pc[s] = "idle" /\ batch[s] = {} /\ Due # {}
  /\ batch' = [batch EXCEPT ![s] = Oldest(Due)]
  /\ UNCHANGED <<cacheVars, rowVars, apiVars, topic, callVars, boundVars,
                 historyVars>>

Replay(s) ==
  \E e \in batch[s] :
    /\ \A f \in batch[s] : pk[e] <= pk[f]
    /\ batch' = [batch EXCEPT ![s] = @ \ {e}]
    /\ Dispatch(s, e)
    /\ UNCHANGED <<tasks, topic, boundVars>>
-----------------------------------------------------------------------------
(***************************************************************************)
(* The handler's transaction, and what follows when it raises.             *)
(***************************************************************************)
Idle(d) ==
  /\ pc' = [pc EXCEPT ![d] = "idle"]
  /\ at' = [at EXCEPT ![d] = NoEvent]
  /\ read' = [read EXCEPT ![d] = 0]
  /\ fatal' = [fatal EXCEPT ![d] = FALSE]

MutantMarkLost(e) == UNCHANGED processed

Mark(e) == processed' = processed \cup {e}

HandlerCommits(d) ==
  /\ pc[d] = "handling"
  /\ applied' = [applied EXCEPT ![at[d]] = @ + 1]
  /\ Mark(at[d])
  /\ Idle(d)
  /\ UNCHANGED <<cacheVars, pk, dead, attempts, aged, apiVars, topic, batch,
                 boundVars, failures, hopeless, stale, overrun>>

\* is_retryable: a 4xx of Razorpay other than 408 and 429 is not, all else
\* is.  Which exception the handler raises is the environment's choice.
HandlerFails(d) ==
  /\ pc[d] = "handling"
  /\ pc' = [pc EXCEPT ![d] = "failed"]
  /\ \E permanent \in BOOLEAN : fatal' = [fatal EXCEPT ![d] = permanent]
  /\ UNCHANGED <<cacheVars, rowVars, apiVars, topic, at, read, batch,
                 boundVars, historyVars>>

\* _record_failure opens its own session and reads the row without a lock ...
ReadRow(d) ==
  /\ pc[d] = "failed"
  /\ pc' = [pc EXCEPT ![d] = "recording"]
  /\ read' = [read EXCEPT ![d] = attempts[at[d]]]
  /\ UNCHANGED <<cacheVars, rowVars, apiVars, topic, at, fatal, batch,
                 boundVars, historyVars>>

\* Only "has it reached MaxAttempts" is ever asked of a count, so counting
\* stops there.
CountUp(n) == IF n < MaxAttempts THEN n + 1 ELSE MaxAttempts

MutantNoCap(d) == fatal[d]

MutantOneShort(d) == fatal[d] \/ read[d] + 2 >= MaxAttempts

Burial(d) == fatal[d] \/ read[d] + 1 >= MaxAttempts

\* ... and writes back what it read plus one.
WriteFailure(d) ==
  /\ pc[d] = "recording"
  /\ attempts' = [attempts EXCEPT ![at[d]] = CountUp(read[d])]
  /\ dead' = IF Burial(d) THEN dead \cup {at[d]} ELSE dead
  /\ failures' = [failures EXCEPT ![at[d]] = CountUp(@)]
  /\ hopeless' = IF fatal[d] THEN hopeless \cup {at[d]} ELSE hopeless
  /\ overrun' = IF d \in stale THEN overrun \cup {at[d]} ELSE overrun
  /\ stale' = stale \ {d}
  /\ Idle(d)
  /\ UNCHANGED <<cacheVars, pk, processed, aged, apiVars, topic, batch,
                 boundVars, applied>>

\* The process running d dies, or _record_failure cannot reach the database;
\* a sweep loses the rest of its batch either way.
DispatcherDies(d) ==
  /\ pc[d] # "idle" \/ (d \in Sweepers /\ batch[d] # {})
  /\ Fault
  /\ Idle(d)
  /\ batch' = [s \in Sweepers |-> IF s = d THEN {} ELSE batch[s]]
  /\ stale' = stale \ {d}
  /\ UNCHANGED <<cacheVars, rowVars, apiVars, topic, applied, failures, hopeless,
                 overrun>>
-----------------------------------------------------------------------------
MutantReopen == processed' = processed \ Oldest(dead)

\* requeue_dead leaves processed_at alone.
KeepMark == UNCHANGED processed

\* What counts against an envelope starts over with a requeue, but a call that
\* has read its count and not yet written it back still holds the old one.
HistoryRestarts(E) ==
  /\ failures' = [e \in Events |-> IF e \in E THEN 0 ELSE failures[e]]
  /\ hopeless' = hopeless \ E /\ overrun' = overrun \ E
  /\ stale' = stale \cup {d \in Dispatchers : pc[d] = "recording" /\ at[d] \in E}
  /\ UNCHANGED applied

RequeueDead ==
  /\ dead # {} /\ requeues < MaxRequeues
  /\ requeues' = requeues + 1
  /\ dead' = dead \ Oldest(dead)
  /\ attempts' = [e \in Events |-> IF e \in Oldest(dead) THEN 0 ELSE attempts[e]]
  /\ HistoryRestarts(Oldest(dead))
  /\ KeepMark
  /\ UNCHANGED <<cacheVars, pk, aged, apiVars, topic, callVars, batch, faults>>

\* Time passes the sweep's cutoff for e's row, whoever is working on it.
Age(e) ==
  /\ e \in Stored \ aged
  /\ aged' = aged \cup {e}
  /\ UNCHANGED <<cacheVars, pk, processed, dead, attempts, apiVars, topic,
                 callVars, batch, boundVars, historyVars>>

RequestStep(r) ==
  \/ \E e \in Events : CacheSaysSeen(r, e) \/ Claim(r, e) \/ ClaimFailsOpen(r, e)
  \/ Insert(r) \/ InsertConflict(r) \/ InsertFails(r)
  \/ Announce(r) \/ Answer(r) \/ RequestDies(r)

CallStep(d) ==
  \/ HandlerCommits(d) \/ HandlerFails(d)
  \/ ReadRow(d) \/ WriteFailure(d) \/ DispatcherDies(d)

IntakeNext ==
  \/ \E r \in Requests : RequestStep(r)
  \/ \E d \in Servers, e \in Events : RunTask(d, e) \/ Push(d, e)
  \/ \E s \in Sweepers : Sweep(s) \/ Replay(s)
  \/ \E d \in Dispatchers : CallStep(d)
  \/ \E e \in Events : ExpireClaim(e) \/ TaskDies(e) \/ Age(e)
  \/ RequeueDead

IntakeSpec == IntakeInit /\ [][IntakeNext]_vars

(***************************************************************************)
(* Cloud Scheduler fires the worker every few minutes for ever, so a sweep *)
(* that has something to do is eventually run, and every await in a        *)
(* handler or in _record_failure returns or raises: the HTTP client and    *)
(* the database driver have timeouts.  Nothing is assumed of requests,     *)
(* background tasks, pushes or operators.                                  *)
(***************************************************************************)
IntakeFairness ==
  /\ \A e \in Events : WF_vars(Age(e))
  /\ \A s \in Sweepers : WF_vars(Sweep(s)) /\ WF_vars(Replay(s))
  /\ \A d \in Dispatchers :
       /\ WF_vars(HandlerCommits(d) \/ HandlerFails(d))
       /\ WF_vars(ReadRow(d)) /\ WF_vars(WriteFailure(d))

FairIntakeSpec == IntakeSpec /\ IntakeFairness
-----------------------------------------------------------------------------
(***************************************************************************)
(* Properties.                                                             *)
(***************************************************************************)
\* Every variable has the shape the code gives it.
IntakeTypeOK ==
  /\ claimed \subseteq Events /\ orphaned \subseteq claimed
  /\ pk \in [Events -> Nat] /\ IsFiniteSet(Stored)
  /\ processed \subseteq Stored /\ dead \subseteq Stored /\ aged \subseteq Stored
  /\ attempts \in [Events -> 0..MaxAttempts]
  /\ req \in [Requests -> {"unsent", "inserting", "recorded", "announced",
                           "accepted", "duplicate", "failed", "killed"}]
  /\ about \in [Requests -> Events \cup {NoEvent}]
  /\ \A r \in Requests : req[r] # "unsent" => about[r] \in Events
  /\ \A r \in Requests : Recorded(r) => about[r] \in Stored
  /\ tasks \subseteq Stored /\ topic \subseteq Stored
  /\ pc \in [Dispatchers -> {"idle", "handling", "failed", "recording"}]
  /\ at \in [Dispatchers -> Events \cup {NoEvent}]
  /\ \A d \in Dispatchers : pc[d] # "idle" => at[d] \in Stored \cap Handled
  /\ read \in [Dispatchers -> 0..MaxAttempts]
  /\ fatal \in [Dispatchers -> BOOLEAN]
  /\ batch \in [Sweepers -> SUBSET Stored]
  /\ faults \in 0..MaxFaults /\ requeues \in 0..MaxRequeues
  /\ applied \in [Events -> Nat] /\ failures \in [Events -> 0..MaxAttempts]
  /\ hopeless \subseteq Events /\ overrun \subseteq Events
  /\ stale \subseteq {d \in Dispatchers : pc[d] = "recording"}

\* The handler's writes and processed_at are one transaction (process_event
\* commits once): through deaths, failures, requeues and races, an envelope of
\* a handled kind is marked exactly when some handler's writes are committed.
CommitIsAtomic == \A e \in Handled : e \in processed <=> applied[e] > 0

\* The early return on processed_at bounds the damage of racing dispatches
\* (background task, push, sweep): a handler is never applied more often than
\* there were calls running at once, and calls still running count too.
OverlapBoundsEffects ==
  \A e \in processed :
    applied[e] + Cardinality(Handling(e)) <= Cardinality(Dispatchers)

\* _record_failure's unlocked read-modify-write can lose a count, and invents
\* one in a single way: an envelope is dead-lettered only after a failure since
\* it was last requeued that cannot be retried, after webhook_max_attempts
\* failures recorded since then, or when a call that had read the count before
\* the requeue wrote it back, plus one, after it.
NotBuriedEarly ==
  \A e \in dead : e \in hopeless \cup overrun \/ failures[e] >= MaxAttempts

\* requeue_dead: "a requeued event gets a full budget rather than dying again
\* on its first failure".
RequeueGivesFullBudget ==
  \A e \in dead : e \in hopeless \/ failures[e] >= MaxAttempts

\* However Redis lies (fails open, expires, forgets), record_event hands each
\* event to one request only: a second delivery never announces it again.
OneRecorder ==
  \A r, q \in Requests :
    Recorded(r) /\ Recorded(q) /\ about[r] = about[q] => r = q

\* record_event's "the claim is only honest if it is released when the write
\* it guarded did not happen": a key in Redis stands for a stored row, for an
\* INSERT still running, or for a request that was killed or could not forget.
ClaimIsHonest ==
  \A e \in claimed : e \in Stored \cup orphaned \/ Inserting(e) # {}

\* An accepted envelope is pending, done or buried, and done is for ever:
\* intake implements the ledger of EnvelopeLedger.
StatusOf(e) ==
  IF pk[e] = 0 THEN "absent"
  ELSE IF e \in processed THEN "done"
  ELSE IF e \in dead THEN "buried" ELSE "pending"

statusBar == [e \in Events |-> StatusOf(e)]

Ledger == INSTANCE EnvelopeLedger WITH status <- statusBar

ImplementsLedger == Ledger!LedgerSpec

\* replay_unprocessed is the retry path of last resort: whatever dies, every
\* stored envelope is eventually processed or dead-lettered, and an envelope
\* that keeps failing does not starve the newer ones behind it.
EveryEnvelopeSettles ==
  \A e \in Events : (e \in Stored) ~> (e \in processed \cup dead)

\* events.py, pubsub_router.py and router.py: "a redelivery racing the sweep
\* is a no-op rather than a double dispatch".
RedeliveryIsNoOp == \A e \in Events : applied[e] <= 1

\* record_event: "The cache can only ever say definitely seen".  A delivery
\* answered as a duplicate is of an event that is stored, or is being stored.
DuplicateMeansStored ==
  \A r \in Requests :
    req[r] = "duplicate" => about[r] \in Stored \/ Inserting(about[r]) # {}
=============================================================================
