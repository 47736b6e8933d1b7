# Verification of dunning-agent

TLA+ models of the dunning agent, checked with TLC and, where the results matter
most, proved with TLAPS. Every definition that models code is listed in
`PROJECT.json` under `map` with the lines it stands for; paths below are relative
to `src/app/`, unless they start with `src/`.

The agent recovers failed payments. Razorpay's webhooks open and close *recovery
cases*; a worker started every five minutes claims batches of cases, asks a policy
what to do about each, and re-charges a mandate, sends a payment link or places a
voice call; what the customer says on the call changes the case, and sometimes the
person, for good; and a report counts what came of it all.

## 1. The system

| Component | State | Operations | Talks to |
|---|---|---|---|
| Webhook intake (`webhooks/router.py`, `processor.py`, `pubsub_router.py`, `events.py`, `cache.py`, the sweep of `worker.py`) | `webhook_events`, the Redis key `webhook:<id>`, Pub/Sub, background tasks in memory | `record_event`, `announce_event`, `process_event`, `replay_unprocessed`, `requeue_dead`, `_record_failure` | calls a handler per envelope |
| Handlers and store (`webhooks/handlers.py`, `store.py`) | `recovery_cases`, `payments`, `subscriptions`, `customers` | one handler per event name; `open_recovery_case`, `mark_recovered`, upserts | Razorpay's API; shares rows with the orchestrator |
| Policy (`policy.py`, `diagnosis.py`, thresholds of `config.py`) | none | `decide()` | called for each claimed case |
| Orchestrator (`orchestrator.py`, `priority.py`, `worker.py`) | row locks, the tick's session, Redis `cooldown:<customer>` | claim, decide, act, record, commit, publish | policy, links, mandate, telephony |
| Payment links (`payment_links.py`, `recover.py`) | `payment_link_*` of a case, links at Razorpay | create, resend, attribution by `reference_id` | Razorpay; called by the tick, the call's tool, its outcome, and the operator |
| Mandate retry (`mandate.py`) | orders and recurring payments at Razorpay | `charge_mandate` | Razorpay |
| Telephony (`channels.py`, `voice/call_body.py`, `dispatch.py`, `telephony.py`) | the body of a call, on its way | `initiate`, the media-stream handshake, `dunning_session` | carriers; the case row and the agent |
| Voice session (`voice/graph.py`, `walker.py`, `flow.py`, `pipecat_agent.py`) | the node a call stands at, the lines on their way, the watcher, the finalised flag | walk the graph, speak, reach an ending, hang up, be cancelled | outcomes, guardrail, the MCP tools |
| Legacy LiveKit agent (`voice/agent.py`) | the stage, the `on_enter`s in progress | transition, finalise, close | outcomes |
| Guardrail (`voice/guardrails/`) | the buffered turn | hold, vet, release or refuse | sits between model and voice |
| Call outcomes (`voice/outcomes.py`, `intents.py`, `persistence.py`) | `voice_calls`, `call_outcomes`; status and budget of the case, opt-out of the person | `open_call_record`, `apply_call_result`, `finalise_call` | links, the case row |
| MCP server (`mcp_server.py`) | none of its own | `get_case`, `send_payment_link` | links, in a process and session of its own |
| Metrics and report (`metrics.py`, `report.py`) | none: it reads | `compute_metrics` per scope | cases, `call_outcomes` |
| Simulated batch (`src/scripts/seed_batch.py`) | cases of source `seed`, the simulated day | `clear`, seed, simulated ticks, calls and payments | the same tables as the real ones |
| Text normalisers, speech services, Razorpay client, schema | -- | pass-through or pure | -- |

**What is hard about it.** Three independent paths dispatch one envelope, each with
its own session and none with a lock. Redis sits in front of a unique constraint and
is allowed to be wrong in one direction only. A tick makes irreversible external
calls one by one but commits once. Workers on several machines exclude each other
on *cases*, while cooldown and opt-out belong to the *person*. The session caches
rows for the length of a tick and a tick takes its time once. Two failure budgets
and a clock of five thresholds must, between them, end every case. A link can be
sent by four different sessions of which one takes a lock. A call is ended by a task
that the call's own end cancels, and waits for a goodbye with two events that it
clears itself. PROJECT.json lists each of these under `hazards`, at the line where
it bites, with the properties that would catch it.

**What makes each component correct.**

* *Intake*: an accepted event is handled, or kept where an operator can find it; its
  effects and its mark are one transaction; the damage of racing dispatches is
  bounded; a broken cache loses nothing.
* *Policy*: rules are taken in the documented order; parking lasts exactly as long as
  the rule that asked for it; no mix of facts waits for ever.
* *Orchestrator*: budgets hold over every mix of outcomes and rollbacks; a closed case
  is neither chased nor reopened; an opt-out and the cooldown protect the person over
  all of their cases; every case ends.
* *Handlers*: one debt, one case; replays and reordering converge; money is attributed
  once; a paid debt is not chased.
* *Links and mandate*: a debt is asked for once; money counts whichever link it was paid
  on; what Razorpay has and what the row says differ only after a loss.
* *Telephony*: the agent speaks of the debt the call was placed for.
* *Voice*: a call that ends leaves one true outcome; nobody hears an amount before they
  said who they are; the goodbye is heard; a finished call ends.
* *Guardrail*: a turn is heard whole, or withheld, and never mixed with another.
* *Report*: what has been scored stays scored; simulated cases do not touch real ones.

## 2. Modules

| Module | What it is |
|---|---|
| `EnvelopeLedger` | abstract specification: what intake promises about one envelope |
| `WebhookIntake` | the intake; implements `EnvelopeLedger` |
| `Policy` | `decide()` and its rules, as operators |
| `PolicyWalk` | one case going through the WAITs of `decide()`, and a reference for it |
| `Pursuit` | abstract specification: what the worker promises of the cases it pursues |
| `Orchestrator` | `run_once()` of several workers, with everybody else who writes the rows; uses `Policy` for every decision, and implements `Pursuit` |
| `CaseBook` | abstract specification: cases and audit rows as a book in which nothing is unwritten |
| `CaseLifecycle` | the webhook handlers over recovery cases, several at a time, with Razorpay, workers and calls around them; implements `CaseBook` |
| `PaymentLinks` | the links and mandate charges of one debt, over every session that can send one |
| `ConversationGraph`, `DunningFlow` | what a conversation graph is and how it is walked; the one graph there is |
| `CallHandoff` | what crosses from the case row to the agent that talks |
| `VoiceSession` | a call on the Pipecat agent, over any valid graph |
| `LiveKitCall` | a call on the older agent, over the same graph |
| `OutputRail` | the guardrail between the model and the voice |
| `DunningCall` | a call from dispatch to outcome: `CallHandoff`, then one of the agents, beside `OutputRail` |
| `RecoveryReport` | what the report counts, while real and simulated cases change |
| `IntakeProofs`, `PolicyProofs`, `OrchestratorProofs`, `LifecycleProofs`, `LinksProofs`, `CallProofs`, `RailProofs`, `ReportProofs` | theorems about them |
| `MC*` | constants of the small instances, symmetry, and one of the compositions below |

Two modules compose. `DunningCall` follows a call through `CallHandoff` and then through
`VoiceSession` or `LiveKitCall`: a call without a case has no row to write to. `MCVoice`
runs it over `DunningFlow`. `OutputRail`, which shares no state with the end of a call,
and whatever else a behaviour does not touch, stands still, so that their states add up
and do not multiply. `MCRecoveryReport` puts `CaseLifecycle` and `RecoveryReport` side by
side in the same way: they share no variable (the second has a coarser case), and each is
followed from an initial state of the other.

Operators named `Mutant...` are no part of a model. Each is a plausible bug in the
definition after it, kept to show that a property notices it; PROJECT.json pairs
them.

### WebhookIntake

A step is a stretch of code between two awaits another process can observe.

| Code | Actions |
|---|---|
| `record_event`: ask and claim in Redis | `CacheSaysSeen`, `Claim`, `ClaimFailsOpen` |
| ... INSERT, unique constraint, rollback, forget | `Insert`, `InsertConflict`, `InsertFails` |
| `announce_event`, 200 and background task | `Announce`, `Answer` |
| `process_event` from the task, a push, the sweep | `RunTask`, `Push`, `Sweep` + `Replay` |
| ... handler and mark, one commit | `HandlerCommits` |
| ... failure, then read and write on a second session | `HandlerFails`, `ReadRow`, `WriteFailure` |
| `requeue_dead` | `RequeueDead` |
| deaths, lost answers, key expiry, the clock | `RequestDies`, `TaskDies`, `DispatcherDies`, `ExpireClaim`, `Age` |

The handlers' own writes are abstracted to a count of commits per event. `read[d]`
is the `attempt_count` a dispatcher read and will write back plus one: the unlocked
read-modify-write is kept as two steps because losing an update is what it can do.
Event counts saturate at `MaxAttempts`, past which the code does not tell them apart.
`requeue_dead` resets the count in the table, and with it the histories of what counts
against an envelope (`HistoryRestarts`); what a call has already read it cannot reset,
and `stale` and `overrun` say where that goes.

### Policy and PolicyWalk

`decide()` looks at the clock only as *how long ago* and *which hour*, so a time stamp
is an age and `None` an age past every threshold. `PolicyWalk` starts from every mix of
facts on both sides of every threshold and lets the clock run as the claim query
does: to `retry_after`, or by one unit.

### Orchestrator

`row` is what the database has committed, `work` what the session that locked the row
sees. The two agree for unlocked rows. `view[w][u]` is the identity map: the columns
of customer `u` as `w` first read them in this tick.

| Code | Action |
|---|---|
| `_claim_actionable_cases`: `FOR UPDATE SKIP LOCKED`, highest score first, limit | `Claim` |
| autoflush of a pending `last_contacted_at` before the next SELECT, waiting for the row's writer | `Flush` |
| next case and `_customer_for` | `Load` |
| `_contacted_elsewhere` says yes | `Skip` |
| WAIT / STOP from `decide()` | `Park` / `Stop` |
| `_retry_mandate`, `_send_link`, `_contact` up to the external call | `Act` |
| its result, with `_record_delivery` | `Delivered`, `NotDelivered` |
| the commit of the batch | `Commit` |
| `cache.claim("cooldown:...")` for each customer reached | `Publish` |
| process death, dropped connection, victim of a database deadlock | `Abort` |
| handlers: open, pay, halt | `OpenCase`, `Pay`, `Halt` |
| `apply_call_result`, or a call whose outcome is not written | `Refuse`, `HangUp` |
| the clock | `TimePasses` |

`Writes` is Postgres: an UPDATE of a row some worker has locked waits for that worker. A
call that raised is `NotDelivered`, and the customer may have been reached all the same:
the code cannot tell an answer that was lost from a request that was. `lag[w]` is how long
ago `w` took its `now`, so that every comparison and every stamp of the tick is as of that
time, as in the code. History variables record what the properties speak of and guard
nothing: `tried`, `tries` and `undone` the tries, `calm` when a tick began that reached a
person, heard of or not, `offRecord` of whom `last_contacted_at` does not say so, `missed`
whom a tick in progress elsewhere has reached, and `refused` who had opted out when a tick
began.

### CaseLifecycle

A handler is one READ COMMITTED transaction, and three steps of it can be told apart
from outside: it is *called* (`processed_at` has been read, Razorpay is being asked),
it has *read* (its upserts hold row locks, and it has selected the cases to work on),
and it has committed. `Locks` says which rows an event's upserts lock; nothing else
orders two handlers. A case is named by the failed payment that opened it, since
`razorpay_payment_id` is unique; a debt is an invoice or, for a checkout, an order.

| Code | Action |
|---|---|
| `process_event` up to the handler's first write | `Call` |
| upserts, and the SELECT of the cases concerned | `Read` |
| `handle_payment_failed`, `_open_checkout_case` with `open_recovery_case` | `OpensCase` |
| ... a repeat failure, or a replay of the first one | `RepeatsFailure` |
| ... a checkout of nobody we know | `IgnoresStranger` |
| `handle_payment_captured`, `_subscription_charged`, `_order_paid`, `_payment_link_paid`: `_record_recovery` for each case | `CreditsPayment` |
| `handle_subscription_pending`, `_halted` | `MarksSubscription` |
| the handler raises, or the process dies: rollback | `GivesUp` |
| Razorpay's side: charges, paid links, failing subscriptions | `ChargeFails`, `ChargeSucceeds`, `LinkIsPaid`, `SubscriptionFails` |
| the orchestrator, as far as a handler notices | `Ring`, `Stop` |
| `apply_call_result` over whatever the case has become | `Refuse`, `HangUp` |

Events stay in `sent` and are dispatched in any order, by several dispatchers at once if
they overlap, until one of them commits: that is what `WebhookIntake` allows
(`OverlapBoundsEffects` is its bound). `payers` holds the customers with a row: whose
subscription it is, or whose checkout. The grace period of a checkout is the policy's
business, and the failure of a stranger's checkout leaves no case.

### PaymentLinks

A link is known by its reference, which is made of the case and its attempt count.
Razorpay keeps references for ever and a link may be paid from the moment it was asked
for, whatever has become of the session that asked. The worker holds the row's lock
from its claim to its commit; the others read the row, ask Razorpay, and write.

| Code | Actions |
|---|---|
| a tick claims, and stops what has no budget left | `Claim`, `StopCase` |
| the tool of a call, the outcome of a call, `recover.py`: load the case | `ToolReads`, `OutcomeReads`, `OperatorReads` |
| `create_recovery_link`: the case has a link | `Resend` |
| ... it has none: made; made but unanswered; reference in use or Razorpay down | `Create`, `CreateUnanswered`, `CreateFails` |
| `charge_mandate` | `Charge`, `ChargeUnanswered`, `ChargeFails` |
| `initiate`, `open_call_record`, the end of the call | `Dial`, `Connects`, `HangsUp` |
| `apply_call_result` of a refusal, a wrong number, a dispute | `Refuse` |
| the tick's commit, after `_record_delivery` | `CommitTick`, `CommitFailure` |
| any other session's commit, or its exception | `Commit`, `GivesUp` |
| a death, or a commit that fails | `Dies` |
| the customer and Razorpay; `handle_payment_link_paid`, `handle_payment_captured` | `Expires`, `Pays`, `Captured`; `Credit` |

`Choices` allows the tick whatever `decide()` may choose at these counts, for any hour and
cause. `Connects` waits for the tick that dialled: a row of `voice_calls` refers to the
case the tick has locked. `slips`, `met` and `refused` record what a property
excuses. A refusal closes whatever the case is, a paid one too, and spends its attempts;
"stopped" stands for "declined" as well. `Captured` sends a webhook with the notes of the
charge, or one with the empty list `webhooks/handlers.py:42` provides for: that one finds
no case, as the charge is on no invoice and its order is not the one of the case, and
changes nothing; `captured` counts the others.

### The call: CallHandoff, VoiceSession, LiveKitCall

| Code | Actions of `CallHandoff` |
|---|---|
| `call_body`, `stream_parameters`, `initiate` of a channel | `Dial` |
| a browser session, the LiveKit console | `Visit` |
| the media-stream handshake, which may lose the body | `Answered` |
| `context_from_body` / `dunning_session`; the case of a demo, the sample | `AgentIsTold` |

A value on the wire is a pair of a type and a value, because what differs between the
two channels is types: Twilio carries strings, and leaves out what is null or false.

| Code | Actions of `VoiceSession` |
|---|---|
| `open_call_record` and the opening line | `Connect` |
| the caller's turn, over the agent or not | `CallerSpeaks` |
| a run of the model: a line or none, then at most one tool call | `ModelAnswers` with `Speak` |
| ... `on_transition`, accepted or refused | `Move`, `Reject` |
| ... a tool of the MCP server | `UseTool` |
| the end of `on_transition`: `finished.set()` | `AnnounceEnd` |
| `SpeechWatcher`, `note_tts_failure` | `LineStarts`, `LineStops`, `LineFails` |
| `finalise` by the watcher, and its write | `WatcherFinalises`, `WatcherPersists` |
| `_let_the_closing_line_finish`, await by await | `Look`, `Drained`, `Begun`, `HangsUp` |
| the caller hangs up; the runner returns, `watcher.cancel()` | `CallerHangsUp`, `Unwinds` |
| `finalise` by `bot()`, and its write | `BotFinalises`, `BotPersists` |
| the process dies | `Dies` |

A step is what runs between two awaits. Waking from an `asyncio.Event` is two steps, the
`set()` and the task going on, since the event may be cleared in between: `draining`
and `drained`, `expecting` and `begun`. A cancelled transaction is rolled back unless its
commit had reached the database, and `Unwinds` may do either.

| Code | Actions of `LiveKitCall` |
|---|---|
| `dunning_session` | `StartSession` |
| the transition tool | `Transition` |
| `on_enter`, once its reply has been spoken | `Enter` |
| `finalise_call`; `drain` and `aclose` | `Saves`, `Close` |
| the caller leaves | `CallerLeaves` |

### OutputRail

| Code | Actions |
|---|---|
| `build_guardrail` | `Build` |
| the three frames of a response | `TurnStarts`, `Piece`, `TurnEnds` |
| the check answers, or fails open | `Releases`, `Refuses` |
| an interruption | `Interrupted` |

What a rule catches is a bit of a piece of text. Releasing a turn is one step: an
interruption in the middle of the loop that pushes the held frames is not split off,
since those frames are flushed downstream by the same interruption.

### RecoveryReport

| Code | Actions |
|---|---|
| `open_recovery_case`, a tick, the result of a call | `OpensReal`, `Works`, `CallResult` |
| a payment handler: the SELECT and the time; `mark_recovered` and the commit | `PaymentArrives`; `PaymentCommits` with `MarkRecovered` |
| `clear`, seeding | `ClearBatch`, `SeedCase` |
| the simulated days: ticks, links paid unprompted, calls | `StartBatch`, `SimulatedTick`, `Settles`, `SimulatedCall`, `NextDay` |
| the clock | `Tick` |

Simulated days end today, so a simulated payment may lie on another day than the call that
promised it. `SimulatedTick` works *every* live case, a real one too, as `run_once` does.
The handlers of two payments of one case may overlap: nothing locks the case between its
SELECT and the UPDATE, which names the row and not the status it had.

## 3. What is checked

### Runs that pass

| Run | Instance | Properties |
|---|---|---|
| `intake` | one event delivered twice, two API slots, one sweeper, one death or lost answer, one requeue | types; `CommitIsAtomic`; `OverlapBoundsEffects`; `NotBuriedEarly`; `OneRecorder`; `ClaimIsHonest`; `ImplementsLedger` |
| `intake_live` | two events, the failing one in front, a sweep of one row at a time, one death | `EveryEnvelopeSettles` |
| `policy` | thresholds of `config.py` in units of six hours; every fact on both sides of each | `DecisionMeetsReference`; `ParkingIsTight`; `WaitingChangesNothing`; `NothingWaitsForEver` |
| `orchestrator` | two debts of one person, two workers, answers that may be lost, one tick that dies | types; `TriesAreBounded`; `NobodyIsChasedForAClosedCase`; `OptOutIsHonoured`; `CooldownHoldsOnRecord`; `ImplementsPursuit` |
| `orchestrator_live` | the same person, one worker, batches of one case, ticks that may last a unit, answers that may be lost, Redis that may be down | `EveryCaseCloses` |
| `lifecycle` | two attempts on one invoice, a recovery link, two dispatchers, one rollback; the report on two cases, real or simulated, one promise and two payments each | `RecoveredByRealMoney`; `EveryFailureIsOnFile`; `OneCasePerInvoice`; `ImplementsBook`; `ScoresSettle` |
| `lifecycle_serial` | two attempts on one invoice, a checkout, a subscription that halts, one dispatcher, one rollback | types; `PaidCasesClose` |
| `links` | one debt, a worker and two sessions beside it, two attempts, two failures, a mandate that may be charged twice, with or without notes, calls that may refuse | types; `DebtIsAskedOnce`; `PaidMoneyIsCredited` |
| `call` | the whole dunning flow on either agent, one fault of any kind; the body of a call over amounts, languages and reasons of every kind; turns of two pieces through the rail | types; `RowTellsTheCall`; `OutcomeIsRecorded`; `OutcomeIsFinal`; `AmountFollowsIdentity`; `SelfTalkIsBounded`; `GoodbyeIsHeard`; `FinishedCallsEnd`; `LiveKitKeepsEndings`; `CaseArrivesWhole`; `TurnIsWholeOrWithheld` |

What they show:

* *CommitIsAtomic*: an envelope is marked exactly when a handler's writes are committed,
  through every death. *OverlapBoundsEffects*: the early return on `processed_at` does not
  make dispatch exactly-once, but it bounds how often a handler can commit by the number
  of dispatchers. (`webhooks/pubsub_router.py:87` has it that "a redelivery racing the
  cron sweep is a no-op rather than a double dispatch". That is `RedeliveryIsNoOp`, which
  holds for a single dispatcher only: `processed_at` is read without a lock and written at
  the end, so a push and a sweep can both read it before either commits.)
  *NotBuriedEarly*: lost updates delay a dead letter, and what counts against an envelope
  is what failed since it was last requeued, with one exception: a call that had read the
  count before the requeue writes it back, plus one, after it, and may bury the envelope
  on the spot. *OneRecorder*, *ClaimIsHonest*: Redis may fail open, expire or forget
  without two requests owning one event, and a key always stands for something.
  *ImplementsLedger*: seen from outside, intake is the four-state ledger.
* *DecisionMeetsReference* compares the ordered rules with an order-free statement of
  `decide()`'s docstring. *ParkingIsTight*: at no time before `retry_after` would
  `decide()` have acted, and at `retry_after` the rule that parked the case has let go.
  *WaitingChangesNothing*: what happens in the end does not depend on when the case is
  looked at. *NothingWaitsForEver*: the bank's grace ends by the clock, whether or not
  `subscription.halted` arrives.
* *TriesAreBounded*: the two budgets end a case after
  `max_attempts * max_delivery_failures` tries, although each success resets the second;
  a rollback gives back exactly the tries it undid. *NobodyIsChasedForAClosedCase*
  needs the row lock, from the claim to the commit. *ImplementsPursuit*: of all that
  workers, handlers, calls and rollbacks do, this is what happens to cases: they are
  tried while they are live, by one worker at a time and within the budgets, do not
  close under a try, and stay closed; a tick that dies takes back records of its own
  tries, each once.
  *OptOutIsHonoured*: whoever had opted out when a tick claimed its batch is not tried in
  it, about any of their debts. A tick already under way may still try them, once per
  debt, as it goes by the row it has read (the hazard at `orchestrator.py:98`).
  *CooldownHoldsOnRecord*: whoever is tried was last reached a whole cooldown ago, from
  the start of that tick to the start of this one, over all of their debts. The
  exceptions are those the code has: a contact whose answer was lost or whose tick was
  rolled back is on no record, a tick that began earlier may commit an older stamp over a
  newer one, and a tick that overlaps is not heard of until it has committed.
  *EveryCaseCloses*: with one case to a batch, the one at the bottom of the queue closes
  too, since what is above it is parked or closed in the end.

* *RecoveredByRealMoney*: of the four ways to attribute a payment none leads to a case of
  another debt, and none to a case no money came in for; a case closed by its
  subscription's payment counts as its own, as in the code. *EveryFailureIsOnFile*:
  neither a rollback nor a race loses a failure whose envelope is marked. It may be on
  file more often than it happened: a replay is recognised by the payment that opened the
  case, so a repeat failure dispatched twice is logged twice, `store.py:4` ("every write
  here is safe to replay") notwithstanding. *ImplementsBook*: overlapping handlers make no
  entry that serial ones could not. No closed case comes back to life, though handlers
  write on what they selected some time before and calls on whatever there is; a failure
  is filed on its own case or with one of the same debt; only money for a case recovers
  it; and a charge is entered on a case once. The last rests on the order inside the
  handlers: they upsert the payment, and so take its lock, before they select cases. A
  link payment can be credited twice, since its two events find the case by id and a call
  that ends between them takes the case out of `recovered` again. *OneCasePerInvoice*: an
  invoice has one live case, unless two failures of it were in hand at once and had both
  found none; replays, rollbacks and payments in between make no second one.
  *PaidCasesClose* holds when dispatch is serial: with two dispatchers a payment handler
  that selected cases before the failure's handler inserted one leaves it open.
* *DebtIsAskedOnce*: four sessions can make a link and one of them locks the row, yet a
  case has one link in its life: the reference is the attempt count, and whoever sends
  later sees the link on file, as long as no answer or commit was lost and no two sent
  at the same time. *PaidMoneyIsCredited* needs neither excuse: every link carries the
  case, so that money paid on a link no row remembers closes the case too, and nothing
  opens it again. A refusal that comes after the payment makes it declined or stopped,
  which is as closed, though no longer counted as recovered; and a charge whose
  webhook comes without notes closes nothing.
* *RowTellsTheCall*, *OutcomeIsFinal*, *OutcomeIsRecorded*: two tasks write the outcome of
  a call of which one is cancelled by the other; what is written is what the walker says
  when the call is over, or that a line was lost, if one was before the outcome was taken
  (one lost later, of the goodbye say, is not on the row); it is never overwritten, and is
  missing only if a database error or that cancellation took it (the finding below).
  *AmountFollowsIdentity*: the flow gives the amount to nobody who has not said who they
  are; only a tool the model calls by itself can. *SelfTalkIsBounded*: refused and
  accepted transitions both run the model again without the caller, and the two counts
  cannot feed each other for ever. *GoodbyeIsHeard*: the watcher re-arms its events before
  the goodbye it waits for, and a line still under way is not taken for it, except the
  ones the property names. *FinishedCallsEnd*: the watcher's waits all have a timeout.
* *LiveKitKeepsEndings*: several `on_enter`s overlap over one walker; whichever is last
  to see the graph finished, the agent closes no session without its outcome.
  *CaseArrivesWhole*: strings or JSON, the agent speaks of the debt it was dialled for,
  and of a demo's only when a handshake lost the body. *TurnIsWholeOrWithheld*: a turn
  cut off while it was held leaves nothing for the next one.
* *ScoresSettle*: whether a promise was kept is recomputed at each report from a case
  that goes on changing. It stays as it was, except by the commit of a payment's handler
  that overwrites: one that selected the case before another payment was credited, or
  before the deadline, and committed after, or one of a case that was paid, refused
  by telephone, and paid again. The new score is then the one of that payment's time. No
  call alone, and no simulated batch on the same database, changes a score, although the
  ticks of a batch work real cases as well.

### Disagreements between the code and what is said of it

Each is a run that states the sentence as a property and finds it violated.

| Run | What is said | What happens |
|---|---|---|
| `intake_lost_event` | `webhooks/processor.py:52`: "The cache can only ever say "definitely seen"" | a request that dies between claim and commit (or whose `forget` fails) leaves the key; the redelivery is answered `duplicate` and the event is never stored |
| `orchestrator_two_workers` | `orchestrator.py:237`: the cooldown "lets a *second worker on another machine* see it before this transaction commits" | it is published after the commit, and read without being taken: two workers contact one person at once about two debts (a lost answer does the same with one worker) |
| `call_lost_outcome` | `voice/pipecat_agent.py:1147`: finalise is called on both ends "so a caller who hangs up mid-conversation still leaves a recorded outcome" | the flag is set before the write: if the caller hangs up while the watcher writes, the watcher is cancelled, the transaction is rolled back and the second call returns at the flag |

Four more sentences are false of the code and have no run of their own. Each shows in
an instance of a module here:

* `orchestrator.py:167` (and `mandate.py:82` in other words), that after a failed mandate
  retry "the next tick falls through to a payment link instead": the failure spends no
  attempt and the rule asks for `attempt_count == 0`, so the mandate is tried until the
  case is undeliverable. (`FailedMandateFallsToLink`, with `MandateRetryEnabled = TRUE`
  and `Diagnosis = "customer_funds"` in an instance of `MCOrchestrator`.)
* `webhooks/handlers.py:106`, "One debt, one case.": looking for the invoice's case and
  inserting one are not atomic; once customer and subscription have rows no lock orders
  two failures, and each opens a case with a budget of its own. (`OneCasePerInvoice`
  excuses the debts in `raced`; without that excuse TLC finds it violated in `lifecycle`.)
* `webhooks/processor.py:187`, "so a requeued event gets a full budget rather than dying
  again on its first failure": a failure that is being recorded while the envelope is
  requeued writes the old count plus one. (`RequeueGivesFullBudget`, in `intake`.)
* `webhooks/pubsub_router.py:87`, `RedeliveryIsNoOp`, above.

Seen on the way, with no sentence that says otherwise: a link that has expired is never
replaced, and sending it again spends attempts; a mandate is charged although a link is
on file; the verdict of the answering machine (`voice/amd.py:61`) looks its call up by
a `call_id` that nothing writes, so that it never gives an attempt back; the row of a
call waits for the tick that dialled it; a simulated batch spends the attempts of real
cases and leaves them links of the simulation; after a refusal that follows a payment
the report counts the amount and not the case; the guardrail withholds the agent's own
amount when that has paise; a check that answers in an unknown shape lets a caught
sentence through.

### Bounds, and why they are enough

* *Unit of time.* `policy` counts in six hours and starts the day at 03:00, so that
  24 h, 72 h, 09:00 and 21:00 are whole; each fact takes the values next to its
  threshold. The orchestrator's instances count in twelve hours and start the day at
  09:00: the window is open every other unit, backoff and cooldown are two units.
  Ages saturate past the largest threshold and the longest tick, where the code no
  longer tells them apart.
* `MaxAttempts = MaxDeliveryFailures = 2`: least values for which a success between two
  failures, which resets one budget and not the other, can happen. `orchestrator_live`
  asks nothing about budgets and has `MaxDeliveryFailures = 1`.
* `MaxLag`: how long a tick lasts, in units. 0 leaves the interleavings within a tick
  and stops the clock; 1 lets every threshold pass while a tick runs.
* `BatchSize`: 2 lets one tick hold both debts of one person (`orchestrator`); 1 makes the
  order of the queue matter, and a case above the other hold it up (`orchestrator_live`).
* `MaxAborts`, `MaxFaults`, `MaxRequeues`: one each. The proofs have no such bound on
  their values; the runs need one to be finite.
* One person with two debts is the least system in which person and case differ;
  two workers the least in which locks matter. Symmetry is used on events, requests,
  API slots, workers, dispatchers, sessions and cases, never in a run with a liveness
  property (`ScoresSettle` is an action property).
* `lifecycle`: two attempts on one invoice are the least that make a repeat failure; two
  dispatchers the least that overlap, and the same event may be in the hands of both.
  One link payment has both of its events, with and without its note. `MaxGiveUps` is
  one: a second rollback finds the state the first one left. `Halting` says for which
  subscriptions Razorpay reports pending and halted: handling these only marks cases, so
  one run has them.
* `links`: two attempts give two references, the least for a second link to have another
  one; two sessions beside the worker the least that overlap with each other and with
  it. `MaxCharges = 2`: the second charge is the one that must not happen.
* `call`: the graph is the real one. `MaxLines = 1` line waits while another is heard,
  which makes a line behind the goodbye; `MaxRetries = 1` (2 in the code) has a
  transition refused, refused again and given up; `MaxFaults = 1`: each fault alone, as
  the properties say what a fault excuses. `MaxPieces = 2` pieces, since a turn is whole
  or not from the second piece on. `CallDebts` has an amount of each kind the code tells
  apart.
* The report: `Window = 1` day, simulated batches of two days, a clock of four: a promise
  can be kept, lapse, be paid late and be looked at afterwards, and a second payment of the
  case can come at any of these times or be handled together with the first. A second
  promise of a case (`MaxPromises = 2`) is left to the proof, which has no bound on them.
* A run that finds a violation gets the least instance that shows it, with every fault
  switched off that the claim does not allow for.
* Deadlock is not an error in any run: when the bounds are spent and every case is
  closed, the system has nothing to do.

### Fairness

* *Intake* (`IntakeFairness`): rows grow old, the sweep runs and goes on, and a handler's
  calls return or raise (`worker.py` runs the sweep at every tick, the HTTP client and
  the driver have timeouts). Nothing is assumed of requests, background tasks or
  pushes, which is why the sweep exists.
* *Orchestrator* (`OrchestratorFairness`): time passes (strongly, since a tick that takes
  no time disables the clock while it lasts); a tick that has started goes on; and a
  worker with something to claim in the contact window again and again claims in the
  window again and again. The last is strong fairness, and is what a start every five
  minutes and a window of twelve hours give. Nothing is assumed of customers,
  webhooks or calls.
* *Handlers* (`LifecycleFairness`): intake keeps dispatching what is stored and not done
  (`EveryEnvelopeSettles`), a handler that has started returns, and fewer of them give up
  than `webhook_max_attempts`, so that no envelope is buried.
* *Calls* (`VoiceFairness`): a task that can go on does, and a wait that has a timeout
  ends. Nothing is assumed of the caller, the model, or the audio.

## 4. What is proved

For every value of the constants that meets the modules' assumptions. These say what
kind of value each constant has, that the sentinels are no ordinary values, that the
sets of dispatchers are finite, that no two cases score the same (the code breaks such
ties by `created_at`), that an invoice or order is not a subscription, that a graph has
passed `validate` (`GraphIsValid`, which the code checks when it builds one), and that no
ending's intent is one of the words recorded for a call without an ending
(`IntentsAreEndings`).

`IntakeProofs`

| Theorem | Says |
|---|---|
| `IntakeTypeCorrect` | types |
| `CommitAtomicity`, `EffectsBounded`, `NoEarlyBurial`, `SingleRecorder`, `HonestClaims` | the five invariants of run `intake` |
| `ExactlyOnceWhenSerial` | with one dispatcher the comment's claim is true: a handler commits at most once |
| `IntakeImplementsLedger` | every step of intake is a step of the ledger or a stutter |

The argument: type correctness first. Then each invariant is strengthened until it is
inductive. *CommitIsAtomic* is nearly so: nothing but the commit touches either side.
*NotBuriedEarly* says of every count, in the table and in the hands of a
call, that it was earned since the last requeue or read before it (*CountsAreEarned*).
*OverlapBoundsEffects* counts commits and running calls together, so that a commit
moves one from the second to the first; a new call starts only on an unmarked
envelope, for which the bound is on running calls alone. The refinement maps each
row to its status; every other variable is invisible to the ledger.

`OrchestratorProofs`

| Theorem | Says |
|---|---|
| `OrchestratorTypeCorrect` | types, which include that neither count of a case passes its limit |
| `NobodyChased` | `NobodyIsChasedForAClosedCase` |
| `ClosedForGood` | `ClosedStaysClosed`: no step takes a case out of the closed statuses |
| `TriesBounded` | `TriesAreBounded` |
| `OptOutHonoured` | `OptOutIsHonoured` |
| `OneContact` | `CooldownHoldsOnRecord` |
| `OrchestratorImplementsPursuit` | `ImplementsPursuit` |

The types alone are not inductive: that a count stays below its limit when a try is
recorded depends on `decide()` having seen the same row, which depends on the lock. So
the invariant comes in four layers, each inductive given the ones before.

1. *Held*: whatever a worker has in its batch, has tried or has in hand, it has locked;
   and a case in the middle of a try is within both budgets. With the types this gives
   `OrchestratorTypeCorrect`.
2. *Standing*: a locked row is live in the database, and a case not yet opened has
   blank counters. The lock keeps closers waiting, so what was live at the claim is
   live at the try (`NobodyChased`), and a batch only writes over live rows
   (`ClosedForGood`).
3. *Counted*: each try is in the two counters of the row, in the batch under way, or in
   one that was rolled back. `Spent` weighs an attempt as a whole run of failures, so
   that the reset of the second budget never lowers it; that it is at most
   `max_attempts * max_delivery_failures` is `TriesBounded`.
4. *OnFile*, which only the refinement needs: what is locked or on the telephone has been
   opened; a try under way is among those of its tick; and the records lost, with the one a
   death would now lose, are no more than the tries.

`OrchestratorImplementsPursuit` maps each status to absent, live or closed, and the
workers' hands to the set of cases with a try under way. `Act` is a try, `Delivered` and
`NotDelivered` its answer; `Abort` loses the records of all tries of the tick at once, and
`Commit` closes all cases the batch has stopped or given up at once, which is why
`Loses` and `Closes` take sets. The row lock does the rest: *Held* gives that two
workers never have one case in hand, and whoever writes waits for them, so that no case
closes under a try. That a try is within the budget is `TriesBounded` in the state after it.

Two more stand on the first layer and follow the person (*PersonInv*), for any number of
workers and with losses of every kind. *Session*: a worker who tries somebody is *Unaware*,
that is, has read their row without an opt-out and with a cooldown behind it; and of
those who had opted out when its tick began it has read nothing else, which is
`OptOutHonoured`. `OneContact` adds what the columns are worth: *OnRecord*, that
`last_contacted_at` is when the person was last reached, unless they are off the record
or a tick in progress has yet to commit it; *Overlaps*, that such a tick is known as missed
to whoever has read the row meanwhile; and *Rested*, that whoever has read a row a cooldown
old may go by it, with those two exceptions.

`LifecycleProofs`

| Theorem | Says |
|---|---|
| `LifecycleTypeCorrect` | types |
| `RealMoney` | `RecoveredByRealMoney` |
| `NoFailureLost` | `EveryFailureIsOnFile` |
| `ChargeCreditedOnce` | `CreditedOnce`: a charge is credited to a case once |
| `OneCaseUnlessRaced` | `OneCasePerInvoice`, for any number of dispatchers |
| `LifecycleImplementsBook` | `ImplementsBook` |

All stand on one base invariant: types; *Mailed*, that what a stored event says of
Razorpay and of the case it names is still true; *Opened*, that whatever a handler has
selected or a worker has rung exists. Then each adds what its handlers hold between
selecting and committing.

* `RealMoney`: *Grasped*, the payment in hand is for every case selected.
* `NoFailureLost`: every case that exists is on file, which is why a failure that finds
  itself among the cases selected may go unrecorded.
* `ChargeCreditedOnce`: *Exclusive*, no two handlers that have selected have the same
  payment in hand (its row is locked); *Once*, a case credited with a charge is closed
  and stays closed; *Fresh*, whoever is about to credit a charge is the first.

* `OneCaseUnlessRaced`: *FoundNone*, a failure that found no case of its invoice would
  still find none, or its debt is in `raced`; *Together*, two that have both found none are
  there. No lock says so of two handlers, which is why the second case is the history's.
* `LifecycleImplementsBook`: the invariants of the second and fourth theorem, and
  *SameDebt*, that the case a repeated failure has found is of its debt. What a payment is
  worth is the cases `PaysFor` gives it once it is captured, so money comes in by
  Razorpay's steps alone and a handler may only enter it.

`LinksProofs`

| Theorem | Says |
|---|---|
| `LinksTypeCorrect` | types, among them that the row is locked exactly while a tick is on, and that the link on file exists |
| `DebtAskedOnce` | `DebtIsAskedOnce` |
| `PaidMoneyCounts` | `PaidMoneyIsCredited` |

The lock makes what the worker has read still true when it writes (*Held*). Without
losses, *Alone* and *Single* say that the one link there is is on file or in the hands of
the one session that is not overlapped, and *Charged* that a charge is either in the
attempt count or in the tick under way. A refusal waits for the lock, like every other
writer, and spends attempts without giving any back. Money is in `owed` or has closed the
case; what has closed by money is not worked again, and stays closed under a refusal.

`CallProofs`, over every valid graph

| Theorem | Says |
|---|---|
| `CallTypeCorrect`, `CallLeavesOutcome`, `OutcomeWrittenOnce`, `RowIsTrue`, `GoodbyeComesThrough`, `IdentityComesFirst` | the properties of `VoiceSession` that the run `call` checks, without liveness |
| `DunningFlowGuards` | the dunning flow meets what `IdentityComesFirst` asks of a graph |
| `SelfTalkEnds` | `SelfTalkIsBounded`, for a graph in layers |
| `DunningFlowIsLayered` | the dunning flow is such a graph |
| `LiveKitEndsOnRecord` | `LiveKitKeepsEndings` |
| `DebtArrivesWhole` | `CaseArrivesWhole`, for any debts |
| `CallIsItsParts` | the composition of `DunningCall` is a call of the session, of the older agent and of the rail |
| `CallIsSafe` | so all of the above holds of a call from its dispatch to its outcome |

One base invariant: types; *Roles*, which of watcher and `bot()` may be writing, and that
both have set the flag; *Endings*, that the graph has ended if it was announced;
*Truthful*, that the result a writer carries, and the row once written, says "muted"
exactly if a line had failed before the flag was raised, and else what the walker
still says; *Waits*, what each position of the watcher
says of the two events; and *Kept*, that a flag without an outcome has a writer or a
loss. An ending is a stage without edges, which is why a result read before the write
is true after it.

`SelfTalkEnds` counts: a run of the model without the caller belongs to an edge that was
followed or to a refusal since, and a layer costs at most `MaxRetries + 1` of them, the
refusals there and the edge that leaves it. Layers are an assumption: `validate` rejects
an edge from a node to itself and no longer cycle, and on a cycle the bound would be false.

`DebtArrivesWhole` is about conversions: for every debt, what is on the wire is what
`call_body` made of it (*OnTheWire*), and of that, each parameter a string or absent on one
channel and JSON on the other, `context_from_body` and `dunning_session` make the debt again.

`RailProofs`: `RailHolds` is `TurnIsWholeOrWithheld`. Its invariant says what the buffer
is at each point of a turn (*TurnIsWholeOrWithheld* needs the buffer to be the turn when
it is vetted, although an interruption leaves the buffer behind).

`ReportProofs`: `ScoresSettled` is `ScoresSettle`. Its invariant is that every date is at
most now, a simulated day too (*Dated*), and that a handler which selected a paid case
selected it recovered or stopped (*Grasped*); then each action leaves a case as it is, adds
a promise at the end, or is the commit of a handler with a time of its own.

`PolicyProofs`: `DecideMeetsReference` and `RetryAfterIsTight` are
`DecisionMeetsReference` and `ParkingIsTight`, for any thresholds, any window and any
facts. Each is a statement about one decision; the invariant is only which facts there
are. Stops rest on facts that time does not change; each wait is a stamp compared with a
threshold, which saturation at `Horizon` does not disturb; and `retry_after` is the
difference of the two. `WaitingOnlyDefers` is `WaitingChangesNothing`, if the window opens
at all (the code takes any two hours, and where the first is not before the second nobody
is ever contacted): past the last threshold only the hour makes a case wait, so within a
day of it there is a time at which `decide()` acts, and at all times at which it acts it
does the same, which is shown rule by rule, each threshold being passed in one direction
only.

Only model-checked: liveness (`EveryEnvelopeSettles`, `NothingWaitsForEver`,
`EveryCaseCloses`, `PaidCasesClose`, `FinishedCallsEnd`), which rests on fairness and
ENABLED, both out of the prover's reach. Every other property of a passing run is
stated by a theorem. The runs are more than a first test of them: TLC also evaluates the
assumptions on the constants, and finds each property false of a mutant.

## 5. What is not modelled, and what comes next

Not modelled, and why:

* the HTTP exchange with the carriers and Razorpay (`razorpay/`, the bodies of
  `initiate`): requests that are answered, refused or lost, which is what the actions
  that make them choose between; signature checks reject before any state changes;
* the Twilio callbacks and `voice/amd.py`: they log, or look up a call they cannot find;
* text normalisers, prompts, `voice/reasons.py` and `routes.py` beyond what
  `CallHandoff` says of them: conversions without state, tested by example;
* speech services and the building of the pipeline: adapters of models;
* `payment.authorized` and `subscription.authenticated`, which only upsert;
* sums of money, rates and layout of the report: `RecoveryReport` says which rows a figure
  is about, the arithmetic over them is a sum;
* migrations and the schema, beyond the constraints the modules state;
* a deadlock of two transactions in Postgres, modelled by its effect (`Abort`) and not by
  its cause.

What would come next: amounts in `CaseLifecycle` (one payment is credited in full to every
case it closes); an abstract specification of what the links of a debt and of what a call
promise, for `PaymentLinks` and `VoiceSession` to implement; `WebhookIntake` and
`CaseLifecycle` composed, the dispatcher of the one being that of the other.

## 6. Running it

    tlc -workers 2 -config intake.cfg MCWebhookIntake
    tlc -workers 2 -config policy.cfg MCPolicyWalk
    tlc -workers 2 -config orchestrator.cfg MCOrchestrator
    tlc -workers 2 -config lifecycle.cfg MCRecoveryReport
    tlc -workers 2 -config lifecycle_serial.cfg MCCaseLifecycle
    tlc -workers 2 -config links.cfg MCPaymentLinks
    tlc -workers 2 -config call.cfg MCVoice
    tlapm IntakeProofs.tla

and likewise for the other configurations of the same module and the other modules of
proofs. The longest runs take two to four minutes.
