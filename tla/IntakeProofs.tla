----------------------------- MODULE IntakeProofs -----------------------------
(***************************************************************************)
(* What the runs check of WebhookIntake on small instances, proved for any *)
(* number of events, requests, API slots and sweepers.                     *)
(***************************************************************************)
EXTENDS WebhookIntake, FiniteSetTheorems, TLAPS

(***************************************************************************)
(* Type correctness.                                                       *)
(***************************************************************************)
\* Nothing but an INSERT changes which envelopes are stored.
LEMMA StoredFrame == Stored \subseteq Events /\ (UNCHANGED pk => Stored' = Stored)
BY DEF Stored

\* A saturated count stays in range and never goes down.
LEMMA CountUpType ==
  ASSUME NEW n \in 0..MaxAttempts
  PROVE  CountUp(n) \in 0..MaxAttempts /\ CountUp(n) >= n
BY IntakeAssumption DEF CountUp

\* A fault spends one unit of its budget.
LEMMA FaultType ==
  ASSUME faults \in 0..MaxFaults, requeues \in 0..MaxRequeues, Fault
  PROVE  faults' \in 0..MaxFaults /\ requeues' \in 0..MaxRequeues
BY IntakeAssumption DEF Fault

\* Ending a call of process_event leaves every call well formed.
LEMMA IdleType ==
  ASSUME IntakeTypeOK, NEW d \in Dispatchers, Idle(d), UNCHANGED pk
  PROVE  /\ pc' \in [Dispatchers -> {"idle", "handling", "failed", "recording"}]
         /\ at' \in [Dispatchers -> Events \cup {NoEvent}]
         /\ \A c \in Dispatchers : pc'[c] # "idle" => at'[c] \in (Stored \cap Handled)'
         /\ read' \in [Dispatchers -> 0..MaxAttempts]
         /\ fatal' \in [Dispatchers -> BOOLEAN]
BY IntakeAssumption DEF IntakeTypeOK, Idle, Stored

\* ... and only a call that is recording can hold a stale count.
LEMMA IdleStale ==
  ASSUME IntakeTypeOK, NEW d \in Dispatchers, Idle(d),
         stale' = stale \ {d} \/ (pc[d] # "recording" /\ stale' = stale)
  PROVE  stale' \subseteq {c \in Dispatchers : pc'[c] = "recording"}
BY DEF IntakeTypeOK, Idle

\* Starting one does too, whoever starts it.
LEMMA DispatchType ==
  ASSUME IntakeTypeOK, NEW d \in Dispatchers, NEW e \in Stored, Dispatch(d, e),
         batch' \in [Sweepers -> SUBSET Stored], topic' \subseteq Stored,
         tasks' \subseteq Stored, faults' \in 0..MaxFaults,
         requeues' \in 0..MaxRequeues
  PROVE  IntakeTypeOK'
<1>. USE DEF cacheVars, callVars, historyVars
<1>1. Stored' = Stored /\ e \in Events
  BY StoredFrame DEF Dispatch
<1>2. CASE Handle(d, e) /\ e \in Handled
  BY <1>1, <1>2 DEF IntakeTypeOK, Dispatch, Handle, Recorded
<1>3. CASE processed' \subseteq processed \cup {e} /\ UNCHANGED callVars
  BY <1>1, <1>3 DEF IntakeTypeOK, Dispatch, Recorded
<1>. QED BY <1>2, <1>3 DEF Dispatch, Begin, callVars

\* Inserting a row makes exactly its event stored.
LEMMA StoreRowType ==
  ASSUME IntakeTypeOK, NEW e \in Events, StoreRow(e)
  PROVE  /\ pk' \in [Events -> Nat]
         /\ Stored' = Stored \cup {e}
         /\ IsFiniteSet(Stored')
         /\ UNCHANGED <<processed, dead, attempts, aged>>
<1>1. Cardinality(Stored) + 1 \in Nat \ {0}
  BY FS_CardinalityType DEF IntakeTypeOK
<1>2. pk' \in [Events -> Nat] /\ Stored' = Stored \cup {e}
  BY <1>1 DEF IntakeTypeOK, StoreRow, Stored
<1>3. IsFiniteSet(Stored \cup {e})
  BY FS_AddElement DEF IntakeTypeOK
<1>. QED BY <1>2, <1>3 DEF StoreRow

\* One step of a delivery keeps the types.
LEMMA RequestStepType ==
  ASSUME IntakeTypeOK, NEW r \in Requests, RequestStep(r)
  PROVE  IntakeTypeOK'
<1>. USE DEF cacheVars, rowVars, apiVars, callVars, boundVars, historyVars
<1>1. CASE \E e \in Events : CacheSaysSeen(r, e) \/ Claim(r, e) \/ ClaimFailsOpen(r, e)
  <2>1. PICK e \in Events : CacheSaysSeen(r, e) \/ Claim(r, e) \/ ClaimFailsOpen(r, e)
    BY <1>1
  <2>2. Receive(r, e, "duplicate") \/ Receive(r, e, "inserting")
    BY <2>1 DEF CacheSaysSeen, Claim, ClaimFailsOpen
  <2>3. claimed' \subseteq Events /\ orphaned' \subseteq claimed'
    BY <2>1, <2>2 DEF IntakeTypeOK, CacheSaysSeen, Claim, ClaimFailsOpen, Receive
  <2>. QED BY <2>2, <2>3, StoredFrame DEF IntakeTypeOK, Receive, Recorded
<1>2. CASE Insert(r)
  <2>1. about[r] \in Events
    BY <1>2 DEF Insert, RequestMoves, IntakeTypeOK
  <2>2. StoreRow(about[r])
    BY <1>2 DEF Insert
  <2>. QED BY <1>2, <2>1, <2>2, StoreRowType DEF IntakeTypeOK, Insert, RequestMoves, Recorded
<1>3. CASE InsertConflict(r)
  BY <1>3, StoredFrame DEF IntakeTypeOK, InsertConflict, RequestMoves, Recorded
<1>4. CASE InsertFails(r)
  <2>1. about[r] \in Events
    BY <1>4 DEF InsertFails, RequestMoves, IntakeTypeOK
  <2>2. /\ claimed' \subseteq Events /\ orphaned' \subseteq claimed'
        /\ faults' \in 0..MaxFaults /\ requeues' \in 0..MaxRequeues
    BY <1>4, <2>1, FaultType DEF InsertFails, Forget, IntakeTypeOK
  <2>3. CASE UNCHANGED rowVars
    BY <1>4, <2>1, <2>2, <2>3, StoredFrame DEF IntakeTypeOK, InsertFails, RequestMoves, Recorded
  <2>4. CASE StoreRow(about[r])
    BY <1>4, <2>1, <2>2, <2>4, StoreRowType DEF IntakeTypeOK, InsertFails, RequestMoves, Recorded
  <2>. QED BY <1>4, <2>3, <2>4 DEF InsertFails
<1>5. CASE Announce(r) \/ Answer(r)
  BY <1>5, StoredFrame DEF IntakeTypeOK, Announce, Answer, RequestMoves, Recorded
<1>6. CASE RequestDies(r)
  <2>1. PICK from \in {"inserting", "recorded", "announced"} :
          RequestMoves(r, from, "killed")
    BY <1>6 DEF RequestDies
  <2>. QED BY <1>6, <2>1, FaultType, StoredFrame DEF IntakeTypeOK, RequestDies, RequestMoves, Recorded
<1>. QED BY <1>1, <1>2, <1>3, <1>4, <1>5, <1>6 DEF RequestStep

\* One step inside process_event keeps the types.
LEMMA CallStepType ==
  ASSUME IntakeTypeOK, NEW d \in Dispatchers, CallStep(d)
  PROVE  IntakeTypeOK'
<1>. USE DEF cacheVars, rowVars, apiVars, callVars, boundVars, historyVars
<1>1. CASE HandlerCommits(d)
  BY <1>1, StoredFrame, IdleType, IdleStale DEF IntakeTypeOK, HandlerCommits, Mark, Recorded
<1>2. CASE HandlerFails(d)
  BY <1>2, StoredFrame DEF IntakeTypeOK, HandlerFails, Recorded
<1>3. CASE ReadRow(d)
  BY <1>3, StoredFrame DEF IntakeTypeOK, ReadRow, Recorded
<1>4. CASE WriteFailure(d)
  <2>1. at[d] \in Stored /\ at[d] \in Events
    BY <1>4 DEF WriteFailure, IntakeTypeOK, Stored
  <2>2. /\ CountUp(read[d]) \in 0..MaxAttempts
        /\ CountUp(failures[at[d]]) \in 0..MaxAttempts
    BY <2>1, CountUpType DEF IntakeTypeOK
  <2>. QED BY <1>4, <2>1, <2>2, StoredFrame, IdleType, IdleStale
           DEF IntakeTypeOK, WriteFailure, Recorded
<1>5. CASE DispatcherDies(d)
  BY <1>5, StoredFrame, IdleType, IdleStale, FaultType
     DEF IntakeTypeOK, DispatcherDies, Recorded
<1>. QED BY <1>1, <1>2, <1>3, <1>4, <1>5 DEF CallStep

\* IntakeTypeOK is an invariant of webhook intake.
THEOREM IntakeTypeCorrect == IntakeSpec => []IntakeTypeOK
<1>1. IntakeInit => IntakeTypeOK
  <2>1. IntakeInit => Stored = {}
    BY DEF IntakeInit, Stored
  <2>. QED BY <2>1, FS_EmptySet, IntakeAssumption
           DEF IntakeInit, IntakeTypeOK, Recorded
<1>2. IntakeTypeOK /\ [IntakeNext]_vars => IntakeTypeOK'
  <2>. SUFFICES ASSUME IntakeTypeOK, [IntakeNext]_vars PROVE IntakeTypeOK'
    OBVIOUS
  <2>. USE DEF cacheVars, rowVars, apiVars, callVars, boundVars, historyVars
  <2>1. ASSUME NEW d \in Servers, NEW e \in Events, RunTask(d, e) PROVE IntakeTypeOK'
    BY <2>1, DispatchType DEF RunTask, IntakeTypeOK, Dispatchers
  <2>2. ASSUME NEW d \in Servers, NEW e \in Events, Push(d, e) PROVE IntakeTypeOK'
    BY <2>2, DispatchType, FaultType DEF Push, IntakeTypeOK, Dispatchers
  <2>3. ASSUME NEW s \in Sweepers, Sweep(s) PROVE IntakeTypeOK'
    <3>1. Oldest(Due) \subseteq Stored
      BY DEF Oldest, Due
    <3>. QED BY <2>3, <3>1, StoredFrame DEF Sweep, IntakeTypeOK, Recorded
  <2>4. ASSUME NEW s \in Sweepers, Replay(s) PROVE IntakeTypeOK'
    <3>1. PICK e \in batch[s] : /\ batch' = [batch EXCEPT ![s] = @ \ {e}]
                                /\ Dispatch(s, e)
                                /\ UNCHANGED <<tasks, topic, boundVars>>
      BY <2>4 DEF Replay
    <3>2. batch' \in [Sweepers -> SUBSET Stored] /\ e \in Stored
      BY <3>1 DEF IntakeTypeOK
    <3>. QED BY <3>1, <3>2, DispatchType DEF IntakeTypeOK, Dispatchers
  <2>5. ASSUME NEW e \in Events, ExpireClaim(e) PROVE IntakeTypeOK'
    BY <2>5, StoredFrame DEF ExpireClaim, IntakeTypeOK, Recorded
  <2>6. ASSUME NEW e \in Events, TaskDies(e) PROVE IntakeTypeOK'
    BY <2>6, StoredFrame, FaultType DEF TaskDies, IntakeTypeOK, Recorded
  <2>7. ASSUME NEW e \in Events, Age(e) PROVE IntakeTypeOK'
    BY <2>7, StoredFrame DEF Age, IntakeTypeOK, Recorded
  <2>8. CASE RequeueDead
    BY <2>8, StoredFrame, IntakeAssumption
       DEF RequeueDead, HistoryRestarts, KeepMark, IntakeTypeOK, Recorded
  <2>9. CASE UNCHANGED vars
    BY <2>9, StoredFrame DEF vars, IntakeTypeOK, Recorded
  <2>. QED BY <2>1, <2>2, <2>3, <2>4, <2>5, <2>6, <2>7, <2>8, <2>9,
              RequestStepType, CallStepType DEF IntakeNext
<1>. QED BY <1>1, <1>2, PTL DEF IntakeSpec
-----------------------------------------------------------------------------
(***************************************************************************)
(* Which steps touch what.  The invariants below need one case per kind of *)
(* step that can disturb them, and these lemmas sort the steps.            *)
(***************************************************************************)
\* A call of process_event begins, or its envelope needs no handler.
LEMMA DispatchEffects ==
  ASSUME NEW d, NEW e, Dispatch(d, e)
  PROVE  /\ UNCHANGED <<applied, pk, dead, attempts, failures, hopeless, stale, overrun,
                        req, about>>
         /\ UNCHANGED cacheVars
         /\ \/ UNCHANGED <<processed, callVars>>
            \/ e \notin Handled /\ processed' = processed \cup {e} /\ UNCHANGED callVars
            \/ e \in Handled \ processed /\ pc[d] = "idle" /\ Handle(d, e)
BY DEF Dispatch, Begin, historyVars, callVars, cacheVars

\* Handlers are applied and envelopes marked by three kinds of steps only.
LEMMA EffectSteps ==
  ASSUME IntakeTypeOK, [IntakeNext]_vars
  PROVE  \/ UNCHANGED <<processed, applied, callVars>>
         \/ UNCHANGED <<applied, callVars>>
            /\ \E e \in Events \ Handled : processed' = processed \cup {e}
         \/ UNCHANGED <<processed, applied>>
            /\ \E d \in Dispatchers, e \in Handled \ processed :
                 pc[d] = "idle" /\ Handle(d, e)
         \/ \E d \in Dispatchers : CallStep(d)
<1>. USE DEF cacheVars, rowVars, apiVars, callVars, boundVars, historyVars
<1>1. ASSUME NEW r \in Requests, RequestStep(r)
      PROVE  UNCHANGED <<processed, applied, callVars>>
  BY <1>1 DEF RequestStep, CacheSaysSeen, Claim, ClaimFailsOpen, Receive, Insert,
     InsertConflict, InsertFails, Announce, Answer, RequestDies, RequestMoves, StoreRow
<1>2. ASSUME NEW d \in Dispatchers, NEW e \in Events, Dispatch(d, e)
      PROVE  \/ UNCHANGED <<processed, applied, callVars>>
             \/ UNCHANGED <<applied, callVars>>
                /\ \E f \in Events \ Handled : processed' = processed \cup {f}
             \/ UNCHANGED <<processed, applied>>
                /\ \E c \in Dispatchers, f \in Handled \ processed :
                     pc[c] = "idle" /\ Handle(c, f)
  BY <1>2, DispatchEffects DEF Handle
<1>3. ASSUME NEW d \in Servers, NEW e \in Events, RunTask(d, e) \/ Push(d, e)
      PROVE  Dispatch(d, e) /\ d \in Dispatchers
  BY <1>3 DEF RunTask, Push, Dispatchers
<1>4. ASSUME NEW s \in Sweepers, Sweep(s)
      PROVE  UNCHANGED <<processed, applied, callVars>>
  BY <1>4 DEF Sweep
<1>5. ASSUME NEW s \in Sweepers, Replay(s)
      PROVE  s \in Dispatchers /\ \E e \in Events : Dispatch(s, e)
  BY <1>5, StoredFrame DEF Replay, Dispatchers, IntakeTypeOK
<1>6. ASSUME NEW e \in Events, ExpireClaim(e) \/ TaskDies(e) \/ Age(e)
      PROVE  UNCHANGED <<processed, applied, callVars>>
  BY <1>6 DEF ExpireClaim, TaskDies, Age
<1>7. RequeueDead => UNCHANGED <<processed, applied, callVars>>
  BY DEF RequeueDead, HistoryRestarts, KeepMark
<1>8. UNCHANGED vars => UNCHANGED <<processed, applied, callVars>>
  BY DEF vars
<1>. QED BY <1>1, <1>2, <1>3, <1>4, <1>5, <1>6, <1>7, <1>8 DEF IntakeNext

\* Inside process_event, only the commit of a handler does.
LEMMA CallStepEffects ==
  ASSUME NEW d \in Dispatchers, CallStep(d)
  PROVE  \/ HandlerCommits(d)
         \/ /\ UNCHANGED <<processed, applied>>
            /\ \/ Idle(d)
               \/ pc[d] = "handling" /\ pc' = [pc EXCEPT ![d] = "failed"] /\ UNCHANGED at
               \/ pc[d] = "failed" /\ pc' = [pc EXCEPT ![d] = "recording"] /\ UNCHANGED at
BY DEF CallStep, HandlerFails, ReadRow, WriteFailure, DispatcherDies, rowVars, historyVars
-----------------------------------------------------------------------------
(***************************************************************************)
(* The handler's writes and the mark are one transaction.                  *)
(***************************************************************************)
AppliedIffMarked ==
  \A e \in Events : applied[e] > 0 <=> e \in processed \cap Handled

LEMMA AppliedIffMarkedStep ==
  ASSUME IntakeTypeOK, AppliedIffMarked, [IntakeNext]_vars
  PROVE  AppliedIffMarked'
<1>1. CASE UNCHANGED <<processed, applied>>
  BY <1>1 DEF AppliedIffMarked
<1>2. CASE UNCHANGED applied /\ \E e \in Events \ Handled : processed' = processed \cup {e}
  BY <1>2 DEF AppliedIffMarked
<1>3. ASSUME NEW d \in Dispatchers, HandlerCommits(d) PROVE AppliedIffMarked'
  <2>1. at[d] \in Events \cap Handled
    BY <1>3, StoredFrame DEF HandlerCommits, IntakeTypeOK
  <2>2. processed' = processed \cup {at[d]} /\ applied' = [applied EXCEPT ![at[d]] = @ + 1]
    BY <1>3 DEF HandlerCommits, Mark
  <2>. QED BY <2>1, <2>2 DEF AppliedIffMarked, IntakeTypeOK
<1>. QED BY <1>1, <1>2, <1>3, EffectSteps, CallStepEffects DEF callVars

\* CommitIsAtomic is an invariant of webhook intake.
THEOREM CommitAtomicity == IntakeSpec => []CommitIsAtomic
<1>1. IntakeInit => AppliedIffMarked
  BY DEF IntakeInit, AppliedIffMarked
<1>2. IntakeTypeOK /\ AppliedIffMarked /\ [IntakeNext]_vars => AppliedIffMarked'
  BY AppliedIffMarkedStep
<1>3. AppliedIffMarked => CommitIsAtomic
  BY IntakeAssumption DEF AppliedIffMarked, CommitIsAtomic
<1>. QED BY <1>1, <1>2, <1>3, IntakeTypeCorrect, PTL DEF IntakeSpec
-----------------------------------------------------------------------------
(***************************************************************************)
(* Racing dispatches apply a handler at most once per call in progress.    *)
(***************************************************************************)
LEMMA HandlingFinite ==
  /\ IsFiniteSet(Dispatchers) /\ Cardinality(Dispatchers) \in Nat
  /\ \A e : /\ IsFiniteSet(Handling(e))
            /\ Cardinality(Handling(e)) \in Nat
            /\ Cardinality(Handling(e)) <= Cardinality(Dispatchers)
<1>1. IsFiniteSet(Dispatchers)
  BY IntakeAssumption, FS_Union DEF Dispatchers
<1>2. \A e : Handling(e) \in SUBSET Dispatchers
  BY DEF Handling
<1>. QED BY <1>1, <1>2, FS_Subset, FS_CardinalityType

LEMMA HandlingShrinks ==
  ASSUME NEW e, Handling(e)' \subseteq Handling(e)
  PROVE  Cardinality(Handling(e)') \in Nat
         /\ Cardinality(Handling(e)') <= Cardinality(Handling(e))
BY HandlingFinite, FS_Subset, FS_CardinalityType

\* The steps that neither start a call on a processed envelope nor apply.
LEMMA OverlapFrame ==
  ASSUME IntakeTypeOK, OverlapBoundsEffects, UNCHANGED <<applied, processed>>,
         \A e \in processed : Handling(e)' \subseteq Handling(e)
  PROVE  OverlapBoundsEffects'
<1>. SUFFICES ASSUME NEW e \in processed
              PROVE  applied[e] + Cardinality(Handling(e)') <= Cardinality(Dispatchers)
  BY DEF OverlapBoundsEffects
<1>1. applied[e] \in Nat
  BY StoredFrame DEF IntakeTypeOK
<1>. QED BY <1>1, HandlingFinite, HandlingShrinks DEF OverlapBoundsEffects

LEMMA OverlapStep ==
  ASSUME IntakeTypeOK, AppliedIffMarked, OverlapBoundsEffects, [IntakeNext]_vars
  PROVE  OverlapBoundsEffects'
<1>1. CASE UNCHANGED <<processed, applied, callVars>>
  BY <1>1, OverlapFrame DEF Handling, callVars
<1>2. ASSUME UNCHANGED <<applied, callVars>>, NEW e \in Events \ Handled,
             processed' = processed \cup {e}
      PROVE  OverlapBoundsEffects'
  <2>1. \A f : Handling(f)' = Handling(f)
    BY <1>2 DEF Handling, callVars
  <2>2. Handling(e) = {}
    BY <1>2 DEF Handling, IntakeTypeOK
  <2>3. applied[e] = 0
    BY <1>2 DEF AppliedIffMarked, IntakeTypeOK
  <2>. QED BY <1>2, <2>1, <2>2, <2>3, HandlingFinite, FS_EmptySet
           DEF OverlapBoundsEffects
<1>3. ASSUME UNCHANGED <<processed, applied>>, NEW d \in Dispatchers,
             NEW e \in Handled \ processed, Handle(d, e)
      PROVE  OverlapBoundsEffects'
  <2>1. \A f \in processed : Handling(f)' \subseteq Handling(f)
    BY <1>3 DEF Handling, Handle, IntakeTypeOK
  <2>. QED BY <1>3, <2>1, OverlapFrame
<1>4. ASSUME NEW d \in Dispatchers, CallStep(d), ~HandlerCommits(d)
      PROVE  OverlapBoundsEffects'
  <2>1. \A f \in processed : Handling(f)' \subseteq Handling(f)
    BY <1>4, CallStepEffects DEF Handling, Idle, IntakeTypeOK
  <2>. QED BY <1>4, <2>1, OverlapFrame, CallStepEffects
<1>5. ASSUME NEW d \in Dispatchers, HandlerCommits(d)
      PROVE  OverlapBoundsEffects'
  <2>1. PICK e \in Events : e = at[d] /\ d \in Handling(e)
    BY <1>5, StoredFrame DEF HandlerCommits, IntakeTypeOK, Handling
  <2>2. processed' = processed \cup {e} /\ applied' = [applied EXCEPT ![e] = @ + 1]
    BY <1>5, <2>1 DEF HandlerCommits, Mark
  <2>3. Handling(e)' = Handling(e) \ {d}
    BY <1>5, <2>1 DEF HandlerCommits, Idle, Handling, IntakeTypeOK
  <2>4. \A f : f # e => Handling(f)' \subseteq Handling(f)
    BY <1>5, <2>1 DEF HandlerCommits, Idle, Handling, IntakeTypeOK
  <2>5. Cardinality(Handling(e)') = Cardinality(Handling(e)) - 1
    BY <2>1, <2>3, HandlingFinite, FS_RemoveElement
  <2>6. applied[e] + Cardinality(Handling(e)) <= Cardinality(Dispatchers)
    <3>1. CASE e \in processed
      BY <3>1 DEF OverlapBoundsEffects
    <3>2. CASE e \notin processed
      BY <2>1, <3>2, HandlingFinite DEF AppliedIffMarked, IntakeTypeOK
    <3>. QED BY <3>1, <3>2
  <2>7. ASSUME NEW f \in processed', f # e
        PROVE  applied'[f] + Cardinality(Handling(f)') <= Cardinality(Dispatchers)
    <3>1. f \in processed /\ applied'[f] = applied[f] /\ applied[f] \in Nat
      BY <2>2, <2>7, StoredFrame DEF IntakeTypeOK
    <3>2. Cardinality(Handling(f)') <= Cardinality(Handling(f))
          /\ Cardinality(Handling(f)') \in Nat
      BY <2>4, <2>7, HandlingShrinks
    <3>. QED BY <3>1, <3>2, HandlingFinite DEF OverlapBoundsEffects
  <2>8. applied'[e] + Cardinality(Handling(e)') <= Cardinality(Dispatchers)
    BY <2>1, <2>2, <2>5, <2>6, HandlingFinite DEF IntakeTypeOK
  <2>. QED BY <2>7, <2>8 DEF OverlapBoundsEffects
<1>6. (\E d \in Dispatchers : CallStep(d)) => OverlapBoundsEffects'
  BY <1>4, <1>5
<1>. QED BY <1>1, <1>2, <1>3, <1>6, EffectSteps

\* OverlapBoundsEffects is an invariant of webhook intake.
THEOREM EffectsBounded == IntakeSpec => []OverlapBoundsEffects
<1>1. IntakeInit => AppliedIffMarked /\ OverlapBoundsEffects
  BY DEF IntakeInit, AppliedIffMarked, OverlapBoundsEffects
<1>2. IntakeTypeOK /\ AppliedIffMarked /\ OverlapBoundsEffects /\ [IntakeNext]_vars
        => (AppliedIffMarked /\ OverlapBoundsEffects)'
  BY AppliedIffMarkedStep, OverlapStep
<1>. QED BY <1>1, <1>2, IntakeTypeCorrect, PTL DEF IntakeSpec

\* With one caller of process_event at a time, nothing that dies, is retried
\* or is delivered twice makes a handler's writes happen twice.
THEOREM ExactlyOnceWhenSerial ==
  ASSUME Cardinality(Dispatchers) = 1
  PROVE  IntakeSpec => []RedeliveryIsNoOp
<1>1. IntakeTypeOK /\ AppliedIffMarked /\ OverlapBoundsEffects => RedeliveryIsNoOp
  <2>. SUFFICES ASSUME IntakeTypeOK, AppliedIffMarked, OverlapBoundsEffects,
                       NEW e \in Events
                PROVE  applied[e] <= 1
    BY DEF RedeliveryIsNoOp
  <2>1. CASE e \in processed
    BY <2>1, HandlingFinite DEF OverlapBoundsEffects, IntakeTypeOK
  <2>2. CASE e \notin processed
    BY <2>2 DEF AppliedIffMarked, IntakeTypeOK
  <2>. QED BY <2>1, <2>2
<1>2. IntakeInit => AppliedIffMarked
  BY DEF IntakeInit, AppliedIffMarked
<1>3. IntakeTypeOK /\ AppliedIffMarked /\ [IntakeNext]_vars => AppliedIffMarked'
  BY AppliedIffMarkedStep
<1>. QED BY <1>1, <1>2, <1>3, IntakeTypeCorrect, EffectsBounded, PTL DEF IntakeSpec
-----------------------------------------------------------------------------
(***************************************************************************)
(* Lost updates of attempt_count cannot bury an envelope early, and only a *)
(* count read before a requeue can: no other count, in the table or in a   *)
(* session, exceeds the failures recorded since the last requeue.          *)
(***************************************************************************)
CountsAreEarned ==
  /\ \A e \in Events : e \in overrun \/ attempts[e] <= failures[e]
  /\ \A d \in Dispatchers :
       pc[d] = "recording" =>
         d \in stale \/ at[d] \in overrun \/ read[d] <= failures[at[d]]
  /\ NotBuriedEarly

LEMMA CountSteps ==
  ASSUME IntakeTypeOK, [IntakeNext]_vars
  PROVE  \/ UNCHANGED <<attempts, failures, hopeless, stale, overrun, dead, callVars>>
         \/ UNCHANGED <<attempts, failures, hopeless, stale, overrun, dead, read>>
            /\ \E d \in Dispatchers, e \in Events : Handle(d, e)
         \/ \E d \in Dispatchers : CallStep(d)
         \/ RequeueDead
<1>. USE DEF cacheVars, rowVars, apiVars, callVars, boundVars, historyVars
<1>1. ASSUME NEW r \in Requests, RequestStep(r)
      PROVE  UNCHANGED <<attempts, failures, hopeless, stale, overrun, dead, callVars>>
  BY <1>1 DEF RequestStep, CacheSaysSeen, Claim, ClaimFailsOpen, Receive, Insert,
     InsertConflict, InsertFails, Announce, Answer, RequestDies, RequestMoves, StoreRow
<1>2. ASSUME NEW d \in Dispatchers, NEW e \in Events, Dispatch(d, e)
      PROVE  \/ UNCHANGED <<attempts, failures, hopeless, stale, overrun, dead, callVars>>
             \/ UNCHANGED <<attempts, failures, hopeless, stale, overrun, dead, read>>
                /\ \E c \in Dispatchers, f \in Events : Handle(c, f)
  BY <1>2, DispatchEffects DEF Handle
<1>3. ASSUME NEW d \in Servers, NEW e \in Events, RunTask(d, e) \/ Push(d, e)
      PROVE  Dispatch(d, e) /\ d \in Dispatchers
  BY <1>3 DEF RunTask, Push, Dispatchers
<1>4. ASSUME NEW s \in Sweepers, Replay(s)
      PROVE  s \in Dispatchers /\ \E e \in Events : Dispatch(s, e)
  BY <1>4, StoredFrame DEF Replay, Dispatchers, IntakeTypeOK
<1>5. ASSUME NEW s \in Sweepers, Sweep(s)
      PROVE  UNCHANGED <<attempts, failures, hopeless, stale, overrun, dead, callVars>>
  BY <1>5 DEF Sweep
<1>6. ASSUME NEW e \in Events, ExpireClaim(e) \/ TaskDies(e) \/ Age(e)
      PROVE  UNCHANGED <<attempts, failures, hopeless, stale, overrun, dead, callVars>>
  BY <1>6 DEF ExpireClaim, TaskDies, Age
<1>7. UNCHANGED vars => UNCHANGED <<attempts, failures, hopeless, stale, overrun, dead, callVars>>
  BY DEF vars
<1>. QED BY <1>1, <1>2, <1>3, <1>4, <1>5, <1>6, <1>7 DEF IntakeNext

LEMMA CountsAreEarnedStep ==
  ASSUME IntakeTypeOK, CountsAreEarned, [IntakeNext]_vars
  PROVE  CountsAreEarned'
<1>. USE DEF rowVars, callVars, historyVars
<1>1. CASE UNCHANGED <<attempts, failures, hopeless, stale, overrun, dead, callVars>>
  BY <1>1 DEF CountsAreEarned, NotBuriedEarly
<1>2. ASSUME UNCHANGED <<attempts, failures, hopeless, stale, overrun, dead, read>>,
             NEW d \in Dispatchers, NEW e \in Events, Handle(d, e)
      PROVE  CountsAreEarned'
  BY <1>2 DEF CountsAreEarned, NotBuriedEarly, Handle, IntakeTypeOK
<1>3. ASSUME NEW d \in Dispatchers, HandlerCommits(d) \/ HandlerFails(d)
      PROVE  CountsAreEarned'
  BY <1>3 DEF CountsAreEarned, NotBuriedEarly, HandlerCommits, HandlerFails, Idle,
              IntakeTypeOK
<1>4. ASSUME NEW d \in Dispatchers, ReadRow(d) PROVE CountsAreEarned'
  <2>1. at[d] \in Events
    BY <1>4, StoredFrame DEF ReadRow, IntakeTypeOK
  <2>. QED BY <1>4, <2>1 DEF CountsAreEarned, NotBuriedEarly, ReadRow, IntakeTypeOK
<1>5. ASSUME NEW d \in Dispatchers, DispatcherDies(d) PROVE CountsAreEarned'
  BY <1>5 DEF CountsAreEarned, NotBuriedEarly, DispatcherDies, Idle, IntakeTypeOK
<1>6. ASSUME NEW d \in Dispatchers, WriteFailure(d) PROVE CountsAreEarned'
  <2>1. PICK e \in Events : e = at[d]
    BY <1>6, StoredFrame DEF WriteFailure, IntakeTypeOK
  <2>2. /\ failures' = [failures EXCEPT ![e] = CountUp(failures[e])]
        /\ attempts' = [attempts EXCEPT ![e] = CountUp(read[d])]
        /\ pc' = [pc EXCEPT ![d] = "idle"] /\ at' = [at EXCEPT ![d] = NoEvent]
        /\ read' = [read EXCEPT ![d] = 0]
        /\ overrun' = IF d \in stale THEN overrun \cup {e} ELSE overrun
        /\ stale' = stale \ {d} /\ hopeless \subseteq hopeless'
    BY <1>6, <2>1 DEF WriteFailure, Idle
  <2>3. read[d] \in 0..MaxAttempts /\ failures[e] \in 0..MaxAttempts
    BY <2>1 DEF IntakeTypeOK
  <2>4. e \in overrun' \/ read[d] <= failures[e]
    BY <1>6, <2>1, <2>2 DEF CountsAreEarned, WriteFailure
  <2>5. /\ failures[e] <= CountUp(failures[e])
        /\ read[d] <= failures[e] => CountUp(read[d]) <= CountUp(failures[e])
        /\ Burial(d) /\ read[d] <= failures[e]
             => fatal[d] \/ CountUp(failures[e]) >= MaxAttempts
    BY <2>3, IntakeAssumption DEF CountUp, Burial
  <2>6. \A f \in Events : failures[f] <= failures'[f] /\ failures[f] \in Nat
                           /\ failures'[f] \in Nat
    BY <2>2, <2>3, <2>5, CountUpType, IntakeAssumption DEF IntakeTypeOK
  <2>7. ASSUME NEW f \in Events PROVE f \in overrun' \/ attempts'[f] <= failures'[f]
    <3>1. CASE f = e
      BY <2>2, <2>4, <2>5, <3>1 DEF IntakeTypeOK
    <3>2. CASE f # e
      BY <2>2, <3>2 DEF CountsAreEarned, IntakeTypeOK
    <3>. QED BY <3>1, <3>2
  <2>8. ASSUME NEW c \in Dispatchers, pc'[c] = "recording"
        PROVE  c \in stale' \/ at'[c] \in overrun' \/ read'[c] <= failures'[at'[c]]
    <3>1. c # d /\ pc[c] = "recording" /\ read'[c] = read[c] /\ at'[c] = at[c]
      BY <2>2, <2>8 DEF IntakeTypeOK
    <3>2. at[c] \in Events /\ read[c] \in Nat
      BY <3>1, StoredFrame, IntakeAssumption DEF IntakeTypeOK
    <3>3. c \in stale \/ at[c] \in overrun \/ read[c] <= failures[at[c]]
      BY <3>1 DEF CountsAreEarned
    <3>4. read[c] <= failures[at[c]] => read[c] <= failures'[at[c]]
      BY <2>6, <3>2
    <3>. QED BY <2>2, <3>1, <3>3, <3>4
  <2>9. ASSUME NEW f \in dead'
        PROVE  f \in hopeless' \cup overrun' \/ failures'[f] >= MaxAttempts
    <3>1. CASE f = e /\ Burial(d)
      <4>1. fatal[d] => e \in hopeless'
        BY <1>6, <2>1 DEF WriteFailure
      <4>2. failures'[e] = CountUp(failures[e])
        BY <2>2 DEF IntakeTypeOK
      <4>. QED BY <2>4, <2>5, <3>1, <4>1, <4>2
    <3>2. CASE f \in dead
      <4>1. f \in hopeless \cup overrun \/ failures[f] >= MaxAttempts
        BY <3>2 DEF CountsAreEarned, NotBuriedEarly
      <4>2. f \in Events
        BY <3>2, StoredFrame DEF IntakeTypeOK
      <4>. QED BY <2>2, <2>6, <4>1, <4>2, IntakeAssumption
    <3>. QED BY <1>6, <2>1, <3>1, <3>2 DEF WriteFailure
  <2>. QED BY <2>7, <2>8, <2>9 DEF CountsAreEarned, NotBuriedEarly
<1>7. CASE RequeueDead
  <2>. DEFINE E == Oldest(dead)
  <2>1. /\ attempts' = [e \in Events |-> IF e \in E THEN 0 ELSE attempts[e]]
        /\ failures' = [e \in Events |-> IF e \in E THEN 0 ELSE failures[e]]
        /\ hopeless' = hopeless \ E /\ overrun' = overrun \ E /\ dead' = dead \ E
        /\ stale' = stale \cup {d \in Dispatchers : pc[d] = "recording" /\ at[d] \in E}
        /\ UNCHANGED <<pc, at, read>>
    BY <1>7 DEF RequeueDead, HistoryRestarts
  <2>2. dead \subseteq Events /\ \A d \in Dispatchers : pc[d] = "recording" => at[d] \in Events
    BY StoredFrame DEF IntakeTypeOK
  <2>. HIDE DEF E
  <2>3. \A e \in Events : e \in overrun' \/ attempts'[e] <= failures'[e]
    BY <2>1 DEF CountsAreEarned
  <2>4. ASSUME NEW d \in Dispatchers, pc'[d] = "recording"
        PROVE  d \in stale' \/ at'[d] \in overrun' \/ read'[d] <= failures'[at'[d]]
    BY <2>1, <2>2, <2>4 DEF CountsAreEarned
  <2>5. \A e \in dead' : e \in hopeless' \cup overrun' \/ failures'[e] >= MaxAttempts
    BY <2>1, <2>2 DEF CountsAreEarned, NotBuriedEarly
  <2>. QED BY <2>3, <2>4, <2>5 DEF CountsAreEarned, NotBuriedEarly
<1>8. (\E d \in Dispatchers : CallStep(d)) => CountsAreEarned'
  BY <1>3, <1>4, <1>5, <1>6 DEF CallStep
<1>. QED BY <1>1, <1>2, <1>7, <1>8, CountSteps

\* NotBuriedEarly is an invariant of webhook intake.
THEOREM NoEarlyBurial == IntakeSpec => []NotBuriedEarly
<1>1. IntakeInit => CountsAreEarned
  BY DEF IntakeInit, CountsAreEarned, NotBuriedEarly
<1>2. IntakeTypeOK /\ CountsAreEarned /\ [IntakeNext]_vars => CountsAreEarned'
  BY CountsAreEarnedStep
<1>3. CountsAreEarned => NotBuriedEarly
  BY DEF CountsAreEarned
<1>. QED BY <1>1, <1>2, <1>3, IntakeTypeCorrect, PTL DEF IntakeSpec
-----------------------------------------------------------------------------
(***************************************************************************)
(* The unique constraint, not Redis, decides who records an event, and a   *)
(* key in Redis stands for something.                                      *)
(***************************************************************************)
LEMMA AdmissionSteps ==
  ASSUME IntakeTypeOK, [IntakeNext]_vars
  PROVE  \/ UNCHANGED <<req, about, pk, cacheVars>>
         \/ \E r \in Requests : RequestStep(r)
         \/ \E e \in Events : ExpireClaim(e)
<1>. USE DEF cacheVars, rowVars, apiVars, callVars, boundVars, historyVars
<1>1. ASSUME NEW d, NEW e, RunTask(d, e) \/ Push(d, e) \/ Replay(d)
      PROVE  UNCHANGED <<req, about, pk, cacheVars>>
  BY <1>1 DEF RunTask, Push, Replay, Dispatch
<1>2. ASSUME NEW d, CallStep(d) \/ Sweep(d)
      PROVE  UNCHANGED <<req, about, pk, cacheVars>>
  BY <1>2 DEF CallStep, HandlerCommits, HandlerFails, ReadRow, WriteFailure,
              DispatcherDies, Sweep
<1>3. ASSUME NEW e, TaskDies(e) \/ Age(e)
      PROVE  UNCHANGED <<req, about, pk, cacheVars>>
  BY <1>3 DEF TaskDies, Age
<1>4. RequeueDead \/ UNCHANGED vars => UNCHANGED <<req, about, pk, cacheVars>>
  BY DEF RequeueDead, vars
<1>. QED BY <1>1, <1>2, <1>3, <1>4 DEF IntakeNext

LEMMA OneRecorderStep ==
  ASSUME IntakeTypeOK, OneRecorder, [IntakeNext]_vars
  PROVE  OneRecorder'
<1>1. CASE UNCHANGED <<req, about>>
  BY <1>1 DEF OneRecorder, Recorded
<1>2. ASSUME NEW r \in Requests, Insert(r) PROVE OneRecorder'
  <2>1. about[r] \in Events /\ about[r] \notin Stored
    BY <1>2 DEF Insert, RequestMoves, Unique, Stored, IntakeTypeOK
  <2>2. \A q \in Requests : Recorded(q) => about[q] # about[r]
    BY <2>1 DEF IntakeTypeOK
  <2>3. \A q \in Requests : q # r => (Recorded(q)' <=> Recorded(q))
    BY <1>2 DEF Insert, RequestMoves, Recorded, IntakeTypeOK
  <2>4. UNCHANGED about
    BY <1>2 DEF Insert, RequestMoves
  <2>. QED BY <2>2, <2>3, <2>4 DEF OneRecorder
<1>3. ASSUME NEW r \in Requests, RequestStep(r), ~Insert(r) PROVE OneRecorder'
  <2>1. \A q \in Requests : Recorded(q)' => Recorded(q) /\ about'[q] = about[q]
    BY <1>3 DEF RequestStep, CacheSaysSeen, Claim, ClaimFailsOpen, Receive,
       InsertConflict, InsertFails, Announce, Answer, RequestDies, RequestMoves,
       Recorded, IntakeTypeOK
  <2>. QED BY <2>1 DEF OneRecorder
<1>. QED BY <1>1, <1>2, <1>3, AdmissionSteps DEF ExpireClaim, apiVars

\* OneRecorder is an invariant of webhook intake.
THEOREM SingleRecorder == IntakeSpec => []OneRecorder
<1>1. IntakeInit => OneRecorder
  BY DEF IntakeInit, OneRecorder, Recorded
<1>2. IntakeTypeOK /\ OneRecorder /\ [IntakeNext]_vars => OneRecorder'
  BY OneRecorderStep
<1>. QED BY <1>1, <1>2, IntakeTypeCorrect, PTL DEF IntakeSpec

LEMMA ClaimIsHonestStep ==
  ASSUME IntakeTypeOK, ClaimIsHonest, [IntakeNext]_vars
  PROVE  ClaimIsHonest'
<1>. USE DEF cacheVars, apiVars
<1>1. CASE UNCHANGED <<req, about, pk, cacheVars>>
  BY <1>1 DEF ClaimIsHonest, Inserting, Stored
<1>2. ASSUME NEW e \in Events, ExpireClaim(e) PROVE ClaimIsHonest'
  <2>1. Stored' = Stored /\ (\A f : Inserting(f)' = Inserting(f))
    BY <1>2 DEF ExpireClaim, Stored, Inserting, rowVars
  <2>. QED BY <1>2, <2>1 DEF ExpireClaim, ClaimIsHonest
<1>3. ASSUME NEW r \in Requests, RequestStep(r) PROVE ClaimIsHonest'
  <2>1. Stored \subseteq Stored'
    BY <1>3, StoredFrame, StoreRowType DEF RequestStep, CacheSaysSeen, Claim,
       ClaimFailsOpen, Receive, Insert, InsertConflict, InsertFails, Announce,
       Answer, RequestDies, RequestMoves, rowVars, IntakeTypeOK
  <2>2. ASSUME NEW e \in Events, Receive(r, e, "duplicate") \/ Receive(r, e, "inserting"),
               claimed' \subseteq claimed \cup {e},
               e \in claimed' \ claimed => Receive(r, e, "inserting")
        PROVE  ClaimIsHonest'
    <3>1. \A f : Inserting(f) \subseteq Inserting(f)'
      BY <2>2 DEF Receive, Inserting, IntakeTypeOK
    <3>2. Receive(r, e, "inserting") => r \in Inserting(e)'
      BY <2>2 DEF Receive, Inserting, IntakeTypeOK
    <3>. QED BY <2>1, <2>2, <3>1, <3>2 DEF ClaimIsHonest, Receive
  <2>3. CASE \E e \in Events : CacheSaysSeen(r, e) \/ Claim(r, e) \/ ClaimFailsOpen(r, e)
    BY <2>2, <2>3 DEF CacheSaysSeen, Claim, ClaimFailsOpen
  \* Every other step moves r on, and only r's event can lose its INSERT.
  <2>4. ASSUME about[r] \in claimed' => about[r] \in Stored' \cup orphaned',
               claimed' \subseteq claimed, UNCHANGED about,
               \A f \in claimed' : f \in orphaned => f \in orphaned',
               \A q \in Requests : q # r => req'[q] = req[q]
        PROVE  ClaimIsHonest'
    <3>1. \A f : f # about[r] => Inserting(f)' = Inserting(f)
      BY <2>4 DEF Inserting
    <3>. QED BY <2>1, <2>4, <3>1 DEF ClaimIsHonest
  <2>5. CASE Insert(r)
    BY <2>4, <2>5, StoreRowType DEF Insert, RequestMoves, IntakeTypeOK
  <2>6. CASE InsertConflict(r)
    BY <2>1, <2>4, <2>6 DEF InsertConflict, RequestMoves, Unique, Stored, IntakeTypeOK
  <2>7. CASE InsertFails(r)
    BY <2>4, <2>7 DEF InsertFails, Forget, RequestMoves, IntakeTypeOK
  <2>8. CASE Announce(r) \/ Answer(r)
    <3>1. about[r] \in Stored
      BY <2>8 DEF Announce, Answer, RequestMoves, IntakeTypeOK, Recorded
    <3>. QED BY <2>1, <2>4, <2>8, <3>1 DEF Announce, Answer, RequestMoves, IntakeTypeOK
  <2>9. CASE RequestDies(r)
    <3>1. req[r] # "inserting" => about[r] \in Stored
      BY <2>9 DEF RequestDies, RequestMoves, IntakeTypeOK, Recorded
    <3>. QED BY <2>1, <2>4, <2>9, <3>1 DEF RequestDies, RequestMoves, IntakeTypeOK
  <2>. QED BY <1>3, <2>3, <2>5, <2>6, <2>7, <2>8, <2>9 DEF RequestStep
<1>. QED BY <1>1, <1>2, <1>3, AdmissionSteps

\* ClaimIsHonest is an invariant of webhook intake.
THEOREM HonestClaims == IntakeSpec => []ClaimIsHonest
<1>1. IntakeInit => ClaimIsHonest
  BY DEF IntakeInit, ClaimIsHonest
<1>2. IntakeTypeOK /\ ClaimIsHonest /\ [IntakeNext]_vars => ClaimIsHonest'
  BY ClaimIsHonestStep
<1>. QED BY <1>1, <1>2, IntakeTypeCorrect, PTL DEF IntakeSpec
-----------------------------------------------------------------------------
(***************************************************************************)
(* Webhook intake implements the envelope ledger.                          *)
(***************************************************************************)
LedgerStep == Ledger!LedgerNext \/ UNCHANGED statusBar

LEMMA StatusFrame == UNCHANGED <<pk, processed, dead>> => UNCHANGED statusBar
BY DEF statusBar, StatusOf

LEMMA AcceptStep ==
  ASSUME IntakeTypeOK, NEW e \in Events, Unique(e), StoreRow(e)
  PROVE  LedgerStep
<1>1. /\ \A f \in Events \ {e} : pk'[f] = pk[f]
      /\ pk'[e] # 0 /\ pk[e] = 0
      /\ UNCHANGED <<processed, dead>>
  BY StoreRowType DEF StoreRow, Unique, Stored, IntakeTypeOK
<1>2. e \notin processed /\ e \notin dead
  BY <1>1 DEF IntakeTypeOK, Stored
<1>3. statusBar' = [statusBar EXCEPT ![e] = "pending"]
  BY <1>1, <1>2 DEF statusBar, StatusOf
<1>4. statusBar[e] = "absent"
  BY <1>1 DEF statusBar, StatusOf
<1>. QED BY <1>3, <1>4 DEF LedgerStep, Ledger!LedgerNext, Ledger!Accept

LEMMA MarkStep ==
  ASSUME IntakeTypeOK, NEW e \in Stored, processed' = processed \cup {e},
         UNCHANGED <<pk, dead>>
  PROVE  LedgerStep
<1>1. CASE e \in processed
  <2>1. processed' = processed
    BY <1>1
  <2>. QED BY <2>1, StatusFrame DEF LedgerStep
<1>2. CASE e \notin processed
  <2>1. e \in Events /\ pk[e] # 0
    BY DEF Stored
  <2>2. statusBar' = [statusBar EXCEPT ![e] = "done"]
    BY <2>1 DEF statusBar, StatusOf
  <2>3. statusBar[e] \in {"pending", "buried"}
    BY <1>2, <2>1 DEF statusBar, StatusOf
  <2>. QED BY <2>1, <2>2, <2>3 DEF LedgerStep, Ledger!LedgerNext, Ledger!Settle
<1>. QED BY <1>1, <1>2

LEMMA BuryStep ==
  ASSUME IntakeTypeOK, NEW e \in Stored, dead' \in {dead, dead \cup {e}},
         UNCHANGED <<pk, processed>>
  PROVE  LedgerStep
<1>1. CASE e \in processed \/ e \in dead \/ dead' = dead
  <2>1. UNCHANGED statusBar
    BY <1>1 DEF statusBar, StatusOf
  <2>. QED BY <2>1 DEF LedgerStep
<1>2. CASE e \notin processed /\ e \notin dead /\ dead' = dead \cup {e}
  <2>1. e \in Events /\ pk[e] # 0
    BY DEF Stored
  <2>2. statusBar' = [statusBar EXCEPT ![e] = "buried"] /\ statusBar[e] = "pending"
    BY <1>2, <2>1 DEF statusBar, StatusOf
  <2>. QED BY <2>1, <2>2 DEF LedgerStep, Ledger!LedgerNext, Ledger!Bury
<1>. QED BY <1>1, <1>2

LEMMA ExhumeStep ==
  ASSUME IntakeTypeOK, RequeueDead
  PROVE  LedgerStep
<1>. DEFINE E == Oldest(dead) \ processed
<1>1. E \subseteq Events /\ E \subseteq dead
  BY StoredFrame DEF Oldest, IntakeTypeOK
<1>2. dead' = dead \ Oldest(dead) /\ UNCHANGED <<pk, processed>>
  BY DEF RequeueDead, KeepMark
<1>3. \A e \in E : statusBar[e] = "buried"
  BY <1>1 DEF statusBar, StatusOf, IntakeTypeOK, Stored
<1>4. statusBar' = [e \in Events |-> IF e \in E THEN "pending" ELSE statusBar[e]]
  <2>1. ASSUME NEW e \in Events
        PROVE  statusBar'[e] = IF e \in E THEN "pending" ELSE statusBar[e]
    BY <1>1, <1>2, <1>3 DEF statusBar, StatusOf
  <2>. QED BY <2>1 DEF statusBar
<1>5. Ledger!Exhume(E)
  BY <1>3, <1>4 DEF Ledger!Exhume
<1>. QED BY <1>1, <1>5 DEF LedgerStep, Ledger!LedgerNext

\* Every step of intake is a step of the ledger or invisible to it.
LEMMA IntakeStepIsLedgerStep ==
  ASSUME IntakeTypeOK, [IntakeNext]_vars
  PROVE  LedgerStep
<1>. USE DEF cacheVars, rowVars, apiVars, callVars, boundVars, historyVars
<1>1. ASSUME NEW r \in Requests, RequestStep(r) PROVE LedgerStep
  <2>1. CASE Insert(r)
    BY <2>1, AcceptStep DEF Insert, RequestMoves, IntakeTypeOK
  <2>2. CASE InsertFails(r)
    <3>1. about[r] \in Events
      BY <2>2 DEF InsertFails, RequestMoves, IntakeTypeOK
    <3>. QED BY <2>2, <3>1, AcceptStep, StatusFrame DEF InsertFails, LedgerStep
  <2>3. CASE ~Insert(r) /\ ~InsertFails(r)
    <3>1. UNCHANGED <<pk, processed, dead>>
      BY <1>1, <2>3 DEF RequestStep, CacheSaysSeen, Claim, ClaimFailsOpen, Receive,
         InsertConflict, Announce, Answer, RequestDies
    <3>. QED BY <3>1, StatusFrame DEF LedgerStep
  <2>. QED BY <2>1, <2>2, <2>3
<1>2. ASSUME NEW d \in Dispatchers, NEW e \in Stored, Dispatch(d, e) PROVE LedgerStep
  BY <1>2, DispatchEffects, MarkStep, StatusFrame DEF LedgerStep, Handle
<1>3. ASSUME NEW d \in Servers, NEW e \in Events, RunTask(d, e) \/ Push(d, e)
      PROVE  LedgerStep
  BY <1>2, <1>3 DEF RunTask, Push, Dispatchers, IntakeTypeOK
<1>4. ASSUME NEW s \in Sweepers, Replay(s) PROVE LedgerStep
  BY <1>2, <1>4 DEF Replay, Dispatchers, IntakeTypeOK
<1>5. ASSUME NEW d \in Dispatchers, CallStep(d) PROVE LedgerStep
  <2>1. CASE HandlerCommits(d)
    BY <2>1, MarkStep DEF HandlerCommits, Mark, IntakeTypeOK
  <2>2. CASE WriteFailure(d)
    BY <2>2, BuryStep DEF WriteFailure, IntakeTypeOK
  <2>3. CASE ~HandlerCommits(d) /\ ~WriteFailure(d)
    BY <1>5, <2>3, StatusFrame
       DEF CallStep, HandlerFails, ReadRow, DispatcherDies, LedgerStep
  <2>. QED BY <2>1, <2>2, <2>3
<1>6. ASSUME NEW e, Sweep(e) \/ ExpireClaim(e) \/ TaskDies(e) \/ Age(e) PROVE LedgerStep
  BY <1>6, StatusFrame DEF Sweep, ExpireClaim, TaskDies, Age, LedgerStep
<1>7. CASE UNCHANGED vars
  BY <1>7, StatusFrame DEF vars, LedgerStep
<1>. QED BY <1>1, <1>3, <1>4, <1>5, <1>6, <1>7, ExhumeStep DEF IntakeNext

\* ImplementsLedger: an accepted envelope is pending, done or buried, and
\* done is for ever.
THEOREM IntakeImplementsLedger == IntakeSpec => ImplementsLedger
<1>1. IntakeInit => Ledger!LedgerInit
  BY DEF IntakeInit, Ledger!LedgerInit, statusBar, StatusOf
<1>2. IntakeTypeOK /\ [IntakeNext]_vars => [Ledger!LedgerNext]_statusBar
  BY IntakeStepIsLedgerStep DEF LedgerStep
<1>. QED BY <1>1, <1>2, IntakeTypeCorrect, PTL
         DEF IntakeSpec, ImplementsLedger, Ledger!LedgerSpec
=============================================================================
