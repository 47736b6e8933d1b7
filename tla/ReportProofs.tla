---------------------------- MODULE ReportProofs ----------------------------
(***************************************************************************)
(* The report of RecoveryReport, for any cases, windows and batches.       *)
(*                                                                         *)
(* A promise keeps its score because its deadline never changes, because   *)
(* only the payments of a real case give the time it was recovered at, and *)
(* because a handler that selects a case with such a time selects it       *)
(* recovered, until somebody refuses it: Dated and Grasped.                *)
(***************************************************************************)
EXTENDS RecoveryReport, SequenceTheorems, TLAPS

ReportTypeOK ==
  /\ now \in Nat /\ Days - 1 <= now /\ now <= Latest
  /\ source \in [Cases -> {"none", "razorpay", "seed"}]
  /\ caseStatus \in [Cases -> {"none", "open", "in_progress", "stopped", "recovered"}]
  /\ recoveredAt \in [Cases -> Nat] /\ promises \in [Cases -> Seq(Nat)]
  /\ phoned \subseteq Cases /\ day \in Nat
  /\ received \in [Cases -> Nat]
  /\ \A h \in handling : h.case \in Cases /\ h.at \in 0..Latest

\* A case has a time it was recovered at only once it was recovered, and a
\* row that does not exist has none.
Dated ==
  \A c \in Cases :
    /\ recoveredAt[c] # Never => caseStatus[c] \in {"recovered", "stopped"}
    /\ source[c] = "none" <=> caseStatus[c] = "none"
    /\ c \in phoned => source[c] # "none"

\* What is in the hands of a handler is a real case, and one that had a time
\* when it was selected was recovered or stopped then.
Grasped ==
  \A h \in handling :
    /\ source[h.case] = "razorpay"
    /\ h.unpaid \/ h.seen \in {"recovered", "stopped"}

ReportInv == ReportTypeOK /\ Dated /\ Grasped

\* How a case may change in one step, as far as its promises are concerned.
Appended(c) ==
  /\ Len(promises[c]) <= Len(promises'[c])
  /\ \A i \in 1..Len(promises[c]) : promises'[c][i] = promises[c][i]

Stays(c) ==
  source[c] = "razorpay" =>
    /\ source'[c] = source[c] /\ Appended(c)
    /\ \/ recoveredAt'[c] = recoveredAt[c]
       \/ \E h \in handling \ handling' :
            h.case = c /\ Overwrites(h) /\ recoveredAt'[c] = h.at
-----------------------------------------------------------------------------
LEMMA Bounds ==
  /\ Window \in Nat /\ Days \in Nat \ {0} /\ Latest \in Nat /\ Days <= Latest + 1
  /\ MaxPromises \in Nat /\ MaxPayments \in Nat /\ Never \in Nat /\ Never > Latest
BY ReportAssumption DEF Never

LEMMA ReportInitially == ReportInit => ReportInv
<1>. SUFFICES ASSUME ReportInit PROVE ReportInv
  OBVIOUS
<1>1. now \in Nat /\ Days - 1 <= now /\ now <= Latest
  BY Bounds DEF ReportInit
<1>2. promises \in [Cases -> Seq(Nat)]
  BY EmptySeq DEF ReportInit
<1>3. /\ source \in [Cases -> {"none", "razorpay", "seed"}] /\ day \in Nat
      /\ caseStatus \in [Cases -> {"none", "open", "in_progress", "stopped", "recovered"}]
      /\ recoveredAt \in [Cases -> Nat] /\ received \in [Cases -> Nat] /\ phoned \subseteq Cases
  BY Bounds DEF ReportInit
<1>4. Dated /\ Grasped /\ handling = {}
  BY DEF ReportInit, Dated, Grasped
<1>. QED BY <1>1, <1>2, <1>3, <1>4 DEF ReportInv, ReportTypeOK

LEMMA SameAppended ==
  ASSUME ReportTypeOK, NEW c \in Cases, promises'[c] = promises[c] PROVE Appended(c)
<1>1. Len(promises[c]) \in Nat
  BY LenProperties DEF ReportTypeOK
<1>. QED BY <1>1 DEF Appended

\* A promise is one more deadline, a natural number.
LEMMA PromisesAppends ==
  ASSUME ReportTypeOK, NEW c \in Cases, NEW t \in Nat, Promises(c, t)
  PROVE  /\ promises' \in [Cases -> Seq(Nat)] /\ \A d \in Cases : Appended(d)
<1>1. t + Window \in Nat /\ promises[c] \in Seq(Nat)
  BY Bounds DEF ReportTypeOK
<1>2. /\ Append(promises[c], t + Window) \in Seq(Nat)
      /\ Len(Append(promises[c], t + Window)) = Len(promises[c]) + 1
      /\ Len(promises[c]) \in Nat
      /\ \A i \in 1..Len(promises[c]) : Append(promises[c], t + Window)[i] = promises[c][i]
  BY <1>1, AppendProperties, LenProperties
<1>3. promises' = [promises EXCEPT ![c] = Append(promises[c], t + Window)]
  BY DEF Promises
<1>4. promises' \in [Cases -> Seq(Nat)]
  BY <1>2, <1>3 DEF ReportTypeOK
<1>5. ASSUME NEW d \in Cases PROVE Appended(d)
  <2>1. CASE d = c
    <3>1. promises'[c] = Append(promises[c], t + Window)
      BY <1>3 DEF ReportTypeOK
    <3>. QED BY <1>2, <2>1, <3>1 DEF Appended
  <2>2. CASE d # c
    BY <1>3, <2>2, SameAppended DEF ReportTypeOK
  <2>. QED BY <2>1, <2>2
<1>. QED BY <1>4, <1>5

\* What the outcome of a call does to its case, at a time t.
LEMMA ResultsKeeps ==
  ASSUME ReportInv, NEW c \in Cases, NEW t \in Nat, NEW intent \in Intents, Results(c, intent, t)
  PROVE  /\ promises' \in [Cases -> Seq(Nat)] /\ \A d \in Cases : Appended(d)
         /\ caseStatus' = caseStatus \/ caseStatus' = [caseStatus EXCEPT ![c] = "stopped"]
<1>0. ReportTypeOK
  BY DEF ReportInv
<1>1. CASE intent = "pays"
  BY <1>0, <1>1, PromisesAppends DEF Results
<1>2. CASE intent # "pays"
  <2>1. promises' = promises
    BY <1>2 DEF Results, Intents
  <2>2. caseStatus' = caseStatus \/ caseStatus' = [caseStatus EXCEPT ![c] = "stopped"]
    BY <1>2 DEF Results, Intents, SetStatus
  <2>. QED BY <1>0, <2>1, <2>2, SameAppended DEF ReportTypeOK
<1>. QED BY <1>1, <1>2
-----------------------------------------------------------------------------
(* Every step keeps the invariant, and moves every case as Stays says. *)

\* One case changes: its status, and perhaps its date and its promises.
LEMMA CaseKeeps ==
  ASSUME ReportInv, NEW c \in Cases, NEW s \in {"open", "in_progress", "stopped", "recovered"},
         NEW t \in Nat, caseStatus' = [caseStatus EXCEPT ![c] = s],
         recoveredAt' = [recoveredAt EXCEPT ![c] = t],
         source[c] # "none", UNCHANGED <<now, source, day>>,
         promises' \in [Cases -> Seq(Nat)], \A d \in Cases : Appended(d),
         phoned' \subseteq phoned \cup {c}, UNCHANGED received, handling' \subseteq handling,
         t # Never => s \in {"recovered", "stopped"},
         \/ source[c] = "seed" \/ t = recoveredAt[c]
         \/ \E h \in handling \ handling' : h.case = c /\ Overwrites(h) /\ t = h.at
  PROVE  ReportInv' /\ \A d \in Cases : Stays(d)
<1>1. ReportTypeOK /\ Dated /\ Grasped
  BY DEF ReportInv
<1>2. ReportTypeOK'
  BY <1>1 DEF ReportTypeOK
<1>3. /\ caseStatus'[c] = s /\ recoveredAt'[c] = t
      /\ \A d \in Cases \ {c} : caseStatus'[d] = caseStatus[d] /\ recoveredAt'[d] = recoveredAt[d]
  BY <1>1 DEF ReportTypeOK
<1>4. Dated' /\ Grasped'
  BY <1>1, <1>3 DEF Dated, Grasped
<1>5. ASSUME NEW d \in Cases PROVE Stays(d)
  BY <1>3 DEF Stays
<1>. QED BY <1>2, <1>4, <1>5 DEF ReportInv

\* Nothing of any case changes.
LEMMA IdleKeeps ==
  ASSUME ReportInv, UNCHANGED caseColumns, now' \in Nat, now <= now', now' <= Latest,
         phoned' \subseteq phoned, day' \in Nat, received' \in [Cases -> Nat],
         \A h \in handling' \ handling :
           /\ h.case \in Cases /\ h.at \in 0..Latest /\ source[h.case] = "razorpay"
           /\ h.unpaid \/ h.seen \in {"recovered", "stopped"}
  PROVE  ReportInv' /\ \A d \in Cases : Stays(d)
<1>1. ReportTypeOK /\ Dated /\ Grasped
  BY DEF ReportInv
<1>2. Days \in Nat /\ Latest \in Nat
  BY Bounds
<1>3. ReportTypeOK'
  BY <1>1, <1>2 DEF ReportTypeOK, caseColumns
<1>4. Dated' /\ Grasped'
  BY <1>1 DEF Dated, Grasped, caseColumns
<1>5. \A d \in Cases : Stays(d)
  BY <1>1, SameAppended DEF Stays, caseColumns
<1>. QED BY <1>3, <1>4, <1>5 DEF ReportInv

LEMMA InsertKeeps ==
  ASSUME ReportInv, NEW c \in Cases, NEW from \in {"razorpay", "seed"}, Insert(c, from)
  PROVE  ReportInv' /\ \A d \in Cases : Stays(d)
<1>1. ReportTypeOK /\ Dated /\ Grasped
  BY DEF ReportInv
<1>2. /\ source[c] = "none" /\ source' = [source EXCEPT ![c] = from]
      /\ caseStatus' = [caseStatus EXCEPT ![c] = "open"]
      /\ UNCHANGED <<now, recoveredAt, promises, phoned, day, handling, received>>
  BY DEF Insert, SetStatus, paymentVars
<1>3. ReportTypeOK'
  BY <1>1, <1>2 DEF ReportTypeOK
<1>4. /\ caseStatus'[c] = "open" /\ source'[c] = from /\ recoveredAt[c] = Never
      /\ \A d \in Cases \ {c} : caseStatus'[d] = caseStatus[d] /\ source'[d] = source[d]
  BY <1>1, <1>2 DEF ReportTypeOK, Dated
<1>5. Dated' /\ Grasped'
  BY <1>1, <1>2, <1>4 DEF Dated, Grasped, ReportTypeOK
<1>6. \A d \in Cases : Stays(d)
  BY <1>1, <1>2, <1>4, SameAppended DEF Stays
<1>. QED BY <1>3, <1>5, <1>6 DEF ReportInv

LEMMA WorksKeeps ==
  ASSUME ReportInv, NEW c \in Cases, Works(c) \/ SimulatedTick(c)
  PROVE  ReportInv' /\ \A d \in Cases : Stays(d)
<1>1. ReportTypeOK /\ Dated
  BY DEF ReportInv
<1>2. /\ caseStatus[c] \in {"open", "in_progress"}
      /\ UNCHANGED <<now, source, recoveredAt, promises, day, handling, received>>
      /\ phoned' \subseteq phoned \cup {c}
      /\ \E s \in {"in_progress", "stopped"} : caseStatus' = [caseStatus EXCEPT ![c] = s]
  BY <1>1 DEF Works, SimulatedTick, Worked, SetStatus, paymentVars, ReportTypeOK
<1>3. /\ recoveredAt[c] = Never /\ source[c] # "none" /\ Never \in Nat
      /\ recoveredAt' = [recoveredAt EXCEPT ![c] = Never]
  BY <1>1, <1>2, Bounds DEF Dated, ReportTypeOK
<1>4. promises' \in [Cases -> Seq(Nat)]
  BY <1>1, <1>2 DEF ReportTypeOK
<1>5. \A d \in Cases : Appended(d)
  BY <1>1, <1>2, SameAppended
<1>. QED BY <1>2, <1>3, <1>4, <1>5, CaseKeeps

LEMMA CallResultKeeps ==
  ASSUME ReportInv, NEW c \in Cases, NEW intent \in Intents,
         \/ CallResult(c, intent)
         \/ Simulating /\ source[c] = "seed" /\ Results(c, intent, day)
            /\ UNCHANGED <<now, source, recoveredAt, phoned, day, paymentVars>>
  PROVE  ReportInv' /\ \A d \in Cases : Stays(d)
<1>1. ReportTypeOK /\ Dated
  BY DEF ReportInv
<1>2. /\ \E t \in Nat : Results(c, intent, t)
      /\ UNCHANGED <<now, source, recoveredAt, day, handling, received>>
      /\ phoned' \subseteq phoned
      /\ source[c] # "none"
  BY <1>1 DEF CallResult, paymentVars, ReportTypeOK, Dated
<1>3. /\ promises' \in [Cases -> Seq(Nat)] /\ \A d \in Cases : Appended(d)
      /\ caseStatus' = caseStatus \/ caseStatus' = [caseStatus EXCEPT ![c] = "stopped"]
  BY <1>2, ResultsKeeps
<1>4. PICK s \in {caseStatus[c], "stopped"} : caseStatus' = [caseStatus EXCEPT ![c] = s]
  BY <1>1, <1>3 DEF ReportTypeOK
<1>5. /\ s \in {"open", "in_progress", "stopped", "recovered"} /\ recoveredAt[c] \in Nat
      /\ recoveredAt[c] # Never => s \in {"recovered", "stopped"}
  BY <1>1, <1>2 DEF ReportTypeOK, Dated
<1>6. /\ recoveredAt' = [recoveredAt EXCEPT ![c] = recoveredAt[c]]
      /\ phoned' \subseteq phoned \cup {c}
  BY <1>1, <1>2 DEF ReportTypeOK
<1>. QED BY <1>2, <1>3, <1>4, <1>5, <1>6, CaseKeeps

LEMMA PaymentArrivesKeeps ==
  ASSUME ReportInv, NEW c \in Cases, PaymentArrives(c)
  PROVE  ReportInv' /\ \A d \in Cases : Stays(d)
<1>. DEFINE h == [case |-> c, nr |-> received[c], at |-> now,
                  seen |-> IF Worked(c) THEN "live" ELSE caseStatus[c],
                  unpaid |-> recoveredAt[c] = Never]
<1>1. ReportTypeOK /\ Dated
  BY DEF ReportInv
<1>2. /\ source[c] = "razorpay" /\ handling' \ handling \subseteq {h}
      /\ UNCHANGED <<now, caseColumns, phoned, day>> /\ received' \in [Cases -> Nat]
  BY <1>1 DEF PaymentArrives, ReportTypeOK
<1>3. /\ h.case = c /\ h.at = now /\ (h.unpaid <=> recoveredAt[c] = Never)
      /\ h.seen = IF Worked(c) THEN "live" ELSE caseStatus[c]
  OBVIOUS
<1>4. recoveredAt[c] # Never => h.seen \in {"recovered", "stopped"}
  BY <1>1, <1>3 DEF Dated, Worked
<1>5. h.unpaid \/ h.seen \in {"recovered", "stopped"}
  BY <1>3, <1>4, Zenon
<1>6. h.case \in Cases /\ h.at \in 0..Latest /\ source[h.case] = "razorpay"
  BY <1>1, <1>2, <1>3, Bounds DEF ReportTypeOK
<1>7. now' \in Nat /\ now <= now' /\ now' <= Latest /\ day' \in Nat /\ phoned' \subseteq phoned
  BY <1>1, <1>2 DEF ReportTypeOK
<1>. HIDE DEF h
<1>. QED BY <1>2, <1>5, <1>6, <1>7, IdleKeeps

\* The commit of a payment writes its time, unless its handler had selected the
\* case recovered.
LEMMA PaymentCommitsKeeps ==
  ASSUME ReportInv, NEW h \in handling, PaymentCommits(h)
  PROVE  ReportInv' /\ \A d \in Cases : Stays(d)
<1>. DEFINE c == h.case
<1>1. ReportTypeOK /\ Dated /\ Grasped
  BY DEF ReportInv
<1>2. /\ c \in Cases /\ source[c] = "razorpay" /\ h \in handling \ handling' /\ h.at \in Nat
      /\ handling' \subseteq handling /\ phoned' \subseteq phoned /\ source[c] # "none"
      /\ UNCHANGED <<now, source, promises, phoned, day, received>>
  BY <1>1, Bounds DEF PaymentCommits, ReportTypeOK, Grasped
<1>3. promises' \in [Cases -> Seq(Nat)] /\ \A d \in Cases : Appended(d)
  BY <1>1, <1>2, SameAppended DEF ReportTypeOK
<1>4. CASE h.seen = "recovered"
  <2>1. UNCHANGED <<caseStatus, recoveredAt>>
    BY <1>4 DEF PaymentCommits, MarkRecovered
  <2>2. UNCHANGED caseColumns /\ \A k : k \notin handling' \ handling
    BY <1>2, <2>1 DEF caseColumns
  <2>3. now' \in Nat /\ now <= now' /\ now' <= Latest /\ day' \in Nat
        /\ received' \in [Cases -> Nat]
    BY <1>1, <1>2 DEF ReportTypeOK
  <2>. QED BY <1>2, <2>2, <2>3, IdleKeeps
<1>5. CASE h.seen # "recovered"
  <2>1. /\ caseStatus' = [caseStatus EXCEPT ![c] = "recovered"]
        /\ recoveredAt' = [recoveredAt EXCEPT ![c] = h.at]
    BY <1>5 DEF PaymentCommits, MarkRecovered, SetStatus
  <2>2. Overwrites(h)
    BY <1>1, <1>5 DEF Grasped, Overwrites
  <2>. QED BY <1>2, <1>3, <2>1, <2>2, CaseKeeps
<1>. QED BY <1>4, <1>5

LEMMA SettlesKeeps ==
  ASSUME ReportInv, NEW c \in Cases, Settles(c)
  PROVE  ReportInv' /\ \A d \in Cases : Stays(d)
<1>1. ReportTypeOK /\ Dated
  BY DEF ReportInv
<1>2. /\ source[c] = "seed" /\ caseStatus' = [caseStatus EXCEPT ![c] = "recovered"]
      /\ recoveredAt' = [recoveredAt EXCEPT ![c] = day] /\ day \in Nat
      /\ UNCHANGED <<now, source, promises, phoned, day, handling, received>>
  BY <1>1 DEF Settles, SetStatus, paymentVars, ReportTypeOK
<1>3. /\ promises' \in [Cases -> Seq(Nat)]
      /\ \A d \in Cases : Appended(d)
  BY <1>1, <1>2, SameAppended DEF ReportTypeOK
<1>. QED BY <1>2, <1>3, CaseKeeps

LEMMA SimulatedCallKeeps ==
  ASSUME ReportInv, NEW c \in Cases, NEW intent \in Intents, SimulatedCall(c, intent)
  PROVE  ReportInv' /\ \A d \in Cases : Stays(d)
<1>1. ReportTypeOK /\ Dated
  BY DEF ReportInv
<1>2. CASE Results(c, intent, day) /\ UNCHANGED recoveredAt
  BY <1>2, CallResultKeeps DEF SimulatedCall
<1>3. CASE /\ Promises(c, day) /\ SetStatus(c, "recovered")
           /\ \E t \in day..now : recoveredAt' = [recoveredAt EXCEPT ![c] = t]
  <2>1. PICK t \in day..now : recoveredAt' = [recoveredAt EXCEPT ![c] = t]
    BY <1>3
  <2>2. t \in Nat /\ day \in Nat
    BY <1>1, <2>1 DEF ReportTypeOK
  <2>3. /\ source[c] = "seed" /\ caseStatus' = [caseStatus EXCEPT ![c] = "recovered"]
        /\ UNCHANGED <<now, source, phoned, day, handling, received>>
    BY <1>3 DEF SimulatedCall, SetStatus, paymentVars
  <2>4. promises' \in [Cases -> Seq(Nat)] /\ \A d \in Cases : Appended(d)
    BY <1>1, <1>3, <2>2, PromisesAppends
  <2>. QED BY <2>1, <2>2, <2>3, <2>4, CaseKeeps
<1>. QED BY <1>2, <1>3 DEF SimulatedCall

\* Only simulated rows are deleted.
LEMMA ClearBatchKeeps ==
  ASSUME ReportInv, ClearBatch PROVE ReportInv' /\ \A d \in Cases : Stays(d)
<1>. DEFINE seeded == {c \in Cases : source[c] = "seed"}
<1>1. ReportTypeOK /\ Dated /\ Grasped
  BY DEF ReportInv
<1>2. /\ source' = [c \in Cases |-> IF c \in seeded THEN "none" ELSE source[c]]
      /\ caseStatus' = [c \in Cases |-> IF c \in seeded THEN "none" ELSE caseStatus[c]]
      /\ recoveredAt' = [c \in Cases |-> IF c \in seeded THEN Never ELSE recoveredAt[c]]
      /\ promises' = [c \in Cases |-> IF c \in seeded THEN <<>> ELSE promises[c]]
      /\ phoned' = phoned \ seeded /\ UNCHANGED <<now, day, handling, received>>
  BY DEF ClearBatch, paymentVars
<1>3. promises' \in [Cases -> Seq(Nat)]
  <2>1. \A c \in Cases : (IF c \in seeded THEN <<>> ELSE promises[c]) \in Seq(Nat)
    BY <1>1, EmptySeq DEF ReportTypeOK
  <2>. QED BY <1>2, <2>1
<1>4. ReportTypeOK'
  BY <1>1, <1>2, <1>3, Bounds DEF ReportTypeOK
<1>5. Dated' /\ Grasped'
  BY <1>1, <1>2 DEF Dated, Grasped, ReportTypeOK
<1>6. ASSUME NEW d \in Cases PROVE Stays(d)
  <2>. SUFFICES ASSUME source[d] = "razorpay"
                PROVE source'[d] = source[d] /\ Appended(d) /\ recoveredAt'[d] = recoveredAt[d]
    BY DEF Stays
  <2>1. promises'[d] = promises[d] /\ source'[d] = source[d] /\ recoveredAt'[d] = recoveredAt[d]
    BY <1>2
  <2>. QED BY <1>1, <2>1, SameAppended
<1>. QED BY <1>4, <1>5, <1>6 DEF ReportInv

LEMMA ClockKeeps ==
  ASSUME ReportInv, Tick \/ StartBatch \/ NextDay \/ UNCHANGED reportVars
  PROVE  ReportInv' /\ \A d \in Cases : Stays(d)
<1>1. ReportTypeOK
  BY DEF ReportInv
<1>2. /\ now' \in Nat /\ now <= now' /\ now' <= Latest /\ day' \in Nat
      /\ received' \in [Cases -> Nat] /\ phoned' \subseteq phoned /\ UNCHANGED caseColumns
      /\ handling' = handling
  <2>1. CASE Tick
    BY <1>1, <2>1, Bounds DEF Tick, ReportTypeOK, paymentVars
  <2>2. CASE StartBatch
    BY <1>1, <2>2, Bounds DEF StartBatch, ReportTypeOK, paymentVars
  <2>3. CASE NextDay
    BY <1>1, <2>3, Bounds DEF NextDay, ReportTypeOK, paymentVars
  <2>4. CASE UNCHANGED reportVars
    BY <1>1, <2>4 DEF reportVars, ReportTypeOK, paymentVars
  <2>. QED BY <2>1, <2>2, <2>3, <2>4
<1>. QED BY <1>2, IdleKeeps

LEMMA ReportStep ==
  ReportInv /\ [ReportNext]_reportVars => ReportInv' /\ \A d \in Cases : Stays(d)
<1>. SUFFICES ASSUME ReportInv, [ReportNext]_reportVars
              PROVE  ReportInv' /\ \A d \in Cases : Stays(d)
  OBVIOUS
<1>1. CASE Tick \/ StartBatch \/ NextDay
  BY <1>1, ClockKeeps
<1>2. CASE UNCHANGED reportVars
  BY <1>2, ClockKeeps
<1>3. CASE ClearBatch
  BY <1>3, ClearBatchKeeps
<1>4. ASSUME NEW c \in Cases,
             \/ OpensReal(c) \/ Works(c) \/ PaymentArrives(c)
             \/ SeedCase(c) \/ SimulatedTick(c) \/ Settles(c)
             \/ \E intent \in Intents : CallResult(c, intent) \/ SimulatedCall(c, intent)
      PROVE  ReportInv' /\ \A d \in Cases : Stays(d)
  <2>1. CASE OpensReal(c)
    BY <2>1, InsertKeeps DEF OpensReal
  <2>2. CASE SeedCase(c)
    BY <2>2, InsertKeeps DEF SeedCase
  <2>3. CASE Works(c) \/ SimulatedTick(c)
    BY <2>3, WorksKeeps
  <2>4. CASE PaymentArrives(c)
    BY <2>4, PaymentArrivesKeeps
  <2>5. CASE Settles(c)
    BY <2>5, SettlesKeeps
  <2>6. CASE \E intent \in Intents : CallResult(c, intent) \/ SimulatedCall(c, intent)
    BY <2>6, CallResultKeeps, SimulatedCallKeeps
  <2>. QED BY <1>4, <2>1, <2>2, <2>3, <2>4, <2>5, <2>6
<1>5. ASSUME NEW h \in handling, PaymentCommits(h)
      PROVE  ReportInv' /\ \A d \in Cases : Stays(d)
  BY <1>5, PaymentCommitsKeeps
<1>. QED BY <1>1, <1>2, <1>3, <1>4, <1>5 DEF ReportNext
-----------------------------------------------------------------------------
(* The scores. *)

LEMMA ScoreKept ==
  ASSUME ReportInv, ReportInv', \A d \in Cases : Stays(d),
         NEW p \in Kept("razorpay") \cup Lapsed("razorpay")
  PROVE  \/ p \in Kept("razorpay") <=> (p \in Kept("razorpay"))'
         \/ \E h \in handling \ handling' :
              /\ h.case = p[1] /\ Overwrites(h)
              /\ h.at <= Due(p) <=> p \notin Kept("razorpay")
<1>. DEFINE c == p[1]
            i == p[2]
<1>. USE Bounds
<1>1. ReportTypeOK /\ ReportTypeOK'
  BY DEF ReportInv
<1>2. /\ p \in Cases \X (1..MaxPromises) /\ c \in Cases /\ source[c] = "razorpay"
      /\ i \in 1..MaxPromises /\ i <= Len(promises[c])
  BY DEF Kept, Lapsed, Broken, Rows, InScope
<1>3. /\ Len(promises[c]) \in Nat /\ Len(promises'[c]) \in Nat /\ promises[c][i] \in Nat
  BY <1>1, <1>2, LenProperties, ElementOfSeq DEF ReportTypeOK
<1>4. source'[c] = "razorpay" /\ i <= Len(promises'[c]) /\ promises'[c][i] = promises[c][i]
  BY <1>2, <1>3 DEF Stays, Appended
<1>5. p \in Kept("razorpay") <=> recoveredAt[c] # Never /\ recoveredAt[c] <= Due(p)
  BY <1>2 DEF Kept, Rows, InScope, PaidAt, Due
<1>6. (p \in Kept("razorpay"))' <=> recoveredAt'[c] # Never /\ recoveredAt'[c] <= Due(p)
  BY <1>2, <1>4 DEF Kept, Rows, InScope, PaidAt, Due
<1>7. CASE recoveredAt'[c] = recoveredAt[c]
  BY <1>5, <1>6, <1>7
<1>8. ASSUME NEW h \in handling \ handling',
             h.case = c, Overwrites(h), recoveredAt'[c] = h.at
      PROVE  \/ p \in Kept("razorpay") <=> (p \in Kept("razorpay"))'
             \/ h.at <= Due(p) <=> p \notin Kept("razorpay")
  <2>1. h.at # Never
    BY <1>1 DEF ReportTypeOK
  <2>2. (p \in Kept("razorpay"))' <=> h.at <= Due(p)
    BY <1>6, <1>8, <2>1
  <2>. QED BY <2>2
<1>. QED BY <1>2, <1>7, <1>8 DEF Stays

\* For any number of debts, promises, payments, calls and simulated batches: a
\* promise of a real customer that was kept stays kept, and one that lapsed
\* stays broken, unless a payment whose handler had read the case before it was
\* paid, or after it was refused, commits a time that says otherwise.
THEOREM ScoresSettled == ReportSpec => ScoresSettle
<1>1. ReportInv /\ [ReportNext]_reportVars =>
        [\A p \in Kept("razorpay") \cup Lapsed("razorpay") :
           \/ p \in Kept("razorpay") <=> (p \in Kept("razorpay"))'
           \/ \E h \in handling \ handling' :
                /\ h.case = p[1] /\ Overwrites(h)
                /\ h.at <= Due(p) <=> p \notin Kept("razorpay")]_reportVars
  BY ReportStep, ScoreKept
<1>2. ReportInv /\ [ReportNext]_reportVars => ReportInv'
  BY ReportStep
<1>. QED BY ReportInitially, <1>1, <1>2, PTL DEF ReportSpec, ScoresSettle
=============================================================================
