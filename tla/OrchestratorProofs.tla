------------------------- MODULE OrchestratorProofs -------------------------
(***************************************************************************)
(* Safety of Orchestrator, for any number of cases, customers, workers and *)
(* aborted ticks, and any settings.                                        *)
(*                                                                         *)
(* The invariant comes in three layers, each inductive given those before. *)
(* Held: what a worker works on it has locked.  Standing: what is locked   *)
(* was live when it was locked, and a case not yet opened is blank.        *)
(* Counted: each try is in the two counters of the row, in a batch not yet *)
(* committed, or in one that was rolled back.                              *)
(*                                                                         *)
(* A last one, Person, follows the customers: what a session has read of   *)
(* somebody is the truth, unless a contact of theirs is not on record or   *)
(* is being made by a tick that overlaps.                                  *)
(***************************************************************************)
EXTENDS Orchestrator, FiniteSetTheorems, TLAPS

Columns == [do_not_contact : BOOLEAN, wrong : BOOLEAN, since : Int]

Places == {"idle", "next", "loaded", "acting", "publishing"}

\* The variables the type invariant says nothing of.
ShapeOK ==
  /\ view \in [Workers -> [Customers -> Columns \cup {NoOne}]]
  /\ tried \in [Workers -> SUBSET Cases]
  /\ tries \in [Cases -> Nat] /\ undone \in [Cases -> Nat]

InHand(w) ==
  /\ cur[w] \in Cases /\ lock[cur[w]] = w /\ cur[w] \notin batch[w]
  /\ CustomerOf[cur[w]] \in Customers => view[w][CustomerOf[cur[w]]] \in Columns

Trying(w) ==
  /\ CustomerOf[cur[w]] \in Customers
  /\ work[cur[w]].status = "in_progress"
  /\ work[cur[w]].attempts < MaxAttempts
  /\ work[cur[w]].failures < MaxDeliveryFailures

Held(w) ==
  /\ \A c \in batch[w] \cup tried[w] : lock[c] = w
  /\ batch[w] \cap tried[w] = {}
  /\ pc[w] \in {"idle", "publishing"} => batch[w] = {} /\ tried[w] = {}
  /\ pc[w] \in {"loaded", "acting"} => InHand(w)
  /\ pc[w] = "loaded" => cur[w] \notin tried[w]
  /\ pc[w] = "acting" => Trying(w)

HeldInv == OrchestratorTypeOK /\ ShapeOK /\ \A w \in Workers : Held(w)

Blank(r) == r.status = "absent" => r.attempts = 0 /\ r.failures = 0

Standing ==
  \A c \in Cases : /\ lock[c] # NoOne => row[c].status \in Live
                   /\ Blank(row[c]) /\ Blank(work[c])

\* How far a row has come through its two budgets.
Spent(r) ==
  IF r.attempts = MaxAttempts THEN MaxAttempts * MaxDeliveryFailures
  ELSE r.attempts * MaxDeliveryFailures + r.failures

TriedNow(c) == lock[c] \in Workers /\ c \in tried[lock[c]]

ActedOn(c) == lock[c] \in Workers /\ pc[lock[c]] = "acting" /\ cur[lock[c]] = c

RowCounted(c) ==
  tries[c] <= Spent(row[c]) + undone[c] + (IF TriedNow(c) THEN 1 ELSE 0)

WorkCounted(c) ==
  tries[c] <= Spent(work[c]) + undone[c] + (IF ActedOn(c) THEN 1 ELSE 0)

Counted == \A c \in Cases : RowCounted(c) /\ WorkCounted(c)
-----------------------------------------------------------------------------
(***************************************************************************)
(* What the operators of Policy return.                                    *)
(***************************************************************************)
\* decide() chooses an intervention only within both budgets, and only for a
\* customer there is a row of.
LEMMA ActingIsAllowed ==
  ASSUME NEW k, NEW u, NEW h,
         Decide(k, u, h).action \in {"retry_mandate", "link", "call"}
  PROVE  ~(k.attempts >= MaxAttempts) /\ ~(k.failures >= MaxDeliveryFailures) /\ u.known
<1>1. StopReason(k, u) = "none"
  BY DEF Decide, Decision
<1>. QED BY <1>1 DEF StopReason, AttemptsSpent, ReachableAtAll

\* retry_after is a time, past or future.
LEMMA RetryIsATime ==
  ASSUME NEW k, NEW u, NEW h, k.age \in Int, k.since \in Int, u.since \in Int
  PROVE  Decide(k, u, h).retry \in Int
<1>1. \A reason : RetryAfter(k, u, reason) \in Int
  BY PolicyAssumption DEF RetryAfter
<1>. QED BY <1>1 DEF Decide, Decision

\* Ages stay within their bound, times to go stay natural.
LEMMA AgeingType ==
  /\ \A most \in Nat : \A age \in 0..most : Older(age, most) \in 0..most
  /\ \A left \in Nat : Younger(left) \in Nat /\ Younger(left) <= left
BY DEF Older, Younger

LEMMA BoundsType ==
  /\ MaxSince \in Nat /\ MaxAge \in Nat /\ MaxCalm \in Nat /\ MaxLag \in Nat
  /\ MaxLag <= MaxSince /\ MaxLag <= MaxCalm
  /\ NewCase \in CaseRow /\ Blank(NewCase)
BY PolicyAssumption, OrchestratorAssumption
   DEF MaxSince, MaxAge, MaxCalm, NewCase, CaseRow, Statuses, Blank
-----------------------------------------------------------------------------
(***************************************************************************)
(* The first layer.                                                        *)
(***************************************************************************)
LEMMA HeldInitially == OrchestratorInit => HeldInv
<1>. SUFFICES ASSUME OrchestratorInit PROVE HeldInv
  OBVIOUS
<1>. USE PolicyAssumption, OrchestratorAssumption, BoundsType DEF OrchestratorInit
<1>1. RowsOK
  BY DEF RowsOK
<1>2. PeopleOK
  BY DEF PeopleOK
<1>3. WorkersOK /\ ShapeOK
  BY DEF WorkersOK, ShapeOK
<1>4. \A w \in Workers : Held(w)
  BY DEF Held
<1>. QED BY <1>1, <1>2, <1>3, <1>4 DEF HeldInv, OrchestratorTypeOK

\* A worker nobody touches, and whose rows nobody touches, keeps what it holds.
LEMMA HeldFrame ==
  ASSUME HeldInv, NEW v \in Workers,
         batch'[v] = batch[v], tried'[v] = tried[v], pc'[v] = pc[v],
         cur'[v] = cur[v], view'[v] = view[v],
         \A c \in Cases : lock[c] = v => lock'[c] = v /\ work'[c] = work[c]
  PROVE  Held(v)'
BY DEF HeldInv, OrchestratorTypeOK, Held, InHand, Trying, WorkersOK, ShapeOK

LEMMA HeldClaim ==
  ASSUME HeldInv, NEW w \in Workers, Claim(w) PROVE HeldInv'
<1>. USE OrchestratorAssumption
     DEF HeldInv, OrchestratorTypeOK, historyVars
<1>0. TopOf(Claimable) \subseteq {c \in Cases : lock[c] = NoOne}
  BY DEF TopOf, Claimable, Unlocked
<1>1. RowsOK'
  BY <1>0 DEF RowsOK, Claim
<1>2. PeopleOK'
  BY DEF PeopleOK, Claim
<1>3. WorkersOK' /\ ShapeOK'
  BY <1>0 DEF WorkersOK, ShapeOK, Claim
<1>4. Held(w)'
  <2>1. /\ batch'[w] = TopOf(Claimable) /\ tried'[w] = {} /\ pc'[w] = "next"
        /\ \A c \in TopOf(Claimable) : lock'[c] = w
    BY <1>0 DEF Claim, Held, WorkersOK, RowsOK
  <2>. QED BY <2>1 DEF Held
<1>5. ASSUME NEW v \in Workers, v # w PROVE Held(v)'
  BY <1>0, <1>5, HeldFrame DEF Claim, RowsOK, WorkersOK
<1>. QED BY <1>1, <1>2, <1>3, <1>4, <1>5

\* Reading, flushing and publishing: nothing is taken up or let go.
LEMMA HeldFlush ==
  ASSUME HeldInv, NEW w \in Workers, Flush(w) PROVE HeldInv'
<1>. USE OrchestratorAssumption DEF HeldInv, OrchestratorTypeOK, historyVars
<1>1. RowsOK' /\ PeopleOK'
  BY DEF RowsOK, PeopleOK, WorkersOK, Flush
<1>2. WorkersOK' /\ ShapeOK'
  BY DEF WorkersOK, ShapeOK, Flush
<1>3. ASSUME NEW v \in Workers PROVE Held(v)'
  BY HeldFrame DEF Flush
<1>. QED BY <1>1, <1>2, <1>3

\* What the session knows of a customer has the shape of a row.
LEMMA KnownType ==
  ASSUME HeldInv, NEW w \in Workers, NEW u \in Customers
  PROVE  Known(w, u) \in Columns
<1>1. CASE view[w][u] = NoOne
  <2>1. /\ person[u] \in [do_not_contact : BOOLEAN, wrong : BOOLEAN, since : 0..MaxCalm]
        /\ lag[w] \in 0..MaxLag
    BY DEF HeldInv, OrchestratorTypeOK, PeopleOK, WorkersOK
  <2>2. [person[u] EXCEPT !.since = @ - lag[w]] \in Columns
    BY <2>1, BoundsType DEF Columns
  <2>. QED BY <1>1, <2>2 DEF Known
<1>2. CASE view[w][u] # NoOne
  BY <1>2 DEF HeldInv, ShapeOK, Known
<1>. QED BY <1>1, <1>2

LEMMA HeldLoad ==
  ASSUME HeldInv, NEW w \in Workers, Load(w) PROVE HeldInv'
<1>. USE OrchestratorAssumption DEF HeldInv, OrchestratorTypeOK, historyVars, tableVars
<1>0. PICK c \in batch[w] :
        /\ cur' = [cur EXCEPT ![w] = c]
        /\ batch' = [batch EXCEPT ![w] = @ \ {c}]
        /\ view' = IF CustomerOf[c] = NoOne THEN view
                   ELSE [view EXCEPT ![w][CustomerOf[c]] = Known(w, CustomerOf[c])]
  BY DEF Load
<1>1. c \in Cases /\ lock[c] = w /\ c \notin tried[w]
  BY DEF Held, WorkersOK
<1>2. CustomerOf[c] \in Customers \cup {NoOne}
  BY <1>1
<1>3. RowsOK' /\ PeopleOK'
  BY DEF RowsOK, PeopleOK, Load
<1>4. WorkersOK'
  BY <1>0, <1>1 DEF WorkersOK, Load
<1>5. ShapeOK' /\ (CustomerOf[c] \in Customers => view'[w][CustomerOf[c]] \in Columns)
  BY <1>0, <1>2, KnownType DEF ShapeOK, Load
<1>6. Held(w)'
  BY <1>0, <1>1, <1>5 DEF Held, InHand, Load, WorkersOK, ShapeOK
<1>7. ASSUME NEW v \in Workers, v # w PROVE Held(v)'
  BY <1>0, <1>7, HeldFrame DEF Load, WorkersOK, ShapeOK
<1>. QED BY <1>3, <1>4, <1>5, <1>6, <1>7

\* decide()'s answer, as of a state with a case in hand.
LEMMA VerdictType ==
  ASSUME HeldInv, NEW w \in Workers, pc[w] = "loaded"
  PROVE  /\ Verdict(w).retry \in Int
         /\ Verdict(w).action \in {"retry_mandate", "link", "call"} =>
              /\ CustomerOf[cur[w]] \in Customers
              /\ work[cur[w]].attempts < MaxAttempts
              /\ work[cur[w]].failures < MaxDeliveryFailures
<1>. USE OrchestratorAssumption, PolicyAssumption, BoundsType
<1>1. /\ cur[w] \in Cases /\ work[cur[w]] \in CaseRow /\ lag[w] \in Nat
      /\ CustomerOf[cur[w]] \in Customers => view[w][CustomerOf[cur[w]]] \in Columns
      /\ CustomerOf[cur[w]] \in Customers \cup {NoOne}
  BY DEF HeldInv, OrchestratorTypeOK, Held, InHand, RowsOK, WorkersOK
<1>2. CaseFacts(w).age \in Int /\ CaseFacts(w).since \in Int
  BY <1>1 DEF CaseFacts, CaseRow
<1>3. CustomerFacts(w).since \in Int
  BY <1>1 DEF CustomerFacts, Columns
<1>4. Verdict(w).retry \in Int
  BY <1>2, <1>3, RetryIsATime DEF Verdict
<1>5. ASSUME Verdict(w).action \in {"retry_mandate", "link", "call"}
      PROVE  /\ ~(CaseFacts(w).attempts >= MaxAttempts)
             /\ ~(CaseFacts(w).failures >= MaxDeliveryFailures)
             /\ CustomerFacts(w).known
  BY <1>5, ActingIsAllowed DEF Verdict
<1>. QED BY <1>1, <1>4, <1>5 DEF CaseFacts, CustomerFacts, CaseRow

\* What leaves a row that is looked at locked, and the batch as it is.
LEMMA HeldReturns ==
  ASSUME HeldInv, NEW w \in Workers, pc[w] = "loaded",
         NEW to \in {"next", "acting"}, Returns(w, to),
         NEW r \in CaseRow, work' = [work EXCEPT ![cur[w]] = r] \/ UNCHANGED work,
         cur' \in [Workers -> Cases \cup {NoOne}],
         tried' = [tried EXCEPT ![w] = tried'[w]], tries' \in [Cases -> Nat],
         \A v \in Workers \ {w} : cur'[v] = cur[v],
         \/ to = "next" /\ tried'[w] = tried[w]
         \/ /\ to = "acting" /\ tried'[w] = tried[w] \cup {cur[w]}
            /\ cur'[w] = cur[w] /\ Trying(w)'
  PROVE  HeldInv'
<1>. USE OrchestratorAssumption DEF HeldInv, OrchestratorTypeOK, Returns
<1>0. InHand(w) /\ cur[w] \in Cases /\ cur[w] \notin tried[w]
  BY DEF Held, InHand
<1>1. RowsOK'
  BY <1>0 DEF RowsOK, InHand
<1>2. PeopleOK'
  BY DEF PeopleOK
<1>3. WorkersOK'
  BY <1>0 DEF WorkersOK
<1>31. ShapeOK'
  <2>1. tried'[w] \subseteq Cases /\ undone' = undone /\ view' = view
    BY <1>0 DEF ShapeOK
  <2>. QED BY <2>1 DEF ShapeOK
<1>4. Held(w)'
  BY <1>0 DEF Held, InHand, WorkersOK, ShapeOK
<1>5. ASSUME NEW v \in Workers, v # w PROVE Held(v)'
  BY <1>0, <1>5, HeldFrame DEF InHand, RowsOK, WorkersOK, ShapeOK
<1>. QED BY <1>1, <1>2, <1>3, <1>31, <1>4, <1>5

LEMMA HeldDecision ==
  ASSUME HeldInv, NEW w \in Workers, Skip(w) \/ Park(w) \/ Stop(w) \/ Act(w)
  PROVE  HeldInv'
<1>. USE BoundsType DEF HeldInv, OrchestratorTypeOK
<1>0. /\ pc[w] = "loaded" /\ InHand(w) /\ cur[w] \in Cases /\ lag[w] \in 0..MaxLag
      /\ work[cur[w]] \in CaseRow /\ cur \in [Workers -> Cases \cup {NoOne}]
      /\ tried \in [Workers -> SUBSET Cases] /\ tries \in [Cases -> Nat]
      /\ tried = [tried EXCEPT ![w] = tried[w]]
  BY DEF Skip, Park, Stop, Act, Held, InHand, RowsOK, WorkersOK, ShapeOK
<1>1. CASE Skip(w)
  BY <1>0, <1>1, HeldReturns DEF Skip
<1>2. CASE Park(w)
  <2>. DEFINE due == Verdict(w).retry - lag[w]
              left == IF due > 0 THEN due ELSE 0
  <2>0. due \in Int
    BY <1>0, VerdictType
  <2>1. left \in Nat /\ work' = [work EXCEPT ![cur[w]].parked = left]
    BY <1>2, <2>0 DEF Park
  <2>. HIDE DEF left
  <2>. DEFINE r == [work[cur[w]] EXCEPT !.parked = left]
  <2>2. r \in CaseRow /\ work' = [work EXCEPT ![cur[w]] = r]
    BY <1>0, <2>1 DEF CaseRow
  <2>. HIDE DEF r
  <2>. QED BY <1>0, <1>2, <2>2, HeldReturns DEF Park
<1>3. CASE Stop(w)
  <2>. DEFINE r == [work[cur[w]] EXCEPT !.status = "stopped", !.parked = 0]
  <2>1. work' = [work EXCEPT ![cur[w]].status = "stopped", ![cur[w]].parked = 0]
    BY <1>3 DEF Stop
  <2>2. r \in CaseRow /\ work' = [work EXCEPT ![cur[w]] = r]
    BY <1>0, <2>1 DEF CaseRow, Statuses, RowsOK
  <2>. HIDE DEF r
  <2>. QED BY <1>0, <1>3, <2>2, HeldReturns DEF Stop
<1>4. CASE Act(w)
  <2>. DEFINE r == [work[cur[w]] EXCEPT !.status = "in_progress", !.since = lag[w],
                                       !.parked = 0]
  <2>1. work' = [work EXCEPT ![cur[w]].status = "in_progress",
                             ![cur[w]].since = lag[w], ![cur[w]].parked = 0]
    BY <1>4 DEF Act
  <2>2. r \in CaseRow /\ work' = [work EXCEPT ![cur[w]] = r]
    <3>1. lag[w] \in 0..MaxSince
      BY <1>0
    <3>2. r \in CaseRow
      BY <1>0, <3>1 DEF CaseRow, Statuses
    <3>3. work' = [work EXCEPT ![cur[w]] = r]
      BY <1>0, <2>1 DEF RowsOK
    <3>. QED BY <3>2, <3>3
  <2>3. Trying(w)'
    <3>1. Verdict(w).action \in {"retry_mandate", "link", "call"} /\ cur' = cur
      BY <1>4 DEF Act
    <3>2. work'[cur[w]] = r
      BY <1>0, <2>2 DEF RowsOK
    <3>. QED BY <1>0, <3>1, <3>2, VerdictType DEF Trying, CaseRow
  <2>4. tried'[w] = tried[w] \cup {cur[w]} /\ tries' \in [Cases -> Nat]
    BY <1>0, <1>4 DEF Act
  <2>5. tried' = [tried EXCEPT ![w] = tried'[w]]
    BY <1>0, <1>4 DEF Act
  <2>. HIDE DEF r
  <2>. QED BY <1>0, <1>4, <2>2, <2>3, <2>4, <2>5, HeldReturns DEF Act
<1>. QED BY <1>1, <1>2, <1>3, <1>4

\* A try ends one way or the other; the counter that grows was below its limit.
LEMMA HeldTried ==
  ASSUME HeldInv, NEW w \in Workers, Delivered(w) \/ NotDelivered(w)
  PROVE  HeldInv'
<1>. USE OrchestratorAssumption, PolicyAssumption, BoundsType
     DEF HeldInv, OrchestratorTypeOK, historyVars
<1>. DEFINE c == cur[w]
            u == CustomerOf[c]
<1>0. /\ c \in Cases /\ work[c] \in CaseRow /\ u \in Customers
      /\ pc[w] = "acting" /\ InHand(w) /\ Trying(w)
  BY DEF TryEnds, Delivered, NotDelivered, Held, InHand, Trying, RowsOK
<1>1. PICK r \in CaseRow : work' = [work EXCEPT ![c] = r]
  <2>1. CASE Delivered(w)
    <3>. DEFINE r == [work[c] EXCEPT !.attempts = @ + 1, !.failures = 0]
    <3>0. work[c].attempts + 1 \in 0..MaxAttempts /\ 0 \in 0..MaxDeliveryFailures
      BY <1>0 DEF CaseRow, Trying
    <3>1. r \in CaseRow
      BY <1>0, <3>0 DEF CaseRow
    <3>2. work' = [work EXCEPT ![c].attempts = @ + 1, ![c].failures = 0]
      BY <2>1 DEF Delivered
    <3>3. work' = [work EXCEPT ![c] = r]
      BY <1>0, <3>2 DEF RowsOK
    <3>. QED BY <3>1, <3>3
  <2>2. CASE NotDelivered(w)
    <3>. DEFINE r == [work[c] EXCEPT !.failures = @ + 1]
    <3>1. r \in CaseRow
      BY <1>0 DEF CaseRow, Trying
    <3>2. work' = [work EXCEPT ![c] = r]
      BY <1>0, <2>2 DEF NotDelivered, CountFailure, RowsOK
    <3>. QED BY <3>1, <3>2
  <2>. QED BY <2>1, <2>2
<1>2. /\ pc' = [pc EXCEPT ![w] = "next"] /\ cur' = [cur EXCEPT ![w] = NoOne]
      /\ UNCHANGED <<row, lock, person, writer, cooldown, hour, lag, batch, aborts,
                     tried, tries, undone>>
  BY DEF TryEnds, Delivered, NotDelivered
<1>3. /\ touched' \in [Workers -> SUBSET Customers]
      /\ dirty' \in [Workers -> Customers \cup {NoOne}]
      /\ onCall' \subseteq Cases
  <2>1. CASE Delivered(w)
    <3>1. /\ touched' = [touched EXCEPT ![w] = @ \cup {u}]
          /\ dirty' = [dirty EXCEPT ![w] = u]
          /\ onCall' \subseteq onCall \cup {c}
      BY <2>1 DEF Delivered, Reaches
    <3>. QED BY <1>0, <3>1 DEF WorkersOK, PeopleOK
  <2>2. CASE NotDelivered(w)
    BY <1>0, <2>2 DEF NotDelivered, Reaches, WorkersOK, PeopleOK
  <2>. QED BY <2>1, <2>2
<1>4. /\ view' \in [Workers -> [Customers -> Columns \cup {NoOne}]]
      /\ \A v \in Workers \ {w} : view'[v] = view[v]
  <2>1. CASE Delivered(w)
    <3>1. view[w][u] \in Columns
      BY <1>0 DEF InHand
    <3>2. [view[w][u] EXCEPT !.since = 0] \in Columns
      BY <3>1 DEF Columns
    <3>3. view' = [view EXCEPT ![w][u].since = 0]
      BY <2>1 DEF Delivered, SetContacted
    <3>4. view' = [view EXCEPT ![w] = [view[w] EXCEPT ![u] = [view[w][u] EXCEPT !.since = 0]]]
      BY <1>0, <3>3 DEF ShapeOK
    <3>. QED BY <1>0, <3>2, <3>4 DEF ShapeOK
  <2>2. CASE NotDelivered(w)
    BY <2>2 DEF NotDelivered, ShapeOK
  <2>. QED BY <2>1, <2>2
<1>5. RowsOK' /\ PeopleOK'
  BY <1>0, <1>1, <1>2, <1>3 DEF RowsOK, PeopleOK, InHand
<1>6. WorkersOK'
  BY <1>2, <1>3 DEF WorkersOK
<1>7. ShapeOK'
  BY <1>2, <1>4 DEF ShapeOK
<1>8. Held(w)'
  BY <1>2 DEF Held, WorkersOK
<1>9. ASSUME NEW v \in Workers, v # w PROVE Held(v)'
  BY <1>0, <1>1, <1>2, <1>4, <1>9, HeldFrame DEF InHand, RowsOK, WorkersOK
<1>. QED BY <1>5, <1>6, <1>7, <1>8, <1>9

\* A session that ends leaves its worker with nothing, the others with theirs.
LEMMA HeldEndSession ==
  ASSUME HeldInv, NEW w \in Workers, EndSession(w),
         NEW to \in {"idle", "publishing"}, pc' = [pc EXCEPT ![w] = to],
         \A c \in Cases : lock[c] # w => work'[c] = work[c]
  PROVE  \A v \in Workers : Held(v)'
<1>. USE OrchestratorAssumption DEF HeldInv, OrchestratorTypeOK, EndSession
<1>1. Held(w)'
  BY DEF Held, WorkersOK, ShapeOK
<1>2. ASSUME NEW v \in Workers, v # w PROVE Held(v)'
  BY <1>2, HeldFrame DEF RowsOK, WorkersOK, ShapeOK
<1>. QED BY <1>1, <1>2

LEMMA HeldCommit ==
  ASSUME HeldInv, NEW w \in Workers, Commit(w) PROVE HeldInv'
<1>. USE OrchestratorAssumption, BoundsType DEF HeldInv, OrchestratorTypeOK
<1>1. RowsOK'
  BY DEF RowsOK, Commit, EndSession
<1>2. \A u \in Customers : Stamped(w, u) \in
        [do_not_contact : BOOLEAN, wrong : BOOLEAN, since : 0..MaxCalm]
  <2>1. lag[w] \in 0..MaxCalm
    BY DEF WorkersOK
  <2>. QED BY <2>1 DEF Stamped, PeopleOK
<1>3. PeopleOK'
  BY <1>2 DEF PeopleOK, Commit, EndSession
<1>4. WorkersOK' /\ ShapeOK'
  BY DEF WorkersOK, ShapeOK, Commit, EndSession
<1>5. \A v \in Workers : Held(v)'
  BY HeldEndSession DEF Commit
<1>. QED BY <1>1, <1>3, <1>4, <1>5

LEMMA HeldAbort ==
  ASSUME HeldInv, NEW w \in Workers, Abort(w) PROVE HeldInv'
<1>. USE OrchestratorAssumption, BoundsType DEF HeldInv, OrchestratorTypeOK
<1>1. RowsOK'
  BY DEF RowsOK, Abort, EndSession
<1>2. PeopleOK'
  BY DEF PeopleOK, Abort, EndSession
<1>3. WorkersOK' /\ ShapeOK'
  BY DEF WorkersOK, ShapeOK, Abort, EndSession
<1>4. \A v \in Workers : Held(v)'
  BY HeldEndSession DEF Abort
<1>. QED BY <1>1, <1>2, <1>3, <1>4

LEMMA HeldPublish ==
  ASSUME HeldInv, NEW w \in Workers, Publish(w) PROVE HeldInv'
<1>. USE OrchestratorAssumption, PolicyAssumption
     DEF HeldInv, OrchestratorTypeOK, historyVars, tableVars
<1>1. RowsOK' /\ PeopleOK'
  BY DEF RowsOK, PeopleOK, Publish
<1>2. WorkersOK' /\ ShapeOK'
  BY DEF WorkersOK, ShapeOK, Publish
<1>3. pc[w] = "publishing" /\ pc'[w] \in {"publishing", "idle"}
  BY DEF Publish, WorkersOK
<1>4. Held(w)'
  BY <1>3 DEF Held, Publish
<1>5. ASSUME NEW v \in Workers, v # w PROVE Held(v)'
  BY <1>5, HeldFrame DEF Publish, WorkersOK
<1>. QED BY <1>1, <1>2, <1>4, <1>5

\* What a webhook or a call may make of a row: it is not blanked, not reopened,
\* and its counters stay, but for a refusal that spends all attempts.
Onward(old, new) ==
  /\ new \in CaseRow /\ new.status # "absent"
  /\ old.status \in CLOSED_STATUSES => new.status \in CLOSED_STATUSES
  /\ Blank(old) => /\ new.attempts \in {old.attempts, MaxAttempts}
                   /\ new.failures = old.failures

LEMMA CaseStepOnward ==
  ASSUME HeldInv, NEW c \in Cases, CaseStep(c)
  PROVE  \/ HangUp(c)
         \/ /\ \E new : Onward(row[c], new) /\ Writes(c, new)
            /\ onCall' \subseteq Cases
            /\ person' \in [Customers -> [do_not_contact : BOOLEAN, wrong : BOOLEAN,
                                         since : 0..MaxCalm]]
<1>. USE PolicyAssumption, BoundsType DEF CaseRow, Statuses, CLOSED_STATUSES, Live, Onward
<1>0. /\ row[c] \in CaseRow /\ onCall \subseteq Cases
      /\ person \in [Customers -> [do_not_contact : BOOLEAN, wrong : BOOLEAN,
                                  since : 0..MaxCalm]]
  BY DEF HeldInv, OrchestratorTypeOK, RowsOK, PeopleOK
<1>1. CASE OpenCase(c)
  <2>. DEFINE new == [NewCase EXCEPT !.status = "open",
                                    !.parked = IF c \in Subscribed THEN 0 ELSE 1]
  <2>1. Onward(row[c], new)
    BY <1>1 DEF OpenCase, NewCase, Blank
  <2>2. Writes(c, new) /\ UNCHANGED <<person, onCall>>
    BY <1>1 DEF OpenCase
  <2>. QED BY <1>0, <2>1, <2>2
<1>2. CASE Pay(c)
  <2>1. Onward(row[c], [row[c] EXCEPT !.status = "recovered"])
    BY <1>0
  <2>. QED BY <1>0, <1>2, <2>1 DEF Pay
<1>3. CASE Halt(c)
  <2>1. Onward(row[c], [row[c] EXCEPT !.halted = TRUE])
    BY <1>0, <1>3 DEF Halt
  <2>. QED BY <1>0, <1>3, <2>1 DEF Halt
<1>4. CASE Refuse(c)
  <2>1. PICK end \in {"declined", "stopped"} :
          /\ Writes(c, [row[c] EXCEPT !.status = end, !.attempts = MaxAttempts])
          /\ \/ person' = [person EXCEPT ![CustomerOf[c]].wrong = TRUE]
             \/ person' = [person EXCEPT ![CustomerOf[c]].do_not_contact = TRUE]
    BY <1>4 DEF Refuse
  <2>. DEFINE new == [row[c] EXCEPT !.status = end, !.attempts = MaxAttempts]
              Rows == [do_not_contact : BOOLEAN, wrong : BOOLEAN, since : 0..MaxCalm]
  <2>2. new \in CaseRow
    <3>1. MaxAttempts \in 0..MaxAttempts /\ end \in Statuses \cup {"absent"}
      OBVIOUS
    <3>. QED BY <1>0, <3>1
  <2>3. Onward(row[c], new)
    BY <1>0, <2>2
  <2>4. onCall' \subseteq Cases
    BY <1>0, <1>4 DEF Refuse
  <2>5. person' \in [Customers -> Rows]
    <3>. HIDE DEF CaseRow, Statuses, CLOSED_STATUSES, Live, Onward, new
    <3>1. ASSUME NEW p \in Rows
          PROVE  [p EXCEPT !.wrong = TRUE] \in Rows /\ [p EXCEPT !.do_not_contact = TRUE] \in Rows
      OBVIOUS
    <3>. DEFINE u == CustomerOf[c]
    <3>2. person \in [Customers -> Rows]
      BY <1>0
    <3>. HIDE DEF Rows
    <3>4. CASE person' = [person EXCEPT ![u].wrong = TRUE]
      <4>1. person' = [person EXCEPT ![u] = [person[u] EXCEPT !.wrong = TRUE]]
        BY <3>4
      <4>. QED BY <3>1, <3>2, <4>1
    <3>5. CASE person' = [person EXCEPT ![u].do_not_contact = TRUE]
      <4>1. person' = [person EXCEPT ![u] = [person[u] EXCEPT !.do_not_contact = TRUE]]
        BY <3>5
      <4>. QED BY <3>1, <3>2, <4>1
    <3>. QED BY <2>1, <3>4, <3>5
  <2>6. Writes(c, new)
    BY <2>1
  <2>. HIDE DEF new
  <2>. QED BY <2>3, <2>4, <2>5, <2>6
<1>. QED BY <1>1, <1>2, <1>3, <1>4 DEF CaseStep

LEMMA HeldCaseStep ==
  ASSUME HeldInv, NEW c \in Cases, CaseStep(c) PROVE HeldInv'
<1>. USE DEF HeldInv, OrchestratorTypeOK, historyVars, workerVars, tableVars
<1>1. CASE HangUp(c)
  <2>1. RowsOK' /\ PeopleOK' /\ WorkersOK' /\ ShapeOK'
    BY <1>1 DEF RowsOK, PeopleOK, WorkersOK, ShapeOK, HangUp
  <2>2. ASSUME NEW v \in Workers PROVE Held(v)'
    BY <1>1, HeldFrame DEF HangUp
  <2>. QED BY <2>1, <2>2
<1>2. ASSUME NEW new, Onward(row[c], new), Writes(c, new), onCall' \subseteq Cases,
             person' \in [Customers -> [do_not_contact : BOOLEAN, wrong : BOOLEAN,
                                       since : 0..MaxCalm]]
      PROVE  HeldInv'
  <2>1. RowsOK' /\ PeopleOK'
    BY <1>2 DEF RowsOK, PeopleOK, Writes, Onward, Unlocked
  <2>2. WorkersOK' /\ ShapeOK'
    BY <1>2 DEF WorkersOK, ShapeOK, Writes
  <2>3. ASSUME NEW v \in Workers PROVE Held(v)'
    BY <1>2, HeldFrame, OrchestratorAssumption DEF Writes, Unlocked, RowsOK
  <2>. QED BY <2>1, <2>2, <2>3
<1>. QED BY <1>1, <1>2, CaseStepOnward

\* Time changes no status and no counter.
LEMMA AgedType ==
  ASSUME NEW r \in CaseRow
  PROVE  /\ Aged(r) \in CaseRow /\ Aged(r).status = r.status
         /\ Aged(r).attempts = r.attempts /\ Aged(r).failures = r.failures
<1>1. /\ r.age \in 0..MaxAge /\ r.since \in 0..MaxSince /\ r.parked \in Nat
  BY DEF CaseRow
<1>2. Older(r.age, MaxAge) \in 0..MaxAge
  BY <1>1, AgeingType, BoundsType
<1>3. Older(r.since, MaxSince) \in 0..MaxSince
  BY <1>1, AgeingType, BoundsType
<1>4. Younger(r.parked) \in Nat
  BY <1>1, AgeingType
<1>. DEFINE older == IF r.status = "absent" THEN 0 ELSE Older(r.age, MaxAge)
<1>5. older \in 0..MaxAge
  BY <1>2, BoundsType
<1>6. Aged(r) = [r EXCEPT !.age = older, !.since = Older(r.since, MaxSince),
                         !.parked = Younger(r.parked)]
  BY DEF Aged, CaseRow
<1>. HIDE DEF older
<1>. QED BY <1>3, <1>4, <1>5, <1>6 DEF CaseRow

LEMMA HeldTimePasses ==
  ASSUME HeldInv, TimePasses PROVE HeldInv'
<1>. USE OrchestratorAssumption, PolicyAssumption, BoundsType
     DEF HeldInv, OrchestratorTypeOK
<1>1. RowsOK'
  BY AgedType DEF RowsOK, TimePasses
<1>2. \A u \in Customers :
        [person[u] EXCEPT !.since = Older(@, MaxCalm)] \in
          [do_not_contact : BOOLEAN, wrong : BOOLEAN, since : 0..MaxCalm]
  <2>. SUFFICES ASSUME NEW u \in Customers
               PROVE  [person[u] EXCEPT !.since = Older(@, MaxCalm)] \in
                 [do_not_contact : BOOLEAN, wrong : BOOLEAN, since : 0..MaxCalm]
    OBVIOUS
  <2>1. Older(person[u].since, MaxCalm) \in 0..MaxCalm
    BY AgeingType DEF PeopleOK
  <2>. QED BY <2>1 DEF PeopleOK
<1>3. \A u \in Customers : Younger(cooldown[u]) \in 0..Cooldown
  BY AgeingType DEF PeopleOK
<1>4. (hour + 1) % Day \in 0..(Day - 1)
  BY DEF PeopleOK
<1>5. PeopleOK'
  BY <1>2, <1>3, <1>4 DEF PeopleOK, TimePasses
<1>6. lag' \in [Workers -> 0..MaxLag]
  BY DEF WorkersOK, TimePasses
<1>7. WorkersOK' /\ ShapeOK'
  BY <1>6 DEF WorkersOK, ShapeOK, TimePasses
<1>8. \A c \in Cases : /\ work'[c].status = work[c].status
                        /\ work'[c].attempts = work[c].attempts
                        /\ work'[c].failures = work[c].failures
  BY AgedType DEF RowsOK, TimePasses
<1>9. ASSUME NEW v \in Workers PROVE Held(v)'
  <2>1. /\ batch'[v] = batch[v] /\ tried'[v] = tried[v] /\ pc'[v] = pc[v]
        /\ cur'[v] = cur[v] /\ view'[v] = view[v] /\ lock' = lock
    BY DEF TimePasses
  <2>2. pc[v] \in {"loaded", "acting"} => cur[v] \in Cases
    BY DEF WorkersOK
  <2>. QED BY <1>8, <2>1, <2>2 DEF Held, InHand, Trying
<1>. QED BY <1>1, <1>5, <1>7, <1>9

LEMMA HeldStep ==
  ASSUME HeldInv, [OrchestratorNext]_vars PROVE HeldInv'
<1>1. ASSUME NEW w \in Workers, WorkerStep(w) \/ Abort(w) PROVE HeldInv'
  BY <1>1, HeldClaim, HeldFlush, HeldLoad, HeldDecision, HeldTried, HeldCommit,
     HeldPublish, HeldAbort DEF WorkerStep
<1>2. ASSUME NEW c \in Cases, CaseStep(c) PROVE HeldInv'
  BY <1>2, HeldCaseStep
<1>3. CASE TimePasses
  BY <1>3, HeldTimePasses
<1>4. CASE UNCHANGED vars
  <2>1. RowsOK' /\ PeopleOK' /\ WorkersOK' /\ ShapeOK'
    BY <1>4 DEF HeldInv, OrchestratorTypeOK, RowsOK, PeopleOK, WorkersOK, ShapeOK,
                vars, tableVars, workerVars, historyVars
  <2>2. ASSUME NEW v \in Workers PROVE Held(v)'
    BY <1>4, HeldFrame DEF vars, tableVars, workerVars, historyVars
  <2>. QED BY <2>1, <2>2 DEF HeldInv, OrchestratorTypeOK
<1>. QED BY <1>1, <1>2, <1>3, <1>4 DEF OrchestratorNext

\* orchestrator.py, worker.py: every reachable state is well formed, and no
\* row's attempt or failure count passes its limit, whoever counts it.
THEOREM OrchestratorTypeCorrect == OrchestratorSpec => []OrchestratorTypeOK
<1>1. OrchestratorSpec => []HeldInv
  BY HeldInitially, HeldStep, PTL DEF OrchestratorSpec
<1>2. HeldInv => OrchestratorTypeOK
  BY DEF HeldInv
<1>. QED BY <1>1, <1>2, PTL
-----------------------------------------------------------------------------
(***************************************************************************)
(* The second layer.                                                       *)
(***************************************************************************)
\* Looking at a case changes neither counter of any.
LEMMA DecisionKeepsCounts ==
  ASSUME HeldInv, NEW w \in Workers, Skip(w) \/ Park(w) \/ Stop(w) \/ Act(w)
  PROVE  /\ UNCHANGED <<row, lock, undone>> /\ pc[w] = "loaded"
         /\ \A c \in Cases :
              /\ work'[c].attempts = work[c].attempts
              /\ work'[c].failures = work[c].failures
              /\ \/ work'[c].status = work[c].status
                 \/ work'[c].status \in {"stopped", "in_progress"}
<1>. USE DEF HeldInv, OrchestratorTypeOK, RowsOK, CaseRow, Returns
<1>0. pc[w] = "loaded" /\ cur[w] \in Cases
  BY DEF WorkersOK, Skip, Park, Stop, Act
<1>1. CASE Skip(w)
  BY <1>0, <1>1 DEF Skip
<1>2. CASE Park(w)
  BY <1>0, <1>2 DEF Park
<1>3. CASE Stop(w)
  BY <1>0, <1>3 DEF Stop
<1>4. CASE Act(w)
  BY <1>0, <1>4 DEF Act
<1>. QED BY <1>1, <1>2, <1>3, <1>4

\* What a try adds to the counters.
LEMMA TriedCounts ==
  ASSUME HeldInv, NEW w \in Workers, Delivered(w) \/ NotDelivered(w)
  PROVE  /\ UNCHANGED <<row, lock, tried, tries, undone>>
         /\ pc[w] = "acting" /\ cur[w] \in Cases /\ Trying(w)
         /\ work'[cur[w]].status = work[cur[w]].status
         /\ \/ /\ work'[cur[w]].attempts = work[cur[w]].attempts + 1
               /\ work'[cur[w]].failures = 0
            \/ /\ work'[cur[w]].attempts = work[cur[w]].attempts
               /\ work'[cur[w]].failures = work[cur[w]].failures + 1
         /\ \A c \in Cases \ {cur[w]} : work'[c] = work[c]
<1>. USE DEF HeldInv, OrchestratorTypeOK, RowsOK, CaseRow, historyVars
<1>0. pc[w] = "acting" /\ cur[w] \in Cases /\ Trying(w)
  BY DEF WorkersOK, Held, TryEnds, Delivered, NotDelivered
<1>1. CASE Delivered(w)
  BY <1>0, <1>1 DEF Delivered, TryEnds
<1>2. CASE NotDelivered(w)
  BY <1>0, <1>2 DEF NotDelivered, TryEnds, CountFailure
<1>. QED BY <1>0, <1>1, <1>2

LEMMA StandingInitially == OrchestratorInit => Standing
BY BoundsType DEF OrchestratorInit, Standing

LEMMA StandingStep ==
  ASSUME HeldInv, Standing, [OrchestratorNext]_vars PROVE Standing'
<1>. USE OrchestratorAssumption
<1>0. RowsOK
  BY DEF HeldInv, OrchestratorTypeOK
<1>1. ASSUME NEW w \in Workers, Claim(w) PROVE Standing'
  <2>1. \A c \in TopOf(Claimable) : row[c].status \in Live
    BY DEF TopOf, Claimable
  <2>. QED BY <1>0, <1>1, <2>1 DEF Standing, Claim, RowsOK
<1>2. ASSUME NEW w \in Workers, Flush(w) \/ Load(w) \/ Publish(w) PROVE Standing'
  BY <1>2 DEF Standing, Flush, Load, Publish, tableVars
<1>3. ASSUME NEW w \in Workers, Skip(w) \/ Park(w) \/ Stop(w) \/ Act(w) PROVE Standing'
  BY <1>3, DecisionKeepsCounts DEF Standing, Blank
<1>4. ASSUME NEW w \in Workers, Delivered(w) \/ NotDelivered(w) PROVE Standing'
  BY <1>4, TriedCounts DEF Standing, Blank, Trying
<1>5. ASSUME NEW w \in Workers, Commit(w) \/ Abort(w) PROVE Standing'
  BY <1>0, <1>5 DEF Standing, Commit, Abort, EndSession, RowsOK
<1>6. ASSUME NEW c \in Cases, CaseStep(c) PROVE Standing'
  <2>1. CASE HangUp(c)
    BY <2>1 DEF Standing, HangUp, tableVars
  <2>2. ASSUME NEW new, Onward(row[c], new), Writes(c, new) PROVE Standing'
    BY <1>0, <2>2 DEF Standing, Writes, Unlocked, Onward, Blank, RowsOK
  <2>. QED BY <1>6, <2>1, <2>2, CaseStepOnward
<1>7. CASE TimePasses
  BY <1>0, <1>7, AgedType DEF Standing, TimePasses, Blank, RowsOK
<1>8. CASE UNCHANGED vars
  BY <1>8 DEF Standing, vars, tableVars
<1>. QED BY <1>1, <1>2, <1>3, <1>4, <1>5, <1>6, <1>7, <1>8
     DEF OrchestratorNext, WorkerStep

LEMMA HeldAndStanding == OrchestratorSpec => [](HeldInv /\ Standing)
<1>1. OrchestratorInit => HeldInv /\ Standing
  BY HeldInitially, StandingInitially
<1>2. HeldInv /\ Standing /\ [OrchestratorNext]_vars => (HeldInv /\ Standing)'
  BY HeldStep, StandingStep
<1>. QED BY <1>1, <1>2, PTL DEF OrchestratorSpec

\* orchestrator.py:79-90: the row a worker acts on was open when it was locked,
\* and the lock keeps whatever would close it waiting.
THEOREM NobodyChased == OrchestratorSpec => []NobodyIsChasedForAClosedCase
<1>1. HeldInv /\ Standing => NobodyIsChasedForAClosedCase
  BY OrchestratorAssumption
     DEF HeldInv, Held, InHand, Standing, NobodyIsChasedForAClosedCase
<1>. QED BY <1>1, HeldAndStanding, PTL

\* No step commits an open status over a closed one: a batch only writes rows
\* it locked, and those were open; payments, calls and webhooks move onward.
LEMMA ClosedStep ==
  ASSUME HeldInv, Standing, [OrchestratorNext]_vars,
         NEW c \in Cases, row[c].status \in CLOSED_STATUSES
  PROVE  row'[c].status \in CLOSED_STATUSES
<1>. USE OrchestratorAssumption
<1>0. RowsOK
  BY DEF HeldInv, OrchestratorTypeOK
<1>1. ASSUME NEW w \in Workers, WorkerStep(w) \/ Abort(w), ~Commit(w)
      PROVE  row' = row
  BY <1>1 DEF WorkerStep, Claim, Flush, Load, Skip, Park, Stop, Act, Returns,
              TryEnds, Delivered, NotDelivered, Publish, Abort, tableVars
<1>2. ASSUME NEW w \in Workers, Commit(w)
      PROVE  row'[c].status \in CLOSED_STATUSES
  <2>1. lock[c] # w
    BY DEF Standing, Live, CLOSED_STATUSES
  <2>. QED BY <1>2, <2>1 DEF Commit
<1>3. ASSUME NEW d \in Cases, CaseStep(d)
      PROVE  row'[c].status \in CLOSED_STATUSES
  <2>1. CASE HangUp(d)
    BY <2>1 DEF HangUp, tableVars
  <2>2. ASSUME NEW new, Onward(row[d], new), Writes(d, new)
        PROVE  row'[c].status \in CLOSED_STATUSES
    BY <1>0, <2>2 DEF Writes, Onward, RowsOK
  <2>. QED BY <1>3, <2>1, <2>2, CaseStepOnward
<1>4. CASE TimePasses
  BY <1>0, <1>4, AgedType DEF TimePasses, RowsOK
<1>5. CASE UNCHANGED vars
  BY <1>5 DEF vars, tableVars
<1>. QED BY <1>1, <1>2, <1>3, <1>4, <1>5 DEF OrchestratorNext

\* "STOP is permanent", store.py's mark_recovered and outcomes.py alike: what
\* is closed in the table stays closed.
THEOREM ClosedForGood == OrchestratorSpec => ClosedStaysClosed
<1>1. HeldInv /\ Standing /\ [OrchestratorNext]_vars
        => [\A c \in Cases : row[c].status \in CLOSED_STATUSES =>
                            row'[c].status \in CLOSED_STATUSES]_row
  BY ClosedStep
<1>. QED BY <1>1, HeldAndStanding, PTL DEF OrchestratorSpec, ClosedStaysClosed
-----------------------------------------------------------------------------
(***************************************************************************)
(* The third layer.                                                        *)
(***************************************************************************)
\* Within the limits, attempts weigh more than any run of failures.
LEMMA BudgetArithmetic ==
  ASSUME NEW a \in Nat, NEW m \in Nat, NEW f \in Nat, a < m
  PROVE  /\ a * f \in Nat /\ m * f \in Nat
         /\ (a + 1) * f = a * f + f /\ a * f + f <= m * f
<1>1. a * f \in Nat /\ m * f \in Nat /\ (a + 1) * f = a * f + f
  OBVIOUS
<1>2. PICK d \in Nat : m = a + 1 + d
  <2>1. m - a - 1 \in Nat /\ m = a + 1 + (m - a - 1)
    OBVIOUS
  <2>. QED BY <2>1
<1>3. m * f = a * f + f + d * f /\ d * f \in Nat
  BY <1>2
<1>. QED BY <1>1, <1>3

LEMMA SpentType ==
  ASSUME NEW r \in CaseRow
  PROVE  Spent(r) \in Nat /\ Spent(r) <= MaxAttempts * MaxDeliveryFailures
<1>1. r.attempts \in 0..MaxAttempts /\ r.failures \in 0..MaxDeliveryFailures
  BY DEF CaseRow
<1>2. MaxAttempts \in Nat /\ MaxDeliveryFailures \in Nat
  BY PolicyAssumption
<1>3. CASE r.attempts = MaxAttempts
  <2>1. MaxAttempts * MaxDeliveryFailures \in Nat
    BY <1>2
  <2>. QED BY <1>3, <2>1 DEF Spent
<1>4. CASE r.attempts < MaxAttempts
  <2>. DEFINE af == r.attempts * MaxDeliveryFailures
              mf == MaxAttempts * MaxDeliveryFailures
  <2>1. af \in Nat /\ mf \in Nat /\ af + MaxDeliveryFailures <= mf
    BY <1>1, <1>2, <1>4, BudgetArithmetic
  <2>2. Spent(r) = af + r.failures
    BY <1>1, <1>2, <1>4 DEF Spent
  <2>. HIDE DEF af, mf
  <2>3. Spent(r) \in Nat /\ Spent(r) <= mf
    BY <1>1, <1>2, <2>1, <2>2
  <2>. QED BY <2>3 DEF mf
<1>. QED BY <1>1, <1>2, <1>3, <1>4

\* Every try is paid for: a success moves the first counter, a failure the second.
LEMMA SpentGrows ==
  ASSUME NEW r \in CaseRow, NEW s \in CaseRow,
         r.attempts < MaxAttempts, r.failures < MaxDeliveryFailures,
         \/ s.attempts = r.attempts + 1 /\ s.failures = 0
         \/ s.attempts = r.attempts /\ s.failures = r.failures + 1
  PROVE  Spent(s) >= Spent(r) + 1
<1>1. r.attempts \in Nat /\ r.failures \in Nat
  BY DEF CaseRow
<1>2. MaxAttempts \in Nat /\ MaxDeliveryFailures \in Nat
  BY PolicyAssumption
<1>. DEFINE af == r.attempts * MaxDeliveryFailures
            mf == MaxAttempts * MaxDeliveryFailures
            nf == (r.attempts + 1) * MaxDeliveryFailures
<1>3. af \in Nat /\ mf \in Nat /\ af + MaxDeliveryFailures <= mf
      /\ nf = af + MaxDeliveryFailures
  BY <1>1, <1>2, BudgetArithmetic
<1>4. Spent(r) = af + r.failures
  BY <1>1, <1>2 DEF Spent
<1>5. Spent(s) \in {mf, nf} \/ Spent(s) = af + r.failures + 1
  <2>1. CASE s.attempts = MaxAttempts
    BY <2>1 DEF Spent
  <2>2. CASE s.attempts # MaxAttempts /\ s.attempts = r.attempts + 1 /\ s.failures = 0
    <3>1. Spent(s) = nf + 0
      BY <2>2 DEF Spent
    <3>2. nf \in Nat
      BY <1>2, <1>3
    <3>. HIDE DEF nf
    <3>. QED BY <3>1, <3>2
  <2>3. CASE s.attempts # MaxAttempts /\ s.attempts = r.attempts /\ s.failures = r.failures + 1
    <3>1. Spent(s) = af + (r.failures + 1)
      BY <2>3 DEF Spent
    <3>. HIDE DEF af
    <3>. QED BY <1>1, <1>3, <3>1
  <2>. QED BY <2>1, <2>2, <2>3
<1>. HIDE DEF af, mf, nf
<1>. QED BY <1>1, <1>2, <1>3, <1>4, <1>5

\* Nothing else a row goes through gives a budget back.
LEMMA SpentStays ==
  ASSUME NEW r \in CaseRow, NEW s \in CaseRow,
         s.attempts \in {r.attempts, MaxAttempts}, s.failures = r.failures
  PROVE  Spent(s) >= Spent(r)
<1>1. CASE s.attempts = r.attempts
  BY <1>1, SpentType DEF Spent
<1>2. CASE s.attempts = MaxAttempts
  BY <1>2, SpentType, PolicyAssumption DEF Spent
<1>. QED BY <1>1, <1>2

LEMMA CountedInitially == OrchestratorInit => Counted
<1>. SUFFICES ASSUME OrchestratorInit, NEW c \in Cases
             PROVE  /\ tries[c] = 0 /\ undone[c] = 0 /\ Spent(row[c]) \in Nat
                    /\ Spent(work[c]) \in Nat
  BY DEF Counted, RowCounted, WorkCounted
<1>. QED BY BoundsType, SpentType DEF OrchestratorInit

LEMMA CountTypes ==
  ASSUME HeldInv, NEW c \in Cases
  PROVE  /\ tries[c] \in Nat /\ undone[c] \in Nat
         /\ Spent(row[c]) \in Nat /\ Spent(work[c]) \in Nat
         /\ row[c] \in CaseRow /\ work[c] \in CaseRow
BY SpentType DEF HeldInv, OrchestratorTypeOK, RowsOK, ShapeOK

LEMMA CountTypesNext ==
  ASSUME HeldInv', NEW c \in Cases
  PROVE  /\ tries'[c] \in Nat /\ undone'[c] \in Nat
         /\ Spent(row[c])' \in Nat /\ Spent(work[c])' \in Nat
         /\ row'[c] \in CaseRow /\ work'[c] \in CaseRow
<1>1. /\ tries'[c] \in Nat /\ undone'[c] \in Nat
      /\ row'[c] \in CaseRow /\ work'[c] \in CaseRow
  BY DEF HeldInv, OrchestratorTypeOK, RowsOK, ShapeOK
<1>2. Spent(row'[c]) \in Nat /\ Spent(work'[c]) \in Nat
  BY <1>1, SpentType
<1>3. Spent(row[c])' = Spent(row'[c]) /\ Spent(work[c])' = Spent(work'[c])
  BY DEF Spent
<1>. QED BY <1>1, <1>2, <1>3

\* A case nobody tries, and whose counts do not fall, stays counted.
LEMMA CountedFrame ==
  ASSUME HeldInv, HeldInv', NEW c \in Cases, RowCounted(c), WorkCounted(c),
         tries'[c] = tries[c], undone'[c] = undone[c],
         Spent(row[c])' >= Spent(row[c]), Spent(work[c])' >= Spent(work[c]),
         TriedNow(c) => TriedNow(c)', ActedOn(c) => ActedOn(c)'
  PROVE  RowCounted(c)' /\ WorkCounted(c)'
<1>1. /\ tries[c] \in Nat /\ undone[c] \in Nat
      /\ Spent(row[c]) \in Nat /\ Spent(work[c]) \in Nat
      /\ Spent(row[c])' \in Nat /\ Spent(work[c])' \in Nat
  BY CountTypes, CountTypesNext
<1>. QED BY <1>1 DEF RowCounted, WorkCounted

LEMMA CountedWorkerStep ==
  ASSUME HeldInv, HeldInv', NEW w \in Workers, NEW c \in Cases,
         RowCounted(c), WorkCounted(c), WorkerStep(w) \/ Abort(w)
  PROVE  RowCounted(c)' /\ WorkCounted(c)'
<1>. USE OrchestratorAssumption
<1>0. /\ RowsOK /\ WorkersOK /\ ShapeOK /\ \A v \in Workers : Held(v)
      /\ RowsOK' /\ WorkersOK' /\ ShapeOK' /\ \A v \in Workers : Held(v)'
  BY DEF HeldInv, OrchestratorTypeOK
<1>1. /\ tries[c] \in Nat /\ undone[c] \in Nat
      /\ Spent(row[c]) \in Nat /\ Spent(work[c]) \in Nat
      /\ row[c] \in CaseRow /\ work[c] \in CaseRow
  BY CountTypes
<1>2. /\ tries'[c] \in Nat /\ undone'[c] \in Nat
      /\ Spent(row[c])' \in Nat /\ Spent(work[c])' \in Nat
      /\ row'[c] \in CaseRow /\ work'[c] \in CaseRow
  BY CountTypesNext
<1>3. CASE Claim(w)
  <2>1. CASE c \in TopOf(Claimable)
    <3>1. lock[c] = NoOne /\ ~TriedNow(c) /\ ~ActedOn(c) /\ work[c] = row[c]
      BY <1>0, <2>1 DEF TopOf, Claimable, Unlocked, TriedNow, ActedOn, RowsOK
    <3>2. work'[c] = row[c] /\ row'[c] = row[c]
      BY <1>0, <1>3, <2>1 DEF Claim, RowsOK
    <3>3. tries' = tries /\ undone' = undone
      BY <1>3 DEF Claim, historyVars
    <3>. QED BY <1>1, <3>1, <3>2, <3>3, CountedFrame DEF Spent
  <2>2. CASE c \notin TopOf(Claimable)
    <3>1. lock'[c] = lock[c] /\ work'[c] = work[c] /\ row' = row
      BY <1>0, <1>3, <2>2 DEF Claim, RowsOK
    <3>2. tries' = tries /\ undone' = undone /\ tried' = tried /\ cur' = cur
          /\ pc' = [pc EXCEPT ![w] = "next"] /\ pc[w] = "idle"
      BY <1>3 DEF Claim, historyVars
    <3>3. (TriedNow(c) => TriedNow(c)') /\ (ActedOn(c) => ActedOn(c)')
      BY <1>0, <3>1, <3>2 DEF TriedNow, ActedOn, WorkersOK
    <3>. QED BY <1>1, <3>1, <3>2, <3>3, CountedFrame DEF Spent
  <2>. QED BY <2>1, <2>2
<1>4. CASE Flush(w) \/ Load(w) \/ Publish(w)
  <2>1. UNCHANGED <<row, work, lock, tried, tries, undone>>
    BY <1>4 DEF Flush, Load, Publish, tableVars, historyVars
  <2>2. ActedOn(c) => ActedOn(c)'
    BY <1>0, <1>4 DEF Flush, Load, Publish, tableVars, ActedOn, WorkersOK
  <2>. QED BY <1>1, <2>1, <2>2, CountedFrame DEF Spent, TriedNow
<1>5. CASE Skip(w) \/ Park(w) \/ Stop(w)
  <2>1. /\ UNCHANGED <<row, lock, undone>> /\ pc[w] = "loaded"
        /\ work'[c].attempts = work[c].attempts
        /\ work'[c].failures = work[c].failures
    BY <1>5, DecisionKeepsCounts
  <2>2. UNCHANGED <<tried, tries>>
    BY <1>5 DEF Skip, Park, Stop
  <2>3. /\ \A v \in Workers \ {w} : pc'[v] = pc[v] /\ cur'[v] = cur[v]
    BY <1>0, <1>5 DEF Skip, Park, Stop, Returns, WorkersOK
  <2>4. ActedOn(c) => ActedOn(c)'
    BY <2>1, <2>3 DEF ActedOn
  <2>. QED BY <1>1, <1>2, <2>1, <2>2, <2>4, CountedFrame, SpentStays DEF Spent, TriedNow
<1>6. CASE Act(w)
  <2>1. /\ UNCHANGED <<row, lock, undone>> /\ pc[w] = "loaded"
        /\ work'[c].attempts = work[c].attempts
        /\ work'[c].failures = work[c].failures
    BY <1>6, DecisionKeepsCounts
  <2>2. /\ tried' = [tried EXCEPT ![w] = @ \cup {cur[w]}] /\ cur' = cur
        /\ tries' = [tries EXCEPT ![cur[w]] = @ + 1]
        /\ pc' = [pc EXCEPT ![w] = "acting"]
    BY <1>6 DEF Act, Returns
  <2>3. Spent(work[c])' = Spent(work[c]) /\ Spent(row[c])' = Spent(row[c])
    BY <2>1 DEF Spent
  <2>4. CASE c = cur[w]
    <3>1. lock[c] = w /\ c \notin tried[w]
      BY <1>0, <2>1, <2>4 DEF Held, InHand
    <3>2. ~TriedNow(c) /\ ~ActedOn(c)
      BY <2>1, <3>1 DEF TriedNow, ActedOn
    <3>3. TriedNow(c)' /\ ActedOn(c)'
      BY <1>0, <2>1, <2>2, <2>4, <3>1 DEF TriedNow, ActedOn, WorkersOK, ShapeOK
    <3>4. tries'[c] = tries[c] + 1
      BY <1>0, <2>2, <2>4 DEF ShapeOK
    <3>. QED BY <1>1, <2>1, <2>3, <3>2, <3>3, <3>4 DEF RowCounted, WorkCounted
  <2>5. CASE c # cur[w]
    <3>1. tries'[c] = tries[c]
      BY <1>0, <2>2, <2>5 DEF ShapeOK
    <3>2. (TriedNow(c) => TriedNow(c)') /\ (ActedOn(c) => ActedOn(c)')
      BY <1>0, <2>1, <2>2, <2>5 DEF TriedNow, ActedOn, WorkersOK, ShapeOK
    <3>. QED BY <1>1, <2>1, <2>3, <3>1, <3>2, CountedFrame
  <2>. QED BY <2>4, <2>5
<1>7. CASE Delivered(w) \/ NotDelivered(w)
  <2>1. UNCHANGED <<row, lock, tried, tries, undone>> /\ pc[w] = "acting"
    BY <1>7, TriedCounts
  <2>2. CASE c = cur[w]
    <3>1. Spent(work[c])' >= Spent(work[c]) + 1
      BY <1>1, <1>2, <1>7, <2>2, TriedCounts, SpentGrows DEF Trying
    <3>. QED BY <1>1, <1>2, <2>1, <3>1 DEF RowCounted, WorkCounted, Spent, TriedNow
  <2>3. CASE c # cur[w]
    <3>1. work'[c] = work[c]
      BY <1>7, <2>3, TriedCounts
    <3>2. \A v \in Workers \ {w} : pc'[v] = pc[v] /\ cur'[v] = cur[v]
      BY <1>0, <1>7 DEF TryEnds, Delivered, NotDelivered, WorkersOK
    <3>3. ActedOn(c) => ActedOn(c)'
      BY <2>1, <2>3, <3>2 DEF ActedOn
    <3>. QED BY <1>1, <2>1, <3>1, <3>3, CountedFrame DEF Spent, TriedNow
  <2>. QED BY <2>2, <2>3
<1>8. CASE Commit(w)
  <2>1. /\ UNCHANGED <<work, tries, undone>> /\ pc[w] = "next"
        /\ row'[c] = IF lock[c] = w THEN work[c] ELSE row[c]
        /\ lock'[c] = IF lock[c] = w THEN NoOne ELSE lock[c]
        /\ \A v \in Workers \ {w} :
             tried'[v] = tried[v] /\ pc'[v] = pc[v] /\ cur'[v] = cur[v]
    BY <1>0, <1>8 DEF Commit, EndSession, WorkersOK, ShapeOK
  <2>2. CASE lock[c] = w
    <3>1. ~ActedOn(c) /\ ~TriedNow(c)' /\ ~ActedOn(c)'
      BY <2>1, <2>2 DEF ActedOn, TriedNow
    <3>. QED BY <1>1, <1>2, <2>1, <2>2, <3>1 DEF RowCounted, WorkCounted, Spent
  <2>3. CASE lock[c] # w
    <3>1. (TriedNow(c) => TriedNow(c)') /\ (ActedOn(c) => ActedOn(c)')
      BY <2>1, <2>3 DEF ActedOn, TriedNow
    <3>. QED BY <1>1, <2>1, <2>3, <3>1, CountedFrame DEF Spent
  <2>. QED BY <2>2, <2>3
<1>9. CASE Abort(w)
  <2>1. /\ UNCHANGED <<row, tries>>
        /\ work'[c] = IF lock[c] = w THEN row[c] ELSE work[c]
        /\ undone'[c] = IF c \in tried[w] THEN undone[c] + 1 ELSE undone[c]
        /\ lock'[c] = IF lock[c] = w THEN NoOne ELSE lock[c]
        /\ \A v \in Workers \ {w} :
             tried'[v] = tried[v] /\ pc'[v] = pc[v] /\ cur'[v] = cur[v]
    BY <1>0, <1>9 DEF Abort, EndSession, WorkersOK, ShapeOK
  <2>2. CASE lock[c] = w
    <3>1. ~TriedNow(c)' /\ ~ActedOn(c)' /\ (TriedNow(c) <=> c \in tried[w])
      BY <2>1, <2>2 DEF ActedOn, TriedNow
    <3>. QED BY <1>1, <1>2, <2>1, <2>2, <3>1 DEF RowCounted, WorkCounted, Spent
  <2>3. CASE lock[c] # w
    <3>1. (TriedNow(c) => TriedNow(c)') /\ (ActedOn(c) => ActedOn(c)')
      BY <2>1, <2>3 DEF ActedOn, TriedNow
    <3>2. c \notin tried[w]
      BY <1>0, <2>3 DEF Held
    <3>. QED BY <1>1, <2>1, <2>3, <3>1, <3>2, CountedFrame DEF Spent
  <2>. QED BY <2>2, <2>3
<1>. QED BY <1>3, <1>4, <1>5, <1>6, <1>7, <1>8, <1>9 DEF WorkerStep

LEMMA CountedCaseStep ==
  ASSUME HeldInv, HeldInv', Standing, NEW d \in Cases, NEW c \in Cases,
         RowCounted(c), WorkCounted(c), CaseStep(d)
  PROVE  RowCounted(c)' /\ WorkCounted(c)'
<1>. USE OrchestratorAssumption
<1>0. RowsOK /\ row[c] \in CaseRow /\ work[c] \in CaseRow
      /\ row'[c] \in CaseRow /\ work'[c] \in CaseRow
      /\ Spent(row[c]) \in Nat /\ Spent(work[c]) \in Nat
  BY CountTypes, CountTypesNext DEF HeldInv, OrchestratorTypeOK
<1>1. CASE HangUp(d)
  <2>1. UNCHANGED <<row, work, lock, pc, cur, tried, tries, undone>>
    BY <1>1 DEF HangUp, tableVars, workerVars, historyVars
  <2>. QED BY <1>0, <2>1, CountedFrame DEF Spent, TriedNow, ActedOn
<1>2. ASSUME NEW new, Onward(row[d], new), Writes(d, new)
      PROVE  RowCounted(c)' /\ WorkCounted(c)'
  <2>1. UNCHANGED <<lock, pc, cur, tried, tries, undone>> /\ lock[d] = NoOne
    BY <1>2 DEF Writes, Unlocked, workerVars, historyVars
  <2>2. row' = [row EXCEPT ![d] = new] /\ work' = [work EXCEPT ![d] = new]
    BY <1>2 DEF Writes, Unlocked
  <2>3. CASE c = d
    <3>1. work[c] = row[c] /\ row'[c] = new /\ work'[c] = new
      BY <1>0, <2>1, <2>2, <2>3 DEF RowsOK
    <3>2. new.attempts \in {row[c].attempts, MaxAttempts} /\ new.failures = row[c].failures
      BY <1>2, <2>3 DEF Onward, Standing
    <3>3. Spent(new) >= Spent(row[c])
      BY <1>0, <3>1, <3>2, SpentStays
    <3>. QED BY <2>1, <3>1, <3>3, CountedFrame DEF Spent, TriedNow, ActedOn
  <2>4. CASE c # d
    <3>1. row'[c] = row[c] /\ work'[c] = work[c]
      BY <1>0, <2>2, <2>4 DEF RowsOK
    <3>. QED BY <1>0, <2>1, <3>1, CountedFrame DEF Spent, TriedNow, ActedOn
  <2>. QED BY <2>3, <2>4
<1>. QED BY <1>1, <1>2, CaseStepOnward

LEMMA CountedStep ==
  ASSUME HeldInv, HeldInv', Standing, Counted, [OrchestratorNext]_vars
  PROVE  Counted'
<1>. SUFFICES ASSUME NEW c \in Cases PROVE RowCounted(c)' /\ WorkCounted(c)'
  BY DEF Counted
<1>0. /\ RowCounted(c) /\ WorkCounted(c)
      /\ row[c] \in CaseRow /\ work[c] \in CaseRow
      /\ Spent(row[c]) \in Nat /\ Spent(work[c]) \in Nat
  BY CountTypes DEF Counted
<1>1. ASSUME NEW w \in Workers, WorkerStep(w) \/ Abort(w)
      PROVE  RowCounted(c)' /\ WorkCounted(c)'
  BY <1>0, <1>1, CountedWorkerStep
<1>2. ASSUME NEW d \in Cases, CaseStep(d)
      PROVE  RowCounted(c)' /\ WorkCounted(c)'
  BY <1>0, <1>2, CountedCaseStep
<1>3. CASE TimePasses
  <2>1. UNCHANGED <<lock, pc, cur, tried, tries, undone>>
    BY <1>3 DEF TimePasses
  <2>2. row'[c] = Aged(row[c]) /\ work'[c] = Aged(work[c])
    BY <1>3 DEF TimePasses
  <2>3. Spent(row[c])' = Spent(row[c]) /\ Spent(work[c])' = Spent(work[c])
    BY <1>0, <2>2, AgedType DEF Spent
  <2>. QED BY <1>0, <2>1, <2>3, CountedFrame DEF TriedNow, ActedOn
<1>4. CASE UNCHANGED vars
  <2>1. UNCHANGED <<row, work, lock, pc, cur, tried, tries, undone>>
    BY <1>4 DEF vars, tableVars, workerVars, historyVars
  <2>. QED BY <1>0, <2>1, CountedFrame DEF Spent, TriedNow, ActedOn
<1>. QED BY <1>1, <1>2, <1>3, <1>4 DEF OrchestratorNext

\* A try under way is not in the counters yet, and is within both budgets.
LEMMA CountedIsBounded ==
  ASSUME HeldInv, Counted, NEW c \in Cases
  PROVE  tries[c] <= MaxAttempts * MaxDeliveryFailures + undone[c]
<1>. USE OrchestratorAssumption, PolicyAssumption
<1>. DEFINE all == MaxAttempts * MaxDeliveryFailures
<1>1. /\ tries[c] \in Nat /\ undone[c] \in Nat /\ work[c] \in CaseRow
      /\ Spent(work[c]) \in Nat /\ WorkCounted(c)
  BY CountTypes DEF Counted
<1>2. all \in Nat /\ Spent(work[c]) <= all
  BY <1>1, SpentType
<1>3. CASE ActedOn(c)
  <2>1. work[c].attempts < MaxAttempts /\ work[c].failures < MaxDeliveryFailures
    BY <1>3 DEF ActedOn, HeldInv, Held, Trying
  <2>. DEFINE af == work[c].attempts * MaxDeliveryFailures
  <2>2. work[c].attempts \in Nat /\ work[c].failures \in Nat
    BY <1>1 DEF CaseRow
  <2>3. af \in Nat /\ af + MaxDeliveryFailures <= all
    BY <2>1, <2>2, BudgetArithmetic
  <2>4. Spent(work[c]) = af + work[c].failures
    BY <2>1, <2>2 DEF Spent
  <2>. HIDE DEF af, all
  <2>5. Spent(work[c]) + 1 <= all
    BY <1>2, <2>1, <2>2, <2>3, <2>4
  <2>6. tries[c] <= Spent(work[c]) + undone[c] + 1
    BY <1>1, <1>3 DEF WorkCounted
  <2>7. tries[c] <= all + undone[c]
    BY <1>1, <1>2, <2>5, <2>6
  <2>. QED BY <2>7 DEF all
<1>4. CASE ~ActedOn(c)
  <2>. HIDE DEF all
  <2>1. tries[c] <= all + undone[c]
    BY <1>1, <1>2, <1>4 DEF WorkCounted
  <2>. QED BY <2>1 DEF all
<1>. QED BY <1>3, <1>4

\* orchestrator.py:212-245 with policy.py:129-134: whatever mix of deliveries,
\* failures, rollbacks and outside writes befalls it, a case is tried at most
\* max_attempts * max_delivery_failures times, plus the tries rolled back.
THEOREM TriesBounded == OrchestratorSpec => []TriesAreBounded
<1>1. OrchestratorInit => HeldInv /\ Standing /\ Counted
  BY HeldInitially, StandingInitially, CountedInitially
<1>2. HeldInv /\ Standing /\ Counted /\ [OrchestratorNext]_vars
        => (HeldInv /\ Standing /\ Counted)'
  BY HeldStep, StandingStep, CountedStep
<1>3. HeldInv /\ Counted => TriesAreBounded
  BY CountedIsBounded DEF TriesAreBounded
<1>. QED BY <1>1, <1>2, <1>3, PTL DEF OrchestratorSpec
-----------------------------------------------------------------------------
(***************************************************************************)
(* The fourth layer, and the refinement.  What is called or locked has     *)
(* been opened; a try under way is one of this tick; the record of a try   *)
(* is lost once at most.                                                   *)
(***************************************************************************)
Opened ==
  /\ \A c \in onCall : row[c].status # "absent"
  /\ \A c \in Cases : lock[c] # NoOne => work[c].status # "absent"

OfThisTick == \A w \in Workers : pc[w] = "acting" => cur[w] \in tried[w]

LostOnce == \A c \in Cases : undone[c] + (IF TriedNow(c) THEN 1 ELSE 0) <= tries[c]

OnFile == Opened /\ OfThisTick /\ LostOnce

LEMMA OnFileInitially == OrchestratorInit => OnFile
BY OrchestratorAssumption
   DEF OrchestratorInit, OnFile, Opened, OfThisTick, LostOnce, TriedNow

LEMMA OpenedStep ==
  ASSUME HeldInv, Standing, Opened, [OrchestratorNext]_vars PROVE Opened'
<1>. USE OrchestratorAssumption
<1>0. RowsOK /\ PeopleOK /\ WorkersOK
  BY DEF HeldInv, OrchestratorTypeOK
<1>1. ASSUME NEW w \in Workers, Claim(w) PROVE Opened'
  <2>1. \A c \in TopOf(Claimable) : row[c].status \in Live
    BY DEF TopOf, Claimable
  <2>. QED BY <1>0, <1>1, <2>1 DEF Opened, Claim, RowsOK, Live
<1>2. ASSUME NEW w \in Workers, Flush(w) \/ Load(w) \/ Publish(w) PROVE Opened'
  BY <1>2 DEF Opened, Flush, Load, Publish, tableVars
<1>3. ASSUME NEW w \in Workers, Skip(w) \/ Park(w) \/ Stop(w) \/ Act(w) PROVE Opened'
  <2>1. onCall' = onCall
    BY <1>3 DEF Skip, Park, Stop, Act, Returns
  <2>. QED BY <1>3, <2>1, DecisionKeepsCounts DEF Opened
<1>4. ASSUME NEW w \in Workers, Delivered(w) \/ NotDelivered(w) PROVE Opened'
  <2>1. onCall' \subseteq onCall \cup {cur[w]}
    BY <1>4 DEF TryEnds, Reaches, Delivered, NotDelivered
  <2>2. lock[cur[w]] = w
    BY <1>4 DEF TryEnds, Delivered, NotDelivered, HeldInv, Held, InHand
  <2>3. row[cur[w]].status # "absent"
    BY <1>4, <2>2, TriedCounts DEF Standing, Live
  <2>. QED BY <1>4, <2>1, <2>3, TriedCounts DEF Opened
<1>5. ASSUME NEW w \in Workers, Commit(w) \/ Abort(w) PROVE Opened'
  <2>1. CASE Commit(w)
    BY <1>0, <2>1 DEF Opened, Commit, EndSession, RowsOK, PeopleOK
  <2>2. CASE Abort(w)
    BY <1>0, <2>2 DEF Opened, Abort, EndSession, RowsOK, PeopleOK
  <2>. QED BY <1>5, <2>1, <2>2
<1>6. ASSUME NEW c \in Cases, CaseStep(c) PROVE Opened'
  <2>1. onCall' \subseteq onCall
    BY <1>6 DEF CaseStep, OpenCase, Pay, Halt, Refuse, HangUp
  <2>2. CASE HangUp(c)
    BY <2>1, <2>2 DEF Opened, HangUp, tableVars
  <2>3. ASSUME NEW new, Onward(row[c], new), Writes(c, new) PROVE Opened'
    BY <1>0, <2>1, <2>3 DEF Opened, Writes, Unlocked, Onward, RowsOK, PeopleOK
  <2>. QED BY <1>6, <2>2, <2>3, CaseStepOnward
<1>7. CASE TimePasses
  BY <1>0, <1>7, AgedType DEF Opened, TimePasses, RowsOK, PeopleOK
<1>8. CASE UNCHANGED vars
  BY <1>8 DEF Opened, vars, tableVars
<1>. QED BY <1>1, <1>2, <1>3, <1>4, <1>5, <1>6, <1>7, <1>8
     DEF OrchestratorNext, WorkerStep

LEMMA OfThisTickStep ==
  ASSUME HeldInv, OfThisTick, [OrchestratorNext]_vars PROVE OfThisTick'
<1>0. WorkersOK /\ ShapeOK
  BY DEF HeldInv, OrchestratorTypeOK
<1>1. ASSUME NEW w \in Workers, WorkerStep(w) \/ Abort(w), ~Act(w) PROVE OfThisTick'
  <2>1. pc'[w] # "acting"
    BY <1>0, <1>1
       DEF WorkerStep, Claim, Flush, Load, Skip, Park, Stop, Returns, Delivered,
           NotDelivered, TryEnds, Commit, Publish, Abort, WorkersOK
  <2>2. \A v \in Workers \ {w} :
          pc'[v] = pc[v] /\ cur'[v] = cur[v] /\ tried'[v] = tried[v]
    BY <1>0, <1>1
       DEF WorkerStep, Claim, Flush, Load, Skip, Park, Stop, Returns, Delivered,
           NotDelivered, TryEnds, Commit, Publish, Abort, EndSession, historyVars, WorkersOK, ShapeOK
  <2>. QED BY <2>1, <2>2 DEF OfThisTick
<1>2. ASSUME NEW w \in Workers, Act(w) PROVE OfThisTick'
  BY <1>0, <1>2 DEF Act, Returns, OfThisTick, WorkersOK, ShapeOK
<1>3. CASE TimePasses \/ UNCHANGED vars
  BY <1>3 DEF TimePasses, OfThisTick, vars, workerVars, historyVars
<1>4. ASSUME NEW c \in Cases, CaseStep(c) PROVE OfThisTick'
  BY <1>4 DEF CaseStep, OpenCase, Pay, Halt, Refuse, HangUp, Writes, OfThisTick,
              workerVars, historyVars
<1>. QED BY <1>1, <1>2, <1>3, <1>4 DEF OrchestratorNext

\* A case nobody tries, and of which no record is lost, stays as it was.
LEMMA LostFrame ==
  ASSUME HeldInv, NEW c \in Cases, LostOnce, tries'[c] = tries[c], undone'[c] = undone[c],
         TriedNow(c)' => TriedNow(c)
  PROVE  (undone[c] + (IF TriedNow(c) THEN 1 ELSE 0) <= tries[c])'
BY CountTypes DEF LostOnce

LEMMA LostOnceStep ==
  ASSUME HeldInv, LostOnce, [OrchestratorNext]_vars PROVE LostOnce'
<1>. USE OrchestratorAssumption
<1>. SUFFICES ASSUME NEW c \in Cases
              PROVE  (undone[c] + (IF TriedNow(c) THEN 1 ELSE 0) <= tries[c])'
  BY DEF LostOnce
<1>. DEFINE Kept == (undone[c] + (IF TriedNow(c) THEN 1 ELSE 0) <= tries[c])'
<1>0. /\ RowsOK /\ WorkersOK /\ ShapeOK /\ \A v \in Workers : Held(v)
      /\ tries[c] \in Nat /\ undone[c] \in Nat
      /\ undone[c] + (IF TriedNow(c) THEN 1 ELSE 0) <= tries[c]
  BY CountTypes DEF HeldInv, OrchestratorTypeOK, LostOnce
<1>1. ASSUME NEW w \in Workers, Claim(w) PROVE Kept
  <2>1. UNCHANGED <<tried, tries, undone>> /\ tried[w] = {}
    BY <1>0, <1>1 DEF Claim, historyVars, Held
  <2>2. lock'[c] \in {lock[c], w}
    BY <1>0, <1>1 DEF Claim, RowsOK
  <2>. QED BY <2>1, <2>2, LostFrame DEF TriedNow
<1>2. ASSUME NEW w \in Workers,
             Flush(w) \/ Load(w) \/ Publish(w) \/ Skip(w) \/ Park(w) \/ Stop(w)
               \/ Delivered(w) \/ NotDelivered(w)
      PROVE  Kept
  <2>1. UNCHANGED <<lock, tried, tries, undone>>
    BY <1>2 DEF Flush, Load, Publish, Skip, Park, Stop, Returns, TryEnds, Delivered, NotDelivered,
                tableVars, historyVars
  <2>. QED BY <2>1, LostFrame DEF TriedNow
<1>3. ASSUME NEW w \in Workers, Act(w) PROVE Kept
  <2>1. /\ tried' = [tried EXCEPT ![w] = @ \cup {cur[w]}] /\ UNCHANGED <<lock, undone>>
        /\ tries' = [tries EXCEPT ![cur[w]] = @ + 1] /\ pc[w] = "loaded"
    BY <1>3 DEF Act, Returns
  <2>2. CASE c = cur[w]
    <3>1. lock[c] = w /\ c \notin tried[w] /\ tries'[c] = tries[c] + 1
      BY <1>0, <2>1, <2>2 DEF Held, InHand, ShapeOK
    <3>2. ~TriedNow(c)
      BY <3>1 DEF TriedNow
    <3>. QED BY <1>0, <2>1, <3>1, <3>2
  <2>3. CASE c # cur[w]
    <3>1. tries'[c] = tries[c] /\ (TriedNow(c)' => TriedNow(c))
      BY <1>0, <2>1, <2>3 DEF TriedNow, ShapeOK
    <3>. QED BY <2>1, <3>1, LostFrame
  <2>. QED BY <2>2, <2>3
<1>4. ASSUME NEW w \in Workers, Commit(w) \/ Abort(w) PROVE Kept
  <2>1. /\ lock'[c] = IF lock[c] = w THEN NoOne ELSE lock[c]
        /\ \A v \in Workers \ {w} : tried'[v] = tried[v]
        /\ tries' = tries
    BY <1>0, <1>4 DEF Commit, Abort, EndSession, ShapeOK
  <2>2. undone'[c] = undone[c] \/ (undone'[c] = undone[c] + 1 /\ c \in tried[w])
    BY <1>4 DEF Commit, Abort
  <2>3. CASE lock[c] = w
    <3>1. ~TriedNow(c)' /\ (TriedNow(c) <=> c \in tried[w])
      BY <2>1, <2>3 DEF TriedNow
    <3>. QED BY <1>0, <2>1, <2>2, <3>1
  <2>4. CASE lock[c] # w
    <3>1. c \notin tried[w] /\ (TriedNow(c)' => TriedNow(c))
      BY <1>0, <2>1, <2>4 DEF Held, TriedNow
    <3>. QED BY <2>1, <2>2, <3>1, LostFrame
  <2>. QED BY <2>3, <2>4
<1>5. CASE (\E d \in Cases : CaseStep(d)) \/ TimePasses \/ UNCHANGED vars
  <2>1. UNCHANGED <<lock, tried, tries, undone>>
    BY <1>5 DEF CaseStep, OpenCase, Pay, Halt, Refuse, HangUp, Writes, TimePasses,
                vars, tableVars, historyVars
  <2>. QED BY <2>1, LostFrame DEF TriedNow
<1>. QED BY <1>1, <1>2, <1>3, <1>4, <1>5 DEF OrchestratorNext, WorkerStep

PursuitInv == HeldInv /\ Standing /\ Counted /\ OnFile

LEMMA PursuitHolds == OrchestratorSpec => []PursuitInv
<1>1. OrchestratorInit => PursuitInv
  BY HeldInitially, StandingInitially, CountedInitially, OnFileInitially DEF PursuitInv
<1>2. PursuitInv /\ [OrchestratorNext]_vars => PursuitInv'
  BY HeldStep, StandingStep, CountedStep, OpenedStep, OfThisTickStep, LostOnceStep
     DEF PursuitInv, OnFile
<1>. QED BY <1>1, <1>2, PTL DEF OrchestratorSpec

LEMMA StandingValues ==
  ASSUME HeldInv, NEW c \in Cases
  PROVE  /\ standingBar[c] = "absent" <=> row[c].status = "absent"
         /\ standingBar[c] = "live" <=> row[c].status \in Live
         /\ standingBar[c] = "closed" <=> row[c].status \in CLOSED_STATUSES
BY DEF HeldInv, OrchestratorTypeOK, RowsOK, CaseRow, Statuses, CLOSED_STATUSES, Live,
       standingBar, StandingOf

\* Under way are the cases their locks' holders are acting on.
LEMMA UnderwayActs ==
  ASSUME HeldInv PROVE underwayBar = {c \in Cases : ActedOn(c)}
BY DEF HeldInv, Held, InHand, ActedOn, underwayBar

\* A step that moves no status, counts no try and leaves who acts acting.
LEMMA PursuitFrame ==
  ASSUME \A c \in Cases : row'[c].status = row[c].status,
         UNCHANGED <<tries, undone>>,
         \A v \in Workers : /\ pc'[v] = "acting" <=> pc[v] = "acting"
                            /\ pc[v] = "acting" => cur'[v] = cur[v]
  PROVE  UNCHANGED <<standingBar, underwayBar, tries, undone>>
<1>1. standingBar' = standingBar
  BY DEF standingBar, StandingOf
<1>2. underwayBar' = underwayBar
  BY DEF underwayBar
<1>. QED BY <1>1, <1>2

PursuitStep == Pursued!PursuitNext \/ UNCHANGED <<standingBar, underwayBar, tries, undone>>

LEMMA WorkerPursues ==
  ASSUME PursuitInv, PursuitInv', TriesAreBounded',
         NEW w \in Workers, WorkerStep(w) \/ Abort(w)
  PROVE  PursuitStep
<1>. USE OrchestratorAssumption
<1>0. /\ HeldInv /\ RowsOK /\ WorkersOK /\ ShapeOK /\ \A v \in Workers : Held(v)
      /\ Standing /\ OnFile
  BY DEF PursuitInv, HeldInv, OrchestratorTypeOK
<1>1. CASE Claim(w) \/ Flush(w) \/ Load(w) \/ Skip(w) \/ Park(w) \/ Stop(w) \/ Publish(w)
  <2>1. UNCHANGED <<row, tries, undone>>
    BY <1>1 DEF Claim, Flush, Load, Skip, Park, Stop, Publish, Returns, tableVars, historyVars
  <2>2. \A v \in Workers : /\ pc'[v] = "acting" <=> pc[v] = "acting"
                           /\ pc[v] = "acting" => cur'[v] = cur[v]
    BY <1>0, <1>1 DEF Claim, Flush, Load, Skip, Park, Stop, Publish, Returns, WorkersOK
  <2>. QED BY <2>1, <2>2, PursuitFrame DEF PursuitStep
<1>2. CASE Act(w)
  <2>. DEFINE c == cur[w]
  <2>1. /\ c \in Cases /\ lock[c] = w /\ pc[w] = "loaded"
        /\ UNCHANGED <<row, cur, undone>> /\ tries' = [tries EXCEPT ![c] = @ + 1]
        /\ pc' = [pc EXCEPT ![w] = "acting"]
    BY <1>0, <1>2 DEF Act, Returns, Held, InHand
  <2>2. standingBar[c] = "live" /\ standingBar' = standingBar
    BY <1>0, <2>1, StandingValues DEF Standing, standingBar, StandingOf
  <2>3. c \notin underwayBar
    BY <1>0, <2>1, UnderwayActs DEF ActedOn
  <2>4. underwayBar' = underwayBar \cup {c}
    BY <1>0, <2>1 DEF underwayBar, WorkersOK
  <2>5. tries[c] < MaxAttempts * MaxDeliveryFailures + undone[c]
    <3>. DEFINE all == MaxAttempts * MaxDeliveryFailures
    <3>1. all \in Nat
      BY PolicyAssumption
    <3>2. tries'[c] <= all + undone'[c]
      BY <2>1 DEF TriesAreBounded
    <3>3. tries'[c] = tries[c] + 1 /\ undone'[c] = undone[c]
      BY <1>0, <2>1 DEF ShapeOK
    <3>4. tries[c] \in Nat /\ undone[c] \in Nat
      BY <1>0, <2>1 DEF ShapeOK
    <3>. HIDE DEF all
    <3>5. tries[c] < all + undone[c]
      BY <3>1, <3>2, <3>3, <3>4
    <3>. QED BY <3>5 DEF all
  <2>6. Pursued!Tries(c)
    BY <2>1, <2>2, <2>3, <2>4, <2>5 DEF Pursued!Tries
  <2>. QED BY <2>1, <2>6 DEF PursuitStep, Pursued!PursuitNext
<1>3. CASE Delivered(w) \/ NotDelivered(w)
  <2>. DEFINE c == cur[w]
  <2>1. /\ c \in Cases /\ lock[c] = w /\ pc[w] = "acting"
        /\ UNCHANGED <<row, tries, undone>>
        /\ pc' = [pc EXCEPT ![w] = "next"] /\ cur' = [cur EXCEPT ![w] = NoOne]
    BY <1>0, <1>3 DEF TryEnds, Delivered, NotDelivered, Held, InHand, historyVars
  <2>2. standingBar' = standingBar
    BY <2>1 DEF standingBar, StandingOf
  <2>3. \A v \in Workers \ {w} : pc[v] = "acting" => cur[v] # c
    BY <1>0, <2>1 DEF Held, InHand
  <2>4. c \in underwayBar /\ underwayBar' = underwayBar \ {c}
    BY <1>0, <2>1, <2>3 DEF underwayBar, WorkersOK
  <2>5. Pursued!Answers(c)
    BY <2>1, <2>2, <2>4 DEF Pursued!Answers
  <2>. QED BY <2>1, <2>5 DEF PursuitStep, Pursued!PursuitNext
<1>4. CASE Commit(w)
  <2>. DEFINE S == {c \in Cases : lock[c] = w /\ work[c].status \notin Live}
  <2>1. /\ UNCHANGED <<tries, undone>> /\ pc[w] = "next" /\ pc'[w] # "acting"
        /\ row' = [c \in Cases |-> IF lock[c] = w THEN work[c] ELSE row[c]]
        /\ \A v \in Workers \ {w} : pc'[v] = pc[v] /\ cur'[v] = cur[v]
    BY <1>0, <1>4 DEF Commit, EndSession, WorkersOK
  <2>2. underwayBar' = underwayBar
    BY <2>1 DEF underwayBar
  <2>3. ASSUME NEW c \in S PROVE standingBar[c] = "live" /\ c \notin underwayBar
    BY <1>0, <2>1, UnderwayActs, StandingValues DEF Standing, ActedOn
  <2>4. ASSUME NEW c \in Cases
        PROVE  standingBar'[c] = IF c \in S THEN "closed" ELSE standingBar[c]
    <3>1. standingBar'[c] = StandingOf(c)' /\ standingBar[c] = StandingOf(c)
      BY DEF standingBar
    <3>2. CASE lock[c] = w
      <4>1. row'[c] = work[c] /\ work[c].status # "absent" /\ standingBar[c] = "live"
        BY <1>0, <2>1, <3>2, StandingValues DEF OnFile, Opened, Standing
      <4>. QED BY <3>1, <3>2, <4>1 DEF StandingOf, Live
    <3>3. CASE lock[c] # w
      BY <2>1, <3>1, <3>3 DEF StandingOf
    <3>. QED BY <3>2, <3>3
  <2>5. standingBar' = [c \in Cases |-> IF c \in S THEN "closed" ELSE standingBar[c]]
    BY <2>4 DEF standingBar
  <2>6. Pursued!Closes(S)
    BY <2>1, <2>2, <2>3, <2>5 DEF Pursued!Closes
  <2>. QED BY <2>6 DEF PursuitStep, Pursued!PursuitNext
<1>5. CASE Abort(w)
  <2>. DEFINE S == tried[w]
  <2>1. /\ UNCHANGED <<row, tries>> /\ pc'[w] # "acting" /\ S \subseteq Cases
        /\ undone' = [c \in Cases |-> IF c \in S THEN undone[c] + 1 ELSE undone[c]]
        /\ \A v \in Workers \ {w} : pc'[v] = pc[v] /\ cur'[v] = cur[v]
    BY <1>0, <1>5 DEF Abort, EndSession, WorkersOK, ShapeOK
  <2>2. standingBar' = standingBar
    BY <2>1 DEF standingBar, StandingOf
  <2>3. ASSUME NEW c \in S PROVE lock[c] = w
    BY <1>0 DEF Held
  <2>4. ASSUME NEW c \in S PROVE standingBar[c] = "live" /\ undone[c] < tries[c]
    <3>1. TriedNow(c) /\ c \in Cases
      BY <2>1, <2>3 DEF TriedNow
    <3>2. undone[c] + 1 <= tries[c] /\ undone[c] \in Nat /\ tries[c] \in Nat
      BY <1>0, <3>1 DEF OnFile, LostOnce, ShapeOK
    <3>. QED BY <1>0, <2>3, <3>1, <3>2, StandingValues DEF Standing
  <2>5. underwayBar' = underwayBar \ S
    <3>1. \A v \in Workers \ {w} : pc[v] = "acting" => cur[v] \notin S
      BY <1>0, <2>3 DEF Held, InHand
    <3>2. pc[w] = "acting" => cur[w] \in S
      BY <1>0 DEF OnFile, OfThisTick
    <3>. QED BY <2>1, <3>1, <3>2 DEF underwayBar
  <2>6. Pursued!Loses(S)
    BY <2>1, <2>2, <2>4, <2>5 DEF Pursued!Loses
  <2>. QED BY <2>1, <2>6 DEF PursuitStep, Pursued!PursuitNext
<1>. QED BY <1>1, <1>2, <1>3, <1>4, <1>5 DEF WorkerStep

LEMMA CasePursues ==
  ASSUME PursuitInv, NEW d \in Cases, CaseStep(d) PROVE PursuitStep
<1>. USE OrchestratorAssumption
<1>0. HeldInv /\ RowsOK /\ PeopleOK /\ OnFile
  BY DEF PursuitInv, HeldInv, OrchestratorTypeOK
<1>1. UNCHANGED <<pc, cur, tries, undone>> /\ underwayBar' = underwayBar
  BY DEF CaseStep, OpenCase, Pay, Halt, Refuse, HangUp, Writes, workerVars, historyVars,
         underwayBar
<1>2. ASSUME NEW new, Writes(d, new), new.status = row[d].status PROVE PursuitStep
  <2>1. \A c \in Cases : row'[c].status = row[c].status
    BY <1>0, <1>2 DEF Writes, RowsOK
  <2>. QED BY <1>1, <2>1, PursuitFrame DEF PursuitStep
<1>3. ASSUME NEW new, Writes(d, new), row[d].status # "absent", new.status \in CLOSED_STATUSES
      PROVE  PursuitStep
  <2>1. row' = [row EXCEPT ![d] = new] /\ d \notin underwayBar
    BY <1>0, <1>3, UnderwayActs DEF Writes, Unlocked, ActedOn
  <2>2. \A c \in Cases : StandingOf(c)' = IF c = d THEN "closed" ELSE StandingOf(c)
    BY <1>0, <1>3, <2>1 DEF StandingOf, RowsOK, CLOSED_STATUSES, Live
  <2>3. CASE row[d].status \in Live
    <3>1. standingBar' = [c \in Cases |-> IF c \in {d} THEN "closed" ELSE standingBar[c]]
      BY <2>2 DEF standingBar
    <3>2. standingBar[d] = "live"
      BY <1>0, <2>3, StandingValues
    <3>3. Pursued!Closes({d})
      BY <1>1, <2>1, <3>1, <3>2 DEF Pursued!Closes
    <3>. QED BY <3>3 DEF PursuitStep, Pursued!PursuitNext
  <2>4. CASE row[d].status \notin Live
    <3>1. StandingOf(d) = "closed"
      BY <1>3, <2>4 DEF StandingOf
    <3>2. standingBar' = standingBar
      BY <2>2, <3>1 DEF standingBar
    <3>. QED BY <1>1, <3>2 DEF PursuitStep
  <2>. QED BY <2>3, <2>4
<1>4. CASE OpenCase(d)
  <2>. DEFINE new == [NewCase EXCEPT !.status = "open",
                                     !.parked = IF d \in Subscribed THEN 0 ELSE 1]
  <2>0. row[d].status = "absent" /\ Writes(d, new)
    BY <1>4 DEF OpenCase
  <2>a. new.status = "open"
    BY DEF NewCase
  <2>. HIDE DEF new
  <2>1. StandingOf(d) = "absent"
    BY <2>0 DEF StandingOf, Live
  <2>2. row' = [row EXCEPT ![d] = row'[d]] /\ row'[d].status = "open"
    <3>1. row' = [row EXCEPT ![d] = new]
      BY <2>0 DEF Writes
    <3>2. row'[d] = new
      BY <1>0, <3>1 DEF RowsOK
    <3>. QED BY <2>a, <3>1, <3>2
  <2>3. \A c \in Cases : StandingOf(c)' = IF c = d THEN "live" ELSE StandingOf(c)
    BY <1>0, <2>2 DEF StandingOf, RowsOK, Live
  <2>4. standingBar' = [standingBar EXCEPT ![d] = "live"] /\ standingBar[d] = "absent"
    <3>1. standingBar[d] = "absent"
      BY <2>1 DEF standingBar
    <3>2. standingBar' = [standingBar EXCEPT ![d] = "live"]
      BY <2>3 DEF standingBar
    <3>. QED BY <3>1, <3>2
  <2>5. Pursued!Opens(d)
    BY <1>1, <2>4 DEF Pursued!Opens
  <2>. QED BY <2>5 DEF PursuitStep, Pursued!PursuitNext
<1>5. CASE Pay(d)
  <2>. DEFINE new == [row[d] EXCEPT !.status = "recovered"]
  <2>1. Writes(d, new) /\ row[d].status # "absent" /\ new.status \in CLOSED_STATUSES
    BY <1>0, <1>5 DEF Pay, RowsOK, CaseRow, CLOSED_STATUSES
  <2>. HIDE DEF new
  <2>. QED BY <1>3, <2>1
<1>6. CASE Halt(d)
  <2>. DEFINE new == [row[d] EXCEPT !.halted = TRUE]
  <2>1. Writes(d, new) /\ new.status = row[d].status
    BY <1>0, <1>6 DEF Halt, RowsOK, CaseRow
  <2>. HIDE DEF new
  <2>. QED BY <1>2, <2>1
<1>7. CASE Refuse(d)
  <2>1. PICK end \in {"declined", "stopped"} :
          Writes(d, [row[d] EXCEPT !.status = end, !.attempts = MaxAttempts])
    BY <1>7 DEF Refuse
  <2>. DEFINE new == [row[d] EXCEPT !.status = end, !.attempts = MaxAttempts]
  <2>2. new.status = end /\ row[d].status # "absent"
    BY <1>0, <1>7 DEF RowsOK, CaseRow, Refuse, OnFile, Opened
  <2>3. Writes(d, new)
    BY <2>1
  <2>. HIDE DEF new
  <2>. QED BY <1>3, <2>2, <2>3 DEF CLOSED_STATUSES
<1>8. CASE HangUp(d)
  BY <1>8, PursuitFrame DEF HangUp, tableVars, workerVars, historyVars, PursuitStep
<1>. QED BY <1>4, <1>5, <1>6, <1>7, <1>8 DEF CaseStep

\* orchestrator.py, outcomes.py and the handlers together do to a case what
\* Pursuit allows: live it is tried, by one worker at a time and within its
\* budgets, closed it is left alone for good, and only a tick that dies takes
\* records back, of its own tries, once.
THEOREM OrchestratorImplementsPursuit == OrchestratorSpec => ImplementsPursuit
<1>1. OrchestratorInit => Pursued!PursuitInit
  <2>. SUFFICES ASSUME OrchestratorInit PROVE Pursued!PursuitInit
    OBVIOUS
  <2>. DEFINE new == NewCase
  <2>0. \A c \in Cases : row[c] = new
    BY DEF OrchestratorInit
  <2>a. new.status = "absent"
    BY DEF NewCase
  <2>. HIDE DEF new
  <2>1. \A c \in Cases : StandingOf(c) = "absent"
    BY <2>0, <2>a DEF StandingOf, Live
  <2>2. standingBar = [c \in Cases |-> "absent"]
    BY <2>1 DEF standingBar
  <2>3. underwayBar = {}
    BY DEF OrchestratorInit, underwayBar
  <2>4. tries = [c \in Cases |-> 0] /\ undone = [c \in Cases |-> 0]
    BY DEF OrchestratorInit
  <2>. QED BY <2>2, <2>3, <2>4 DEF Pursued!PursuitInit
<1>2. PursuitInv /\ PursuitInv' /\ TriesAreBounded' /\ [OrchestratorNext]_vars
        => [Pursued!PursuitNext]_<<standingBar, underwayBar, tries, undone>>
  <2>. SUFFICES ASSUME PursuitInv, PursuitInv', TriesAreBounded', [OrchestratorNext]_vars
               PROVE  PursuitStep
    BY DEF PursuitStep
  <2>1. CASE TimePasses
    <3>1. \A c \in Cases : row'[c].status = row[c].status
      BY <2>1, AgedType DEF TimePasses, PursuitInv, HeldInv, OrchestratorTypeOK, RowsOK
    <3>. QED BY <2>1, <3>1, PursuitFrame DEF TimePasses, PursuitStep
  <2>2. CASE UNCHANGED vars
    BY <2>2, PursuitFrame DEF vars, tableVars, workerVars, historyVars, PursuitStep
  <2>. QED BY <2>1, <2>2, WorkerPursues, CasePursues DEF OrchestratorNext
<1>. QED BY <1>1, <1>2, PursuitHolds, TriesBounded, PTL
         DEF OrchestratorSpec, ImplementsPursuit, Pursued!PursuitSpec, Pursued!pursuitVars
-----------------------------------------------------------------------------
(***************************************************************************)
(* The person.  Nobody is tried by a session that read them as opted out   *)
(* or as just reached; and what a session reads is the truth, unless a     *)
(* contact is off the record or is being made by a tick that overlaps.     *)
(***************************************************************************)
Unaware(w, u) ==
  view[w][u] # NoOne /\ ~view[w][u].do_not_contact /\ view[w][u].since >= Cooldown

ActsUnaware(w) == pc[w] = "acting" => Unaware(w, CustomerOf[cur[w]])

Unread(w) == \A u \in Customers : view[w][u] = NoOne

Session(w) ==
  /\ ActsUnaware(w)
  /\ ~InTick(w) => Unread(w)
  /\ pc[w] = "idle" => touched[w] = {}
  /\ \A u \in refused[w] : /\ person[u].do_not_contact
                           /\ view[w][u] # NoOne => view[w][u].do_not_contact

OnRecord(u) ==
  \/ u \in offRecord \/ person[u].since = calm[u]
  \/ \E v \in Workers : ReachedNow(v, u)

Stamps(w, u) == ReachedNow(w, u) => calm[u] <= lag[w] /\ view[w][u] # NoOne

Overlaps(w, u) == view[w][u] # NoOne /\ Uncommitted(w, u) => u \in missed[w]

Rested(w, u) ==
  view[w][u] # NoOne /\ view[w][u].since >= Cooldown =>
    u \in offRecord \cup missed[w] \/ calm[u] - lag[w] >= Cooldown

PersonInv ==
  /\ calm \in [Customers -> 0..MaxCalm] /\ offRecord \subseteq Customers
  /\ missed \in [Workers -> SUBSET Customers] /\ refused \in [Workers -> SUBSET Customers]
  /\ \A w \in Workers : Session(w)
  /\ \A u \in Customers : OnRecord(u)
  /\ \A w \in Workers, u \in Customers : Stamps(w, u) /\ Overlaps(w, u) /\ Rested(w, u)

\* policy.py: decide() does not act on a person it sees opted out or cooling down.
LEMMA ActingIsWelcome ==
  ASSUME NEW k, NEW u, NEW h, u.known,
         Decide(k, u, h).action \in {"retry_mandate", "link", "call"}
  PROVE  ~u.do_not_contact /\ ~(u.since < Cooldown)
<1>1. StopReason(k, u) = "none" /\ WaitReason(k, u, h) = "none"
  BY DEF Decide, Decision
<1>. QED BY <1>1 DEF StopReason, OptedOut, WaitReason, CoolingDown

LEMMA ActIsUnaware ==
  ASSUME HeldInv, NEW w \in Workers, Act(w)
  PROVE  /\ CustomerOf[cur[w]] \in Customers /\ Unaware(w, CustomerOf[cur[w]])
         /\ cur' = cur /\ view' = view
<1>. DEFINE u == CustomerOf[cur[w]]
<1>1. pc[w] = "loaded" /\ Verdict(w).action \in {"retry_mandate", "link", "call"}
  BY DEF Act
<1>2. u \in Customers
  BY <1>1, VerdictType
<1>3. view[w][u] \in Columns /\ view[w][u] # NoOne
  BY <1>1, <1>2, NoOneIsNobody DEF HeldInv, Held, InHand, Columns
<1>4. /\ CustomerFacts(w).known /\ CustomerFacts(w).since = view[w][u].since
      /\ CustomerFacts(w).do_not_contact = view[w][u].do_not_contact
  BY <1>2, OrchestratorAssumption DEF CustomerFacts
<1>5. ~view[w][u].do_not_contact /\ ~(view[w][u].since < Cooldown)
  BY <1>1, <1>4, ActingIsWelcome DEF Verdict
<1>6. view[w][u].since \in Int /\ Cooldown \in Int
  BY <1>3, PolicyAssumption DEF Columns
<1>. QED BY <1>2, <1>3, <1>5, <1>6 DEF Unaware, Act, Returns

LEMMA ActsUnawareFrame ==
  ASSUME NEW v \in Workers, ActsUnaware(v),
         pc'[v] = "acting" => pc[v] = "acting" /\ cur'[v] = cur[v] /\ view'[v] = view[v]
  PROVE  ActsUnaware(v)'
BY DEF ActsUnaware, Unaware

LEMMA PersonInitially == OrchestratorInit => PersonInv
BY BoundsType
   DEF OrchestratorInit, PersonInv, Session, ActsUnaware, Unread, OnRecord, Stamps,
       Overlaps, Rested, ReachedNow, InTick

LEMMA RefusedStayRefused ==
  ASSUME PersonInv, NEW v \in Workers, NEW u \in refused[v]
  PROVE  /\ u \in Customers /\ person[u].do_not_contact
         /\ view[v][u] # NoOne => view[v][u].do_not_contact
<1>1. Session(v) /\ refused[v] \subseteq Customers
  BY DEF PersonInv
<1>2. /\ person[u].do_not_contact
      /\ view[v][u] # NoOne => view[v][u].do_not_contact
  BY <1>1 DEF Session
<1>. QED BY <1>1, <1>2

\* A step that reads nobody and reaches nobody.
LEMMA PersonFrame ==
  ASSUME PersonInv, UNCHANGED <<calm, offRecord, missed, view, lag>>,
         refused' \in [Workers -> SUBSET Customers],
         \A u \in Customers : /\ person'[u].since = person[u].since
                              /\ person[u].do_not_contact => person'[u].do_not_contact,
         \A v \in Workers : /\ InTick(v) => InTick(v)'
                            /\ pc'[v] = "idle" => touched'[v] = {}
                            /\ ActsUnaware(v)',
         \A v \in Workers, u \in Customers : ReachedNow(v, u)' <=> ReachedNow(v, u),
         \A v \in Workers : \A u \in refused'[v] :
            u \in refused[v] \/ (person'[u].do_not_contact /\ view[v][u] = NoOne)
  PROVE  PersonInv'
<1>1. ASSUME NEW v \in Workers PROVE Session(v)'
  <2>1. ASSUME NEW u \in refused'[v]
        PROVE  /\ person'[u].do_not_contact
               /\ view'[v][u] # NoOne => view'[v][u].do_not_contact
    <3>1. u \in Customers
      OBVIOUS
    <3>2. u \in refused[v] \/ (person'[u].do_not_contact /\ view[v][u] = NoOne)
      OBVIOUS
    <3>3. CASE u \in refused[v]
      <4>1. /\ person[u].do_not_contact
            /\ view[v][u] # NoOne => view[v][u].do_not_contact
        BY <3>3, RefusedStayRefused
      <4>2. person'[u].do_not_contact
        BY <3>1, <4>1
      <4>. QED BY <4>1, <4>2
    <3>4. CASE person'[u].do_not_contact /\ view[v][u] = NoOne
      BY <3>4
    <3>. QED BY <3>2, <3>3, <3>4
  <2>. QED BY <2>1 DEF PersonInv, Session, Unread
<1>2. ASSUME NEW u \in Customers PROVE OnRecord(u)'
  BY DEF PersonInv, OnRecord
<1>3. ASSUME NEW v \in Workers, NEW u \in Customers
      PROVE  Stamps(v, u)' /\ Overlaps(v, u)' /\ Rested(v, u)'
  <2>1. Uncommitted(v, u)' <=> Uncommitted(v, u)
    BY DEF Uncommitted
  <2>. QED BY <2>1 DEF PersonInv, Stamps, Overlaps, Rested
<1>. QED BY <1>1, <1>2, <1>3 DEF PersonInv

\* What a session reads of somebody is the truth, off the record and overlaps apart.
LEMMA PersonLoad ==
  ASSUME NEW w \in Workers, HeldInv, PersonInv, Load(w) PROVE PersonInv'
<1>. USE DEF HeldInv, OrchestratorTypeOK
<1>1. /\ UNCHANGED <<calm, offRecord, refused, lag, touched, person>>
      /\ pc' = [pc EXCEPT ![w] = "loaded"] /\ pc[w] = "next"
  BY DEF Load, tableVars
<1>2. PICK c \in Cases :
        /\ cur' = [cur EXCEPT ![w] = c]
        /\ view' = IF CustomerOf[c] = NoOne THEN view
                   ELSE [view EXCEPT ![w][CustomerOf[c]] = Known(w, CustomerOf[c])]
        /\ missed' = IF CustomerOf[c] \in Customers /\ Uncommitted(w, CustomerOf[c])
                       THEN [missed EXCEPT ![w] = @ \cup {CustomerOf[c]}] ELSE missed
  BY DEF Load, WorkersOK
<1>3. \A v \in Workers : InTick(v)' <=> InTick(v)
  BY <1>1 DEF InTick, WorkersOK
<1>4. \A v \in Workers, u \in Customers :
         /\ ReachedNow(v, u)' <=> ReachedNow(v, u)
         /\ Uncommitted(v, u)' <=> Uncommitted(v, u)
  BY <1>1, <1>3 DEF ReachedNow, Uncommitted
<1>5. missed' \in [Workers -> SUBSET Customers]
      /\ \A v \in Workers : missed[v] \subseteq missed'[v]
  BY <1>2 DEF PersonInv
<1>6. \A v \in Workers, u \in Customers :
         \/ view'[v][u] = view[v][u]
         \/ v = w /\ u = CustomerOf[c] /\ view'[w][u] = Known(w, u)
  <2>1. CASE CustomerOf[c] = NoOne
    <3>1. view' = view
      BY <1>2, <2>1
    <3>. QED BY <3>1
  <2>2. CASE CustomerOf[c] # NoOne
    <3>1. view' = [view EXCEPT ![w][CustomerOf[c]] = Known(w, CustomerOf[c])]
      BY <1>2, <2>2
    <3>. QED BY <3>1 DEF ShapeOK
  <2>. QED BY <2>1, <2>2
\* What a first reading finds.
<1>7. ASSUME NEW u \in Customers, view'[w][u] # view[w][u]
      PROVE  /\ view[w][u] = NoOne /\ u = CustomerOf[c]
             /\ view'[w][u].do_not_contact = person[u].do_not_contact
             /\ view'[w][u].since = person[u].since - lag[w]
             /\ Uncommitted(w, u) => u \in missed'[w]
  <2>1. view'[w][u] = Known(w, u) /\ u = CustomerOf[c]
    BY <1>6, <1>7
  <2>2. view[w][u] = NoOne /\ view'[w][u] = [person[u] EXCEPT !.since = @ - lag[w]]
    BY <1>7, <2>1 DEF Known
  <2>3. person[u] \in [do_not_contact : BOOLEAN, wrong : BOOLEAN, since : 0..MaxCalm]
    BY DEF PeopleOK
  <2>4. Uncommitted(w, u) => u \in missed'[w]
    BY <1>2, <2>1 DEF PersonInv
  <2>5. view'[w][u].since = person[u].since - lag[w]
    BY <2>2, <2>3
  <2>6. view'[w][u].do_not_contact = person[u].do_not_contact
    BY <2>2, <2>3
  <2>. QED BY <2>1, <2>2, <2>4, <2>5, <2>6
<1>8. ASSUME NEW v \in Workers PROVE Session(v)'
  <2>1. ActsUnaware(v)'
    <3>1. CASE v = w
      BY <1>1, <3>1 DEF ActsUnaware, WorkersOK
    <3>2. CASE v # w
      <4>1. pc'[v] = pc[v] /\ cur'[v] = cur[v] /\ view'[v] = view[v]
        BY <1>1, <1>2, <3>2 DEF WorkersOK, ShapeOK
      <4>. QED BY <4>1, ActsUnawareFrame DEF PersonInv, Session
    <3>. QED BY <3>1, <3>2
  <2>2. ~InTick(v)' => Unread(v)'
    <3>1. CASE v = w
      BY <1>1, <1>3, <3>1 DEF InTick
    <3>2. CASE v # w
      BY <1>3, <1>6, <3>2 DEF PersonInv, Session, Unread
    <3>. QED BY <3>1, <3>2
  <2>3. pc'[v] = "idle" => touched'[v] = {}
    BY <1>1 DEF PersonInv, Session, WorkersOK
  <2>4. ASSUME NEW u \in refused'[v]
        PROVE  /\ person'[u].do_not_contact
               /\ view'[v][u] # NoOne => view'[v][u].do_not_contact
    <3>1. u \in Customers /\ u \in refused[v]
      BY <1>1 DEF PersonInv
    <3>2. /\ person[u].do_not_contact
          /\ view[v][u] # NoOne => view[v][u].do_not_contact
      BY <3>1, RefusedStayRefused
    <3>3. CASE view'[v][u] = view[v][u]
      BY <1>1, <3>2, <3>3
    <3>4. CASE view'[v][u] # view[v][u]
      BY <1>1, <1>6, <1>7, <3>1, <3>2, <3>4
    <3>. QED BY <3>3, <3>4
  <2>. QED BY <2>1, <2>2, <2>3, <2>4 DEF Session
<1>9. ASSUME NEW u \in Customers PROVE OnRecord(u)'
  BY <1>1, <1>4 DEF PersonInv, OnRecord
<1>10. ASSUME NEW v \in Workers, NEW u \in Customers
       PROVE  Stamps(v, u)' /\ Overlaps(v, u)' /\ Rested(v, u)'
  <2>0. u \in missed[v] => u \in missed'[v]
    BY <1>5
  <2>1. CASE view'[v][u] = view[v][u]
    BY <1>1, <1>4, <2>0, <2>1 DEF PersonInv, Stamps, Overlaps, Rested
  <2>2. CASE view'[v][u] # view[v][u]
    <3>1. v = w
      BY <1>6, <2>2
    <3>2. /\ view[w][u] = NoOne /\ view'[w][u].since = person[u].since - lag[w]
          /\ Uncommitted(w, u) => u \in missed'[w]
      BY <1>7, <2>2, <3>1
    <3>3. ~ReachedNow(w, u)
      BY <3>2 DEF PersonInv, Stamps
    <3>4. u \in offRecord \/ person[u].since = calm[u] \/ Uncommitted(w, u)
      BY <3>3 DEF PersonInv, OnRecord, Uncommitted
    <3>5. Stamps(w, u)' /\ Overlaps(w, u)'
      BY <1>4, <3>2, <3>3 DEF Stamps, Overlaps
    <3>6. Rested(w, u)'
      BY <1>1, <3>2, <3>4 DEF Rested
    <3>. QED BY <3>1, <3>5, <3>6
  <2>. QED BY <2>1, <2>2
<1>. QED BY <1>1, <1>5, <1>8, <1>9, <1>10 DEF PersonInv

\* Whoever else's session knows the person is told of the contact by nobody.
LEMMA PersonDelivered ==
  ASSUME NEW w \in Workers, HeldInv, PersonInv, Delivered(w) PROVE PersonInv'
<1>. USE DEF HeldInv, OrchestratorTypeOK
<1>0. CustomerOf[cur[w]] \in Customers
  BY DEF Delivered, TryEnds, Held, Trying
<1>. SUFFICES ASSUME NEW r \in Customers, r = CustomerOf[cur[w]] PROVE PersonInv'
  BY <1>0
<1>1. /\ pc[w] = "acting" /\ pc' = [pc EXCEPT ![w] = "next"]
      /\ cur' = [cur EXCEPT ![w] = NoOne] /\ UNCHANGED <<lag, person, offRecord, refused>>
      /\ touched' = [touched EXCEPT ![w] = @ \cup {r}]
      /\ calm' = [calm EXCEPT ![r] = IF @ < lag[w] THEN @ ELSE lag[w]]
      /\ view' = [view EXCEPT ![w][r].since = 0]
      /\ missed' = [v \in Workers |-> IF v # w /\ view[v][r] # NoOne
                                        THEN missed[v] \cup {r} ELSE missed[v]]
  BY DEF Delivered, TryEnds, Reaches, SetContacted
<1>2. /\ view[w][r] \in Columns /\ view[w][r] # NoOne /\ Unaware(w, r)
      /\ lag[w] \in 0..MaxLag /\ Cooldown \in Nat /\ calm[r] \in 0..MaxCalm
  BY <1>1, NoOneIsNobody, PolicyAssumption
     DEF Held, InHand, Columns, WorkersOK, PersonInv, Session, ActsUnaware
<1>3. /\ calm' \in [Customers -> 0..MaxCalm] /\ calm'[r] <= lag[w] /\ calm'[r] <= calm[r]
      /\ calm[r] - lag[w] >= Cooldown => calm'[r] = lag[w]
  BY <1>1, <1>2, BoundsType DEF PersonInv
<1>4. view'[w][r] = [view[w][r] EXCEPT !.since = 0]
  BY <1>1 DEF ShapeOK
<1>5. /\ view'[w][r] # NoOne /\ view'[w][r].since = 0
      /\ view'[w][r].do_not_contact = view[w][r].do_not_contact
  BY <1>2, <1>4, NoOneIsNobody DEF Columns
<1>6. \A v \in Workers, u \in Customers : v # w \/ u # r => view'[v][u] = view[v][u]
  BY <1>1 DEF ShapeOK
<1>7. \A v \in Workers : InTick(v)' <=> InTick(v)
  BY <1>1 DEF InTick, WorkersOK
<1>8. /\ \A v \in Workers, u \in Customers :
           v # w \/ u # r => (ReachedNow(v, u)' <=> ReachedNow(v, u))
      /\ ReachedNow(w, r)'
  BY <1>1, <1>7 DEF ReachedNow, WorkersOK, InTick
<1>9. /\ missed' \in [Workers -> SUBSET Customers]
      /\ \A v \in Workers : missed[v] \subseteq missed'[v]
      /\ \A v \in Workers : v # w /\ view[v][r] # NoOne => r \in missed'[v]
  BY <1>1 DEF PersonInv
<1>10. ASSUME NEW v \in Workers PROVE Session(v)'
  <2>1. ActsUnaware(v)'
    BY <1>1, <1>6, ActsUnawareFrame DEF PersonInv, Session, ShapeOK, WorkersOK
  <2>2. ~InTick(v)' => Unread(v)'
    <3>1. CASE v = w
      BY <1>1, <1>7, <3>1 DEF InTick
    <3>2. CASE v # w
      BY <1>6, <1>7, <3>2 DEF PersonInv, Session, Unread
    <3>. QED BY <3>1, <3>2
  <2>3. pc'[v] = "idle" => touched'[v] = {}
    BY <1>1 DEF PersonInv, Session, WorkersOK
  <2>4. ASSUME NEW u \in refused'[v]
        PROVE  /\ person'[u].do_not_contact
               /\ view'[v][u] # NoOne => view'[v][u].do_not_contact
    <3>1. u \in refused[v]
      BY <1>1
    <3>2. /\ u \in Customers /\ person[u].do_not_contact
          /\ view[v][u] # NoOne => view[v][u].do_not_contact
      BY <3>1, RefusedStayRefused
    <3>3. v = w => u # r
      BY <1>2, <3>2 DEF Unaware
    <3>4. view'[v][u] = view[v][u]
      BY <1>6, <3>2, <3>3
    <3>. QED BY <1>1, <3>2, <3>4
  <2>. QED BY <2>1, <2>2, <2>3, <2>4 DEF Session
<1>11. ASSUME NEW u \in Customers PROVE OnRecord(u)'
  <2>1. CASE u = r
    BY <1>8, <2>1 DEF OnRecord
  <2>2. CASE u # r
    <3>1. calm'[u] = calm[u] /\ person' = person /\ offRecord' = offRecord
      BY <1>1, <2>2 DEF PersonInv
    <3>2. OnRecord(u)
      BY DEF PersonInv
    <3>. QED BY <1>8, <2>2, <3>1, <3>2 DEF OnRecord
  <2>. QED BY <2>1, <2>2
<1>12. ASSUME NEW v \in Workers, NEW u \in Customers, u # r
       PROVE  Stamps(v, u)' /\ Overlaps(v, u)' /\ Rested(v, u)'
  <2>1. calm'[u] = calm[u] /\ view'[v][u] = view[v][u]
    BY <1>1, <1>6, <1>12 DEF PersonInv
  <2>2. /\ ReachedNow(v, u)' <=> ReachedNow(v, u)
        /\ Uncommitted(v, u)' <=> Uncommitted(v, u)
    BY <1>8, <1>12 DEF Uncommitted
  <2>3. u \in missed[v] => u \in missed'[v]
    BY <1>9
  <2>4. Stamps(v, u) /\ Overlaps(v, u) /\ Rested(v, u)
    BY DEF PersonInv
  <2>. QED BY <1>1, <2>1, <2>2, <2>3, <2>4 DEF Stamps, Overlaps, Rested
<1>13. ASSUME NEW v \in Workers, v # w
       PROVE  Stamps(v, r)' /\ Overlaps(v, r)' /\ Rested(v, r)'
  <2>1. view'[v][r] = view[v][r] /\ (view[v][r] # NoOne => r \in missed'[v])
    BY <1>6, <1>9, <1>13
  <2>2. Stamps(v, r)'
    <3>1. lag[v] \in 0..MaxLag /\ calm'[r] \in 0..MaxCalm
      BY <1>3 DEF WorkersOK
    <3>2. Stamps(v, r) /\ (ReachedNow(v, r)' <=> ReachedNow(v, r)) /\ lag' = lag
      BY <1>1, <1>8, <1>13 DEF PersonInv
    <3>3. ReachedNow(v, r)' => calm'[r] <= lag[v] /\ view[v][r] # NoOne
      BY <1>2, <1>3, <3>1, <3>2, BoundsType DEF Stamps
    <3>. QED BY <2>1, <3>2, <3>3 DEF Stamps
  <2>. QED BY <2>1, <2>2 DEF Overlaps, Rested
<1>14. Stamps(w, r)' /\ Overlaps(w, r)' /\ Rested(w, r)'
  <2>1. Stamps(w, r)'
    BY <1>1, <1>3, <1>5 DEF Stamps
  <2>2. Overlaps(w, r)'
    <3>1. Uncommitted(w, r)' <=> Uncommitted(w, r)
      BY <1>8 DEF Uncommitted
    <3>. QED BY <1>2, <1>9, <3>1 DEF PersonInv, Overlaps
  <2>3. Rested(w, r)'
    <3>1. r \in offRecord \cup missed[w] \/ calm[r] - lag[w] >= Cooldown
      BY <1>2 DEF PersonInv, Rested, Unaware
    <3>2. CASE r \in offRecord \cup missed[w]
      BY <1>1, <1>9, <3>2 DEF Rested
    <3>3. CASE calm[r] - lag[w] >= Cooldown
      <4>1. view'[w][r].since >= Cooldown => calm'[r] - lag'[w] >= Cooldown
        BY <1>1, <1>2, <1>3, <1>5, <3>3, BoundsType
      <4>. QED BY <4>1 DEF Rested
    <3>. QED BY <3>1, <3>2, <3>3
  <2>. QED BY <2>1, <2>2, <2>3
<1>. QED BY <1>1, <1>3, <1>9, <1>10, <1>11, <1>12, <1>13, <1>14 DEF PersonInv

\* A contact whose answer is lost is off the record from then on.
LEMMA PersonNotDelivered ==
  ASSUME NEW w \in Workers, HeldInv, PersonInv, NotDelivered(w) PROVE PersonInv'
<1>. USE DEF HeldInv, OrchestratorTypeOK
<1>0. CustomerOf[cur[w]] \in Customers
  BY DEF NotDelivered, TryEnds, Held, Trying
<1>. SUFFICES ASSUME NEW r \in Customers, r = CustomerOf[cur[w]] PROVE PersonInv'
  BY <1>0
<1>1. /\ pc[w] = "acting" /\ pc' = [pc EXCEPT ![w] = "next"]
      /\ cur' = [cur EXCEPT ![w] = NoOne]
      /\ UNCHANGED <<lag, person, touched, view, missed, refused>>
      /\ \/ calm' = calm /\ offRecord' = offRecord
         \/ /\ calm' = [calm EXCEPT ![r] = IF @ < lag[w] THEN @ ELSE lag[w]]
            /\ offRecord' = offRecord \cup {r}
  BY DEF NotDelivered, TryEnds, Reaches
<1>2. /\ \A v \in Workers : (InTick(v)' <=> InTick(v)) /\ ActsUnaware(v)'
      /\ \A v \in Workers, u \in Customers : ReachedNow(v, u)' <=> ReachedNow(v, u)
      /\ pc'[w] # "idle" /\ \A v \in Workers : v # w => pc'[v] = pc[v]
  <2>1. \A v \in Workers : InTick(v)' <=> InTick(v)
    BY <1>1 DEF InTick, WorkersOK
  <2>2. \A v \in Workers : ActsUnaware(v)'
    BY <1>1, ActsUnawareFrame DEF PersonInv, Session, WorkersOK
  <2>. QED BY <1>1, <2>1, <2>2 DEF ReachedNow, WorkersOK
<1>3. CASE calm' = calm /\ offRecord' = offRecord
  BY <1>1, <1>2, <1>3, PersonFrame DEF PersonInv, Session
<1>4. CASE /\ calm' = [calm EXCEPT ![r] = IF @ < lag[w] THEN @ ELSE lag[w]]
           /\ offRecord' = offRecord \cup {r}
  <2>1. /\ lag \in [Workers -> 0..MaxLag] /\ calm[r] \in 0..MaxCalm
        /\ calm' \in [Customers -> 0..MaxCalm] /\ calm'[r] <= calm[r]
        /\ \A u \in Customers : u # r => calm'[u] = calm[u]
    BY <1>4, BoundsType DEF WorkersOK, PersonInv
  <2>2. ASSUME NEW v \in Workers PROVE Session(v)'
    <3>1. ASSUME NEW u \in refused'[v]
          PROVE  /\ person'[u].do_not_contact
                 /\ view'[v][u] # NoOne => view'[v][u].do_not_contact
      BY <1>1, RefusedStayRefused
    <3>. QED BY <1>1, <1>2, <3>1 DEF PersonInv, Session, Unread
  <2>3. ASSUME NEW u \in Customers PROVE OnRecord(u)'
    BY <1>1, <1>2, <1>4, <2>1 DEF PersonInv, OnRecord
  <2>4. ASSUME NEW v \in Workers, NEW u \in Customers
        PROVE  Stamps(v, u)' /\ Overlaps(v, u)' /\ Rested(v, u)'
    <3>1. Uncommitted(v, u)' <=> Uncommitted(v, u)
      BY <1>2 DEF Uncommitted
    <3>2. Stamps(v, u) /\ Overlaps(v, u) /\ Rested(v, u)
      BY DEF PersonInv
    <3>3. Overlaps(v, u)'
      BY <1>1, <3>1, <3>2 DEF Overlaps
    <3>4. Stamps(v, u)'
      <4>1. calm'[u] <= calm[u] /\ calm[u] \in Nat /\ calm'[u] \in Nat /\ lag[v] \in Nat
        BY <2>1, BoundsType DEF PersonInv
      <4>. QED BY <1>1, <1>2, <3>2, <4>1 DEF Stamps
    <3>5. Rested(v, u)'
      BY <1>1, <1>4, <2>1, <3>2 DEF Rested
    <3>. QED BY <3>3, <3>4, <3>5
  <2>5. offRecord' \subseteq Customers
    BY <1>4 DEF PersonInv
  <2>. QED BY <1>1, <2>1, <2>2, <2>3, <2>4, <2>5 DEF PersonInv
<1>. QED BY <1>1, <1>3, <1>4

\* A session that ends: its own columns go, what it says is the record or is not.
LEMMA PersonEnds ==
  ASSUME NEW w \in Workers, HeldInv, PersonInv, EndSession(w), ~InTick(w)',
         calm' = calm, offRecord' \subseteq Customers,
         \A v \in Workers : v # w => pc'[v] = pc[v] /\ touched'[v] = touched[v],
         pc'[w] = "idle" => touched'[w] = {},
         \A u \in Customers : /\ OnRecord(u)'
                              /\ person[u].do_not_contact => person'[u].do_not_contact,
         \A v \in Workers, u \in Customers :
            v # w /\ u \in offRecord /\ u \notin offRecord' => ReachedNow(w, u)
  PROVE  PersonInv'
<1>. USE DEF HeldInv, OrchestratorTypeOK
<1>1. /\ view'[w] = [u \in Customers |-> NoOne]
      /\ refused'[w] = {} /\ cur'[w] = NoOne
      /\ missed' \in [Workers -> SUBSET Customers]
      /\ refused' \in [Workers -> SUBSET Customers]
  BY DEF EndSession, ShapeOK, PersonInv, WorkersOK
<1>2. \A v \in Workers : v # w => /\ view'[v] = view[v] /\ lag'[v] = lag[v]
                                  /\ cur'[v] = cur[v] /\ missed'[v] = missed[v]
                                  /\ refused'[v] = refused[v]
  BY DEF EndSession, ShapeOK, PersonInv, WorkersOK
<1>3. /\ \A v \in Workers : v # w => (InTick(v)' <=> InTick(v))
      /\ \A v \in Workers, u \in Customers :
           IF v = w THEN ~ReachedNow(v, u)' ELSE ReachedNow(v, u)' <=> ReachedNow(v, u)
  BY DEF InTick, ReachedNow
<1>4. ASSUME NEW v \in Workers PROVE Session(v)'
  <2>1. CASE v = w
    <3>1. ActsUnaware(v)' /\ Unread(v)'
      BY <1>1, <2>1 DEF ActsUnaware, Unread, InTick
    <3>. QED BY <1>1, <2>1, <3>1 DEF Session
  <2>2. CASE v # w
    <3>1. ActsUnaware(v)'
      BY <1>2, <2>2, ActsUnawareFrame DEF PersonInv, Session
    <3>2. ASSUME NEW u \in refused'[v]
          PROVE  /\ person'[u].do_not_contact
                 /\ view'[v][u] # NoOne => view'[v][u].do_not_contact
      <4>1. u \in refused[v]
        BY <1>2, <2>2
      <4>. QED BY <1>2, <2>2, <4>1, RefusedStayRefused
    <3>3. ~InTick(v)' => Unread(v)'
      BY <1>2, <1>3, <2>2 DEF PersonInv, Session, Unread
    <3>4. pc'[v] = "idle" => touched'[v] = {}
      BY <2>2 DEF PersonInv, Session
    <3>. QED BY <3>1, <3>2, <3>3, <3>4 DEF Session
  <2>. QED BY <2>1, <2>2
<1>5. ASSUME NEW v \in Workers, NEW u \in Customers
      PROVE  Stamps(v, u)' /\ Overlaps(v, u)' /\ Rested(v, u)'
  <2>1. CASE v = w
    BY <1>1, <1>3, <2>1 DEF Stamps, Overlaps, Rested
  <2>2. CASE v # w
    <3>1. Uncommitted(v, u)' => Uncommitted(v, u)
      BY <1>3 DEF Uncommitted
    <3>2. Stamps(v, u) /\ Overlaps(v, u) /\ Rested(v, u)
      BY DEF PersonInv
    <3>3. Stamps(v, u)' /\ Overlaps(v, u)'
      BY <1>2, <1>3, <2>2, <3>1, <3>2 DEF Stamps, Overlaps
    <3>4. Rested(v, u)'
      <4>1. CASE u \in offRecord /\ u \notin offRecord'
        <5>1. Uncommitted(v, u)
          BY <2>2, <4>1 DEF Uncommitted
        <5>. QED BY <1>2, <2>2, <3>2, <5>1 DEF Overlaps, Rested
      <4>2. CASE u \in offRecord => u \in offRecord'
        BY <1>2, <2>2, <3>2, <4>2 DEF Rested
      <4>. QED BY <4>1, <4>2
    <3>. QED BY <3>3, <3>4
  <2>. QED BY <2>1, <2>2
<1>. QED BY <1>1, <1>4, <1>5 DEF PersonInv

LEMMA PersonCommit ==
  ASSUME NEW w \in Workers, HeldInv, PersonInv, Commit(w) PROVE PersonInv'
<1>. USE DEF HeldInv, OrchestratorTypeOK
<1>1. /\ pc[w] = "next" /\ UNCHANGED <<calm, touched>> /\ EndSession(w)
      /\ pc' = [pc EXCEPT ![w] = IF touched[w] = {} THEN "idle" ELSE "publishing"]
      /\ person' = [u \in Customers |->
                      IF u \in touched[w] THEN Stamped(w, u) ELSE person[u]]
      /\ offRecord' = (offRecord \ touched[w]) \cup {u \in touched[w] : calm[u] < lag[w]}
  BY DEF Commit
<1>2. /\ ~InTick(w)' /\ (pc'[w] = "idle" => touched'[w] = {})
      /\ \A v \in Workers : v # w => pc'[v] = pc[v] /\ touched'[v] = touched[v]
      /\ \A u \in Customers : ReachedNow(w, u) <=> u \in touched[w]
  BY <1>1 DEF InTick, ReachedNow, WorkersOK
<1>3. \A v \in Workers, u \in Customers :
        v # w => (ReachedNow(v, u)' <=> ReachedNow(v, u))
  BY <1>2 DEF InTick, ReachedNow
<1>4. ASSUME NEW u \in Customers
      PROVE  person[u].do_not_contact => person'[u].do_not_contact
  BY <1>1 DEF Stamped, PeopleOK
<1>5. ASSUME NEW u \in Customers PROVE OnRecord(u)'
  <2>1. CASE u \in touched[w]
    <3>1. calm[u] <= lag[w] /\ calm[u] \in Nat /\ lag[w] \in Nat
      BY <1>2, <2>1, BoundsType DEF PersonInv, Stamps, WorkersOK
    <3>2. person'[u].since = lag[w]
      BY <1>1, <2>1 DEF Stamped, PeopleOK
    <3>3. calm[u] < lag[w] => u \in offRecord'
      BY <1>1, <2>1
    <3>. QED BY <1>1, <3>1, <3>2, <3>3 DEF OnRecord
  <2>2. CASE u \notin touched[w]
    <3>1. person'[u] = person[u] /\ (u \in offRecord => u \in offRecord')
      BY <1>1, <2>2
    <3>2. u \in offRecord \/ person[u].since = calm[u]
            \/ \E v \in Workers \ {w} : ReachedNow(v, u)
      BY <1>2, <2>2 DEF PersonInv, OnRecord
    <3>. QED BY <1>1, <1>3, <3>1, <3>2 DEF OnRecord
  <2>. QED BY <2>1, <2>2
<1>6. offRecord' \subseteq Customers
  BY <1>1 DEF PersonInv, WorkersOK
<1>7. \A u \in Customers : u \in offRecord /\ u \notin offRecord' => ReachedNow(w, u)
  BY <1>1, <1>2
<1>. QED BY <1>1, <1>2, <1>4, <1>5, <1>6, <1>7, PersonEnds

\* A tick that dies leaves whom it reached off the record.
LEMMA PersonAbort ==
  ASSUME NEW w \in Workers, HeldInv, PersonInv, Abort(w) PROVE PersonInv'
<1>. USE DEF HeldInv, OrchestratorTypeOK
<1>1. /\ UNCHANGED <<calm, person>> /\ EndSession(w)
      /\ pc' = [pc EXCEPT ![w] = "idle"] /\ touched' = [touched EXCEPT ![w] = {}]
      /\ offRecord' = IF InTick(w) THEN offRecord \cup touched[w] ELSE offRecord
  BY DEF Abort
<1>2. /\ ~InTick(w)' /\ touched'[w] = {}
      /\ \A v \in Workers : v # w => pc'[v] = pc[v] /\ touched'[v] = touched[v]
  BY <1>1 DEF InTick, WorkersOK
<1>3. \A v \in Workers, u \in Customers :
        v # w => (ReachedNow(v, u)' <=> ReachedNow(v, u))
  BY <1>2 DEF InTick, ReachedNow
<1>4. ASSUME NEW u \in Customers PROVE OnRecord(u)'
  <2>1. OnRecord(u) /\ (ReachedNow(w, u) => u \in offRecord')
    BY <1>1 DEF PersonInv, ReachedNow
  <2>2. u \in offRecord => u \in offRecord'
    BY <1>1
  <2>. QED BY <1>1, <1>3, <2>1, <2>2 DEF OnRecord
<1>5. offRecord' \subseteq Customers /\ offRecord \subseteq offRecord'
  BY <1>1 DEF PersonInv, WorkersOK
<1>. QED BY <1>1, <1>2, <1>4, <1>5, PersonEnds

LEMMA PersonTimePasses ==
  ASSUME HeldInv, PersonInv, TimePasses PROVE PersonInv'
<1>. USE DEF HeldInv, OrchestratorTypeOK
<1>1. /\ UNCHANGED <<pc, cur, view, touched, offRecord, missed, refused>>
      /\ calm' = [u \in Customers |-> Older(calm[u], MaxCalm)]
      /\ \A u \in Customers : person'[u] = [person[u] EXCEPT !.since = Older(@, MaxCalm)]
      /\ \A w \in Workers : IF InTick(w) THEN lag'[w] = lag[w] + 1 /\ lag[w] < MaxLag
                            ELSE lag'[w] = lag[w]
  BY DEF TimePasses
<1>2. /\ MaxCalm = Cooldown + MaxLag /\ Cooldown \in Nat /\ MaxLag \in Nat /\ MaxCalm \in Nat
      /\ \A w \in Workers : lag[w] \in 0..MaxLag
  BY PolicyAssumption, BoundsType DEF WorkersOK, MaxCalm
<1>3. calm' \in [Customers -> 0..MaxCalm]
  BY <1>1, <1>2, AgeingType DEF PersonInv
<1>4. ASSUME NEW u \in Customers
      PROVE  /\ calm[u] \in 0..MaxCalm /\ calm'[u] = Older(calm[u], MaxCalm)
             /\ person'[u].since = Older(person[u].since, MaxCalm)
             /\ person'[u].do_not_contact = person[u].do_not_contact
  <2>1. person[u] \in [do_not_contact : BOOLEAN, wrong : BOOLEAN, since : 0..MaxCalm]
    BY DEF PeopleOK
  <2>. QED BY <1>1, <2>1 DEF PersonInv
<1>5. /\ \A w \in Workers : InTick(w)' <=> InTick(w)
      /\ \A w \in Workers, u \in Customers : /\ ReachedNow(w, u)' <=> ReachedNow(w, u)
                                             /\ Uncommitted(w, u)' <=> Uncommitted(w, u)
  BY <1>1 DEF InTick, ReachedNow, Uncommitted
<1>6. ASSUME NEW w \in Workers PROVE Session(w)'
  <2>1. ASSUME NEW u \in refused'[w]
        PROVE  /\ person'[u].do_not_contact
               /\ view'[w][u] # NoOne => view'[w][u].do_not_contact
    BY <1>1, <1>4, RefusedStayRefused
  <2>2. ActsUnaware(w)'
    BY <1>1, ActsUnawareFrame DEF PersonInv, Session
  <2>. QED BY <1>1, <1>5, <2>1, <2>2 DEF PersonInv, Session, Unread
<1>7. ASSUME NEW u \in Customers PROVE OnRecord(u)'
  BY <1>1, <1>4, <1>5 DEF PersonInv, OnRecord
<1>8. ASSUME NEW w \in Workers, NEW u \in Customers
      PROVE  Stamps(w, u)' /\ Overlaps(w, u)' /\ Rested(w, u)'
  <2>0. Stamps(w, u) /\ Overlaps(w, u) /\ Rested(w, u)
    BY DEF PersonInv
  <2>1. Stamps(w, u)'
    <3>1. CASE ReachedNow(w, u)
      <4>1. calm[u] <= lag[w] /\ lag'[w] = lag[w] + 1 /\ view[w][u] # NoOne
        BY <1>1, <2>0, <3>1 DEF Stamps, ReachedNow
      <4>2. calm'[u] <= lag'[w]
        BY <1>2, <1>4, <4>1 DEF Older
      <4>. QED BY <1>1, <4>1, <4>2 DEF Stamps
    <3>2. CASE ~ReachedNow(w, u)
      BY <1>5, <3>2 DEF Stamps
    <3>. QED BY <3>1, <3>2
  <2>2. Overlaps(w, u)'
    BY <1>1, <1>5, <2>0 DEF Overlaps
  <2>3. Rested(w, u)'
    <3>1. CASE InTick(w)
      <4>1. calm[u] - lag[w] >= Cooldown => calm'[u] - lag'[w] >= Cooldown
        BY <1>1, <1>2, <1>4, <3>1 DEF Older
      <4>. QED BY <1>1, <2>0, <4>1 DEF Rested
    <3>2. CASE ~InTick(w)
      BY <1>1, <3>2 DEF PersonInv, Session, Unread, Rested
    <3>. QED BY <3>1, <3>2
  <2>. QED BY <2>1, <2>2, <2>3
<1>. QED BY <1>1, <1>3, <1>6, <1>7, <1>8 DEF PersonInv

\* The steps that neither read nor reach anybody.
LEMMA PersonQuietStep ==
  ASSUME HeldInv, PersonInv, NEW w \in Workers,
         Claim(w) \/ Flush(w) \/ Skip(w) \/ Park(w) \/ Stop(w) \/ Act(w) \/ Publish(w)
  PROVE  PersonInv'
<1>. USE DEF HeldInv, OrchestratorTypeOK
<1>0. /\ UNCHANGED <<calm, offRecord, missed, view, lag, person>>
      /\ \A v \in Workers : v # w => /\ pc'[v] = pc[v] /\ cur'[v] = cur[v]
                                     /\ touched'[v] = touched[v]
  BY DEF Claim, Flush, Skip, Park, Stop, Act, Publish, Returns, historyVars, contactVars,
         tableVars, WorkersOK
<1>1. \A v \in Workers : v # w => /\ InTick(v)' <=> InTick(v)
                                  /\ pc'[v] = "idle" => touched'[v] = {}
                                  /\ ActsUnaware(v)'
                                  /\ \A u \in Customers : ReachedNow(v, u)' <=> ReachedNow(v, u)
  BY <1>0, ActsUnawareFrame DEF InTick, ReachedNow, PersonInv, Session
<1>2. CASE Claim(w)
  <2>1. /\ pc[w] = "idle" /\ pc'[w] = "next" /\ touched' = touched /\ touched[w] = {}
        /\ refused' = [refused EXCEPT ![w] = {u \in Customers : person[u].do_not_contact}]
    BY <1>2 DEF Claim, PersonInv, Session, WorkersOK
  <2>2. refused' \in [Workers -> SUBSET Customers]
        /\ \A v \in Workers : \A u \in refused'[v] :
             u \in refused[v] \/ (person'[u].do_not_contact /\ view[v][u] = NoOne)
    <3>1. \A u \in Customers : view[w][u] = NoOne
      BY <2>1 DEF PersonInv, Session, Unread, InTick
    <3>. QED BY <1>0, <2>1, <3>1 DEF PersonInv
  <2>3. /\ ~InTick(w) /\ pc'[w] # "idle" /\ ActsUnaware(w)'
        /\ \A u \in Customers : ReachedNow(w, u)' <=> ReachedNow(w, u)
    BY <2>1 DEF InTick, ReachedNow, ActsUnaware
  <2>. QED BY <1>0, <1>1, <2>2, <2>3, PersonFrame
<1>3. CASE Publish(w)
  <2>1. /\ pc[w] = "publishing" /\ pc'[w] \in {"idle", "publishing"} /\ refused' = refused
        /\ (pc'[w] = "idle" => touched'[w] = {})
    BY <1>3 DEF Publish, historyVars, WorkersOK
  <2>2. /\ ~InTick(w) /\ ActsUnaware(w)'
        /\ \A u \in Customers : ReachedNow(w, u)' <=> ReachedNow(w, u)
    BY <2>1 DEF InTick, ReachedNow, ActsUnaware
  <2>. QED BY <1>0, <1>1, <2>1, <2>2, PersonFrame DEF PersonInv
<1>4. CASE Flush(w) \/ Skip(w) \/ Park(w) \/ Stop(w) \/ Act(w)
  <2>1. /\ pc'[w] \in {"next", "acting"} /\ touched' = touched /\ refused' = refused
        /\ InTick(w) /\ InTick(w)'
    BY <1>4 DEF Flush, Skip, Park, Stop, Act, Returns, historyVars, InTick, WorkersOK
  <2>2. ActsUnaware(w)'
    <3>1. CASE Act(w)
      BY <3>1, ActIsUnaware DEF ActsUnaware, Unaware
    <3>2. CASE ~Act(w)
      BY <1>4, <3>2 DEF Flush, Skip, Park, Stop, Returns, ActsUnaware, WorkersOK
    <3>. QED BY <3>1, <3>2
  <2>3. \A u \in Customers : ReachedNow(w, u)' <=> ReachedNow(w, u)
    BY <2>1 DEF ReachedNow
  <2>. QED BY <1>0, <1>1, <2>1, <2>2, <2>3, PersonFrame DEF PersonInv
<1>. QED BY <1>2, <1>3, <1>4

LEMMA PersonStep == ASSUME HeldInv, PersonInv, [OrchestratorNext]_vars PROVE PersonInv'
<1>1. ASSUME UNCHANGED <<calm, offRecord, missed, refused, view, lag, touched, pc, cur>>,
             \A u \in Customers : /\ person'[u].since = person[u].since
                                  /\ person[u].do_not_contact => person'[u].do_not_contact
      PROVE  PersonInv'
  <2>1. \A v \in Workers : ActsUnaware(v)' /\ (InTick(v)' <=> InTick(v))
    BY <1>1, ActsUnawareFrame DEF InTick, PersonInv, Session
  <2>2. \A v \in Workers, u \in Customers : ReachedNow(v, u)' <=> ReachedNow(v, u)
    BY <1>1, <2>1 DEF ReachedNow
  <2>. QED BY <1>1, <2>1, <2>2, PersonFrame DEF PersonInv, Session
<1>2. ASSUME NEW c \in Cases, OpenCase(c) \/ Pay(c) \/ Halt(c) \/ HangUp(c) PROVE PersonInv'
  <2>1. UNCHANGED <<calm, offRecord, missed, refused, view, lag, touched, pc, cur, person>>
    BY <1>2 DEF OpenCase, Pay, Halt, HangUp, Writes, tableVars, workerVars, historyVars,
                contactVars
  <2>. QED BY <1>1, <2>1
<1>3. ASSUME NEW c \in Cases, Refuse(c) PROVE PersonInv'
  <2>1. /\ UNCHANGED <<calm, offRecord, missed, refused, view, lag, touched, pc, cur>>
        /\ \/ person' = [person EXCEPT ![CustomerOf[c]].wrong = TRUE]
           \/ person' = [person EXCEPT ![CustomerOf[c]].do_not_contact = TRUE]
    BY <1>3 DEF Refuse, Writes, workerVars, historyVars, contactVars
  <2>2. ASSUME NEW u \in Customers
        PROVE  /\ person'[u].since = person[u].since
               /\ person[u].do_not_contact => person'[u].do_not_contact
    <3>0. person \in [Customers -> [do_not_contact : BOOLEAN, wrong : BOOLEAN,
                                    since : 0..MaxCalm]]
      BY DEF HeldInv, OrchestratorTypeOK, PeopleOK
    <3>1. \/ person'[u] = person[u]
          \/ person'[u] = [person[u] EXCEPT !.wrong = TRUE]
          \/ person'[u] = [person[u] EXCEPT !.do_not_contact = TRUE]
      BY <2>1, <3>0
    <3>2. person[u] \in [do_not_contact : BOOLEAN, wrong : BOOLEAN, since : 0..MaxCalm]
      BY <3>0
    <3>. QED BY <3>1, <3>2
  <2>. QED BY <1>1, <2>1, <2>2
<1>4. CASE UNCHANGED vars
  <2>1. UNCHANGED <<calm, offRecord, missed, refused, view, lag, touched, pc, cur, person>>
    BY <1>4 DEF vars, tableVars, workerVars, historyVars, contactVars
  <2>. QED BY <1>1, <2>1
<1>. QED BY <1>2, <1>3, <1>4, PersonQuietStep, PersonLoad, PersonDelivered,
         PersonNotDelivered, PersonCommit, PersonAbort, PersonTimePasses
     DEF OrchestratorNext, WorkerStep, CaseStep

LEMMA PersonHolds == OrchestratorSpec => []PersonInv
<1>1. OrchestratorInit => HeldInv /\ PersonInv
  BY HeldInitially, PersonInitially
<1>2. HeldInv /\ PersonInv /\ [OrchestratorNext]_vars => (HeldInv /\ PersonInv)'
  BY HeldStep, PersonStep
<1>. QED BY <1>1, <1>2, PTL DEF OrchestratorSpec

\* outcomes.py, orchestrator.py: whoever had opted out when a tick claimed its
\* batch is not tried in it, about any of their debts, however many workers
\* there are and whichever contacts, answers and ticks are lost.
THEOREM OptOutHonoured == OrchestratorSpec => []OptOutIsHonoured
<1>1. PersonInv => OptOutIsHonoured
  <2>. SUFFICES ASSUME PersonInv, NEW w \in Workers, pc[w] = "acting",
                       CustomerOf[cur[w]] \in refused[w]
                PROVE  FALSE
    BY DEF OptOutIsHonoured
  <2>1. Unaware(w, CustomerOf[cur[w]])
    BY DEF PersonInv, Session, ActsUnaware
  <2>2. view[w][CustomerOf[cur[w]]] # NoOne
          => view[w][CustomerOf[cur[w]]].do_not_contact
    BY RefusedStayRefused
  <2>. QED BY <2>1, <2>2 DEF Unaware
<1>. QED BY <1>1, PersonHolds, PTL

\* orchestrator.py:185-245: whoever is tried was last reached a whole cooldown
\* before, counted from tick to tick, over all of their debts and whatever
\* becomes of Redis, unless that contact is not on record or its tick overlaps.
THEOREM OneContact == OrchestratorSpec => []CooldownHoldsOnRecord
<1>1. HeldInv /\ PersonInv => CooldownHoldsOnRecord
  <2>. SUFFICES ASSUME HeldInv, PersonInv, NEW w \in Workers, pc[w] = "acting",
                       NEW u, u = CustomerOf[cur[w]]
                PROVE  u \in offRecord \cup missed[w] \/ calm[u] - lag[w] >= Cooldown
    BY DEF CooldownHoldsOnRecord
  <2>1. u \in Customers
    BY DEF HeldInv, Held, Trying
  <2>2. Unaware(w, u) /\ Rested(w, u)
    BY <2>1 DEF PersonInv, Session, ActsUnaware
  <2>. QED BY <2>2 DEF Unaware, Rested
<1>2. OrchestratorSpec => []HeldInv
  BY HeldAndStanding, PTL
<1>. QED BY <1>1, <1>2, PersonHolds, PTL

=============================================================================
