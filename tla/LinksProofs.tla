----------------------------- MODULE LinksProofs -----------------------------
(***************************************************************************)
(* Safety of PaymentLinks, for any number of sessions, attempts, failures  *)
(* and charges.                                                            *)
(*                                                                         *)
(* Locking is what the row's lock keeps true for the tick that holds it;   *)
(* Held, what a session carries that has made a link; Alone, what a        *)
(* session knows that met no other.  From these the debt is asked for      *)
(* once, and from Locking alone money that was paid is credited.           *)
(***************************************************************************)
EXTENDS PaymentLinks, TLAPS

\* What the tick read is so until it commits.
Locking ==
  at[Worker] # "idle" =>
    /\ saw[Worker] = attempts /\ attempts < MaxAttempts /\ failures < MaxFailures
    /\ status \in {"open", "in_progress"}
    /\ does = "charge" => attempts = 0

\* A link in hand is at Razorpay, made by a session that is done.
Held ==
  \A s \in Senders : got[s] # None =>
    /\ at[s] = "done" /\ got[s] \in Issued
    /\ s = Worker => does = "link"

BaseInv == LinksTypeOK /\ Locking /\ Held

\* A session that met no other still knows the link on file.
Alone ==
  \A s \in Senders : at[s] # "idle" /\ ~met[s] =>
    /\ \A t \in Senders \ {s} : at[t] = "idle"
    /\ has[s] = link

\* Unless something slipped, the one link there is is on file or in hand.
Single ==
  slips = {} =>
    /\ \A r, q \in Issued : r = q
    /\ \A r \in Issued : link = r \/ \E s \in Senders : got[s] = r

\* Unless one was lost, a charge was recorded as an attempt, or is about to be.
Charged ==
  "lost" \notin slips =>
    /\ charges <= 1
    /\ charges = 1 => attempts >= 1 \/ (at[Worker] = "done" /\ does = "charge")
-----------------------------------------------------------------------------
LEMMA Constants ==
  /\ MaxAttempts \in Nat /\ MaxFailures \in Nat /\ MaxCharges \in Nat
  /\ None \notin Refs /\ None \in Nat
  /\ Worker \in Senders
BY LinksAssumption DEF Senders, None, Refs

LEMMA BaseInitially == LinksInit => BaseInv
<1>. SUFFICES ASSUME LinksInit PROVE BaseInv
  OBVIOUS
<1>1. 0 \in Refs /\ 0 \in 0..MaxFailures /\ 0 \in 0..MaxCharges /\ 0 \in 0..0
  BY Constants DEF Refs
<1>2. /\ at \in [Senders -> {"idle", "read", "done", "failed"}] /\ saw \in [Senders -> Refs]
      /\ has \in [Senders -> Refs \cup {None}] /\ got \in [Senders -> Refs \cup {None}]
      /\ met \in [Senders -> BOOLEAN] /\ made \in [Refs -> {"none", "live", "paid", "expired"}]
  BY <1>1 DEF LinksInit
<1>3. at[Worker] = "idle" /\ locked = FALSE
  BY Constants DEF LinksInit
<1>4. LinksTypeOK
  BY <1>1, <1>2, <1>3 DEF LinksInit, LinksTypeOK
<1>5. Locking /\ Held
  BY Constants DEF LinksInit, Locking, Held
<1>. QED BY <1>4, <1>5 DEF BaseInv

LEMMA ReadTypes ==
  ASSUME LinksTypeOK, NEW s \in Senders, Reads(s)
  PROVE  /\ at' \in [Senders -> {"idle", "read", "done", "failed"}]
         /\ saw' \in [Senders -> Refs] /\ has' \in [Senders -> Refs \cup {None}]
         /\ met' \in [Senders -> BOOLEAN] /\ got' = got
         /\ at[s] = "idle" /\ at'[s] = "read" /\ \A t \in Senders \ {s} : at'[t] = at[t]
         /\ saw'[s] = attempts /\ has'[s] = link
         /\ \A t \in Senders \ {s} : saw'[t] = saw[t] /\ has'[t] = has[t]
         /\ ~met'[s] => \A t \in Senders \ {s} : at[t] = "idle"
         /\ \A t \in Senders \ {s} : met'[t] <=> met[t] \/ at[t] # "idle"
<1>1. link \in Refs \cup {None} /\ attempts \in Refs
  BY DEF LinksTypeOK, Issued
<1>2. /\ at' \in [Senders -> {"idle", "read", "done", "failed"}]
      /\ saw' \in [Senders -> Refs] /\ has' \in [Senders -> Refs \cup {None}]
  BY <1>1 DEF Reads, LinksTypeOK
<1>3. met' \in [Senders -> BOOLEAN]
  <2>1. ASSUME NEW t \in Senders
        PROVE  (IF t = s THEN Beside(s) ELSE met[t] \/ at[t] # "idle") \in BOOLEAN
    BY DEF Beside, LinksTypeOK
  <2>. QED BY <2>1 DEF Reads
<1>4. \A t \in Senders : met'[t] = (IF t = s THEN Beside(s) ELSE met[t] \/ at[t] # "idle")
  BY DEF Reads
<1>5. \A t \in Senders \ {s} : met'[t] <=> met[t] \/ at[t] # "idle"
  BY <1>4
<1>6. ~met'[s] => \A t \in Senders \ {s} : at[t] = "idle"
  BY <1>4 DEF Beside
<1>7. at[s] = "idle" /\ at'[s] = "read" /\ \A t \in Senders \ {s} : at'[t] = at[t]
  BY DEF Reads, LinksTypeOK
<1>8. /\ saw'[s] = attempts /\ has'[s] = link
      /\ \A t \in Senders \ {s} : saw'[t] = saw[t] /\ has'[t] = has[t]
  BY DEF Reads, LinksTypeOK
<1>. QED BY <1>2, <1>3, <1>5, <1>6, <1>7, <1>8 DEF Reads

LEMMA OverTypes ==
  ASSUME LinksTypeOK, NEW s \in Senders, Over(s)
  PROVE  /\ at' \in [Senders -> {"idle", "read", "done", "failed"}]
         /\ saw' \in [Senders -> Refs] /\ has' \in [Senders -> Refs \cup {None}]
         /\ got' \in [Senders -> Refs \cup {None}] /\ met' \in [Senders -> BOOLEAN]
         /\ does' \in {"link", "call", "charge"}
         /\ at'[s] = "idle" /\ got'[s] = None
         /\ \A t \in Senders \ {s} :
              /\ at'[t] = at[t] /\ got'[t] = got[t] /\ met'[t] = met[t]
              /\ saw'[t] = saw[t] /\ has'[t] = has[t]
         /\ s # Worker => does' = does
<1>1. 0 \in Refs
  BY Constants DEF Refs
<1>. QED BY <1>1 DEF Over, LinksTypeOK
-----------------------------------------------------------------------------
(* The types, the lock and the links in hand, action by action. *)

\* What no reading, sending or committing touches.
LEMMA ClaimKeepsBase == BaseInv /\ Claim => BaseInv'
<1>. SUFFICES ASSUME BaseInv, Claim PROVE BaseInv'
  OBVIOUS
<1>. USE Constants
<1>1. LinksTypeOK /\ Locking /\ Held /\ Reads(Worker)
  BY DEF BaseInv, Claim
<1>2. /\ at' \in [Senders -> {"idle", "read", "done", "failed"}]
      /\ saw' \in [Senders -> Refs] /\ has' \in [Senders -> Refs \cup {None}]
      /\ met' \in [Senders -> BOOLEAN] /\ got' = got
      /\ at[Worker] = "idle" /\ at'[Worker] = "read"
      /\ \A t \in Senders \ {Worker} : at'[t] = at[t]
      /\ saw'[Worker] = attempts
  BY <1>1, ReadTypes
<1>3. does' \in {"link", "call", "charge"} /\ (does' = "charge" => attempts = 0)
  BY DEF Claim, Choices
<1>4. LinksTypeOK'
  BY <1>1, <1>2, <1>3 DEF Claim, LinksTypeOK, Issued, moneyVars
<1>5. Locking'
  BY <1>2, <1>3 DEF Claim, Locking
<1>6. Held'
  BY <1>1, <1>2 DEF Claim, Held, Issued, moneyVars
<1>. QED BY <1>4, <1>5, <1>6 DEF BaseInv

LEMMA HelpsKeepsBase ==
  ASSUME BaseInv, NEW s \in Senders, Helps(s) PROVE BaseInv'
<1>. USE Constants
<1>1. LinksTypeOK /\ Locking /\ Held
  BY DEF BaseInv
<1>2. /\ Reads(s) /\ s # Worker /\ UNCHANGED <<caseVars, does, moneyVars, slips>>
      /\ line' \in {line, "none"}
  BY DEF Helps, ToolReads, OutcomeReads, OperatorReads
<1>3. /\ at' \in [Senders -> {"idle", "read", "done", "failed"}]
      /\ saw' \in [Senders -> Refs] /\ has' \in [Senders -> Refs \cup {None}]
      /\ met' \in [Senders -> BOOLEAN] /\ got' = got
      /\ at[s] = "idle" /\ \A t \in Senders \ {s} : at'[t] = at[t] /\ saw'[t] = saw[t]
  BY <1>1, <1>2, ReadTypes
<1>4. at'[Worker] = at[Worker] /\ saw'[Worker] = saw[Worker]
  BY <1>2, <1>3
<1>5. LinksTypeOK'
  BY <1>1, <1>2, <1>3, <1>4 DEF LinksTypeOK, Issued, caseVars, moneyVars
<1>6. Locking'
  BY <1>1, <1>2, <1>4 DEF Locking, caseVars
<1>7. Held'
  BY <1>1, <1>2, <1>3 DEF Held, Issued, moneyVars
<1>. QED BY <1>5, <1>6, <1>7 DEF BaseInv

LEMMA SendsKeepsBase ==
  ASSUME BaseInv, NEW s \in Senders, Sends(s) PROVE BaseInv'
<1>. USE Constants
<1>1. LinksTypeOK /\ Locking /\ Held
  BY DEF BaseInv
<1>2. saw[s] \in Refs /\ at[s] = "read" /\ (s = Worker => does = "link")
  BY <1>1 DEF Sends, Resend, Create, CreateUnanswered, CreateFails, Asks, LinksTypeOK
<1>3. PICK how \in {"done", "failed"}, what \in {None, saw[s]} : Answered(s, how, what)
  BY DEF Sends, Resend, Create, CreateUnanswered, CreateFails
<1>4. /\ made' \in [Refs -> {"none", "live", "paid", "expired"}] /\ Issued \subseteq Issued'
      /\ slips' \subseteq {"lost", "overlap"}
  <2>1. \/ UNCHANGED <<made, slips>>
        \/ made' = [made EXCEPT ![saw[s]] = "live"] /\ slips' \subseteq slips \cup {"lost", "overlap"}
    BY DEF Sends, Resend, Create, CreateUnanswered, CreateFails
  <2>. QED BY <1>1, <1>2, <2>1 DEF LinksTypeOK, Issued
<1>5. got'[s] # None => at'[s] = "done" /\ got'[s] \in Issued'
  BY <1>1, <1>2 DEF Sends, Resend, Create, CreateUnanswered, CreateFails, Answered, LinksTypeOK,
     Issued
<1>6. /\ at' \in [Senders -> {"idle", "read", "done", "failed"}]
      /\ got' \in [Senders -> Refs \cup {None}] /\ at'[s] # "idle"
      /\ \A t \in Senders \ {s} : at'[t] = at[t] /\ got'[t] = got[t]
  BY <1>1, <1>2, <1>3 DEF Answered, LinksTypeOK
<1>7. at[Worker] = "idle" <=> at'[Worker] = "idle"
  BY <1>2, <1>6
<1>8. LinksTypeOK'
  BY <1>1, <1>3, <1>4, <1>6, <1>7 DEF Answered, LinksTypeOK, caseVars
<1>9. Locking'
  BY <1>1, <1>3, <1>7 DEF Answered, Locking, caseVars
<1>10. Held'
  BY <1>1, <1>2, <1>3, <1>4, <1>5, <1>6 DEF Answered, Held
<1>. QED BY <1>8, <1>9, <1>10 DEF BaseInv

\* A charge, a dialled number and what becomes of them touch no link.
LEMMA WorkerActsKeepsBase ==
  BaseInv /\ (Charge \/ ChargeUnanswered \/ ChargeFails \/ Dial) => BaseInv'
<1>. SUFFICES ASSUME BaseInv, Charge \/ ChargeUnanswered \/ ChargeFails \/ Dial
              PROVE  BaseInv'
  OBVIOUS
<1>. USE Constants
<1>1. LinksTypeOK /\ Locking /\ Held
  BY DEF BaseInv
<1>2. /\ at[Worker] = "read"
      /\ UNCHANGED <<caseVars, saw, has, got, met, does, made, captured, owed>>
      /\ \E how \in {"done", "failed"} : at' = [at EXCEPT ![Worker] = how]
  BY DEF Charge, ChargeUnanswered, ChargeFails, ChargeEnds, Dial, moneyVars
<1>3. /\ at' \in [Senders -> {"idle", "read", "done", "failed"}] /\ at'[Worker] # "idle"
      /\ \A t \in Senders \ {Worker} : at'[t] = at[t]
  BY <1>1, <1>2 DEF LinksTypeOK
<1>4. /\ charges' \in 0..MaxCharges /\ captured \in 0..charges'
      /\ line' \in {"none", "ringing", "talking", "unrecorded"}
      /\ slips' \subseteq {"lost", "overlap"}
  <2>1. /\ charges' = charges \/ (charges < MaxCharges /\ charges' = charges + 1)
        /\ line' = line \/ line' = "ringing"
        /\ slips' = slips \/ slips' = slips \cup {"lost"}
    BY DEF Charge, ChargeUnanswered, ChargeFails, ChargeEnds, Dial, moneyVars
  <2>2. charges \in 0..MaxCharges /\ captured \in 0..charges
    BY <1>1 DEF LinksTypeOK
  <2>3. charges' \in 0..MaxCharges /\ captured \in 0..charges'
    BY <2>1, <2>2
  <2>. QED BY <1>1, <2>1, <2>3 DEF LinksTypeOK
<1>5. LinksTypeOK'
  <2>1. Issued' = Issued /\ captured' \in 0..charges'
    BY <1>2, <1>4 DEF Issued
  <2>. QED BY <1>1, <1>2, <1>3, <1>4, <2>1 DEF LinksTypeOK, caseVars
<1>6. Locking'
  BY <1>1, <1>2 DEF Locking, caseVars
<1>7. Held'
  BY <1>1, <1>2, <1>3 DEF Held, Issued
<1>. QED BY <1>5, <1>6, <1>7 DEF BaseInv

LEMMA CommitsKeepsBase == BaseInv /\ (CommitTick \/ CommitFailure) => BaseInv'
<1>. SUFFICES ASSUME BaseInv, CommitTick \/ CommitFailure PROVE BaseInv'
  OBVIOUS
<1>. USE Constants
<1>1. LinksTypeOK /\ Locking /\ Held
  BY DEF BaseInv
<1>2. Over(Worker) /\ UNCHANGED <<refused, line, moneyVars, slips>> /\ locked' = FALSE
  BY DEF CommitTick, CommitFailure
<1>3. /\ at' \in [Senders -> {"idle", "read", "done", "failed"}]
      /\ saw' \in [Senders -> Refs] /\ has' \in [Senders -> Refs \cup {None}]
      /\ got' \in [Senders -> Refs \cup {None}] /\ met' \in [Senders -> BOOLEAN]
      /\ does' \in {"link", "call", "charge"}
      /\ at'[Worker] = "idle" /\ got'[Worker] = None
      /\ \A t \in Senders \ {Worker} : at'[t] = at[t] /\ got'[t] = got[t]
  BY <1>1, <1>2, OverTypes
<1>4. /\ at[Worker] # "idle" /\ attempts \in Nat /\ failures \in Nat
      /\ got[Worker] # None => got[Worker] \in Issued
  BY <1>1 DEF CommitTick, CommitFailure, Held, LinksTypeOK, Refs
<1>5. attempts' \in Refs /\ failures' \in 0..MaxFailures
  BY <1>1, <1>4 DEF CommitTick, CommitFailure, Locking, LinksTypeOK, Refs
<1>6. link' \in Issued' \cup {None} /\ status' = "in_progress"
  BY <1>1, <1>2, <1>4 DEF CommitTick, CommitFailure, LinksTypeOK, Issued, moneyVars
<1>7. LinksTypeOK'
  BY <1>1, <1>2, <1>3, <1>5, <1>6 DEF LinksTypeOK, moneyVars
<1>8. Locking'
  BY <1>3 DEF Locking
<1>9. Held'
  BY <1>1, <1>2, <1>3 DEF Held, Issued, moneyVars
<1>. QED BY <1>7, <1>8, <1>9 DEF BaseInv

LEMMA EndsKeepsBase ==
  ASSUME BaseInv, NEW s \in Senders, Ends(s) PROVE BaseInv'
<1>. USE Constants
<1>1. LinksTypeOK /\ Locking /\ Held
  BY DEF BaseInv
<1>2. /\ Over(s) /\ UNCHANGED <<attempts, failures, status, refused, line, moneyVars>>
      /\ slips' \subseteq {"lost", "overlap"} /\ locked' = (locked /\ s # Worker)
  BY <1>1 DEF Ends, Commit, GivesUp, Dies, LinksTypeOK, caseVars
<1>3. /\ at' \in [Senders -> {"idle", "read", "done", "failed"}]
      /\ saw' \in [Senders -> Refs] /\ has' \in [Senders -> Refs \cup {None}]
      /\ got' \in [Senders -> Refs \cup {None}] /\ met' \in [Senders -> BOOLEAN]
      /\ does' \in {"link", "call", "charge"}
      /\ at'[s] = "idle" /\ got'[s] = None
      /\ \A t \in Senders \ {s} : at'[t] = at[t] /\ got'[t] = got[t] /\ saw'[t] = saw[t]
      /\ s # Worker => does' = does
  BY <1>1, <1>2, OverTypes
<1>4. link' \in Issued' \cup {None}
  BY <1>1, <1>2 DEF Ends, Commit, GivesUp, Dies, caseVars, moneyVars, LinksTypeOK, Issued, Held
<1>5. locked' \in BOOLEAN /\ (locked' <=> at'[Worker] # "idle")
  BY <1>1, <1>2, <1>3 DEF LinksTypeOK
<1>6. LinksTypeOK'
  BY <1>1, <1>2, <1>3, <1>4, <1>5 DEF LinksTypeOK, moneyVars
<1>7. Locking'
  BY <1>1, <1>2, <1>3 DEF Locking
<1>8. Held'
  BY <1>1, <1>2, <1>3 DEF Held, Issued, moneyVars
<1>. QED BY <1>6, <1>7, <1>8 DEF BaseInv

\* Steps that leave the senders and what they work on alone.
LEMMA RestKeepsBase ==
  ASSUME BaseInv,
         \/ StopCase \/ Connects \/ HangsUp \/ Captured \/ UNCHANGED linksVars
         \/ \E r \in Refs : Expires(r) \/ Pays(r)
         \/ \E p \in Refs \cup {None} : Credit(p)
  PROVE  BaseInv'
<1>. USE Constants
<1>1. LinksTypeOK /\ Locking /\ Held
  BY DEF BaseInv
<1>2. UNCHANGED <<attempts, failures, link, locked, senderVars, slips>>
  BY DEF StopCase, Connects, HangsUp, Captured, Expires, Pays, Credit, linksVars, caseVars,
     moneyVars
<1>3. /\ status' \in {"open", "in_progress", "stopped", "recovered"}
      /\ refused' \in BOOLEAN /\ (status' = status \/ ~locked)
      /\ line' \in {"none", "ringing", "talking", "unrecorded"}
  BY <1>1 DEF StopCase, Connects, HangsUp, Captured, Expires, Pays, Credit, linksVars, caseVars,
     moneyVars, senderVars, LinksTypeOK
<1>4. /\ made' \in [Refs -> {"none", "live", "paid", "expired"}] /\ Issued' = Issued
  BY <1>1 DEF StopCase, Connects, HangsUp, Captured, Expires, Pays, Credit, linksVars, caseVars,
     moneyVars, senderVars, LinksTypeOK, Issued
<1>5. /\ charges' \in 0..MaxCharges /\ captured' \in 0..charges'
      /\ owed' \subseteq Refs \cup {None}
  BY <1>1 DEF StopCase, Connects, HangsUp, Captured, Expires, Pays, Credit, linksVars, caseVars,
     moneyVars, senderVars, LinksTypeOK
<1>6. LinksTypeOK'
  BY <1>1, <1>2, <1>3, <1>4, <1>5 DEF LinksTypeOK, senderVars
<1>7. Locking'
  BY <1>1, <1>2, <1>3 DEF Locking, LinksTypeOK, senderVars
<1>8. Held'
  BY <1>1, <1>2, <1>4 DEF Held, senderVars
<1>. QED BY <1>6, <1>7, <1>8 DEF BaseInv

\* A refusal closes a case that no tick holds.
LEMMA RefuseKeepsBase == BaseInv /\ Refuse => BaseInv'
<1>. SUFFICES ASSUME BaseInv, Refuse PROVE BaseInv'
  OBVIOUS
<1>. USE Constants
<1>1. LinksTypeOK /\ Locking /\ Held
  BY DEF BaseInv
<1>2. /\ UNCHANGED <<failures, link, locked, senderVars, moneyVars, slips>> /\ ~locked
      /\ line' = "none" /\ status' = "stopped" /\ attempts' = MaxAttempts
      /\ refused' \in BOOLEAN
  BY <1>1 DEF Refuse, LinksTypeOK
<1>3. MaxAttempts \in Refs /\ Issued' = Issued
  BY <1>2 DEF Refs, Issued, moneyVars
<1>4. LinksTypeOK'
  BY <1>1, <1>2, <1>3 DEF LinksTypeOK, senderVars, moneyVars
<1>5. Locking'
  BY <1>1, <1>2 DEF Locking, LinksTypeOK, senderVars
<1>6. Held'
  BY <1>1, <1>2, <1>3 DEF Held, senderVars
<1>. QED BY <1>4, <1>5, <1>6 DEF BaseInv

LEMMA BaseStep == BaseInv /\ [LinksNext]_linksVars => BaseInv'
<1>. SUFFICES ASSUME BaseInv, [LinksNext]_linksVars PROVE BaseInv'
  OBVIOUS
<1>1. CASE Claim
  BY <1>1, ClaimKeepsBase
<1>2. CASE Charge \/ ChargeUnanswered \/ ChargeFails \/ Dial
  BY <1>2, WorkerActsKeepsBase
<1>3. CASE CommitTick \/ CommitFailure
  BY <1>3, CommitsKeepsBase
<1>4. CASE \E s \in Senders : Helps(s) \/ Sends(s) \/ Ends(s)
  BY <1>4, HelpsKeepsBase, SendsKeepsBase, EndsKeepsBase
<1>5. CASE StopCase \/ Connects \/ HangsUp \/ Captured
  BY <1>5, RestKeepsBase
<1>6. CASE \E r \in Refs : Expires(r) \/ Pays(r)
  BY <1>6, RestKeepsBase
<1>7. CASE \E p \in Refs \cup {None} : Credit(p)
  BY <1>7, RestKeepsBase
<1>8. CASE Refuse
  BY <1>8, RefuseKeepsBase
<1>9. CASE UNCHANGED linksVars
  BY <1>9, RestKeepsBase
<1>. QED BY <1>1, <1>2, <1>3, <1>4, <1>5, <1>6, <1>7, <1>8, <1>9 DEF LinksNext, Ticks

\* Every reachable state is well formed: the row is locked exactly while a
\* tick is in progress, and the link on file is one that Razorpay has.
THEOREM LinksTypeCorrect == LinksSpec => []LinksTypeOK
<1>1. BaseInv => LinksTypeOK
  BY DEF BaseInv
<1>. QED BY BaseInitially, BaseStep, <1>1, PTL DEF LinksSpec
-----------------------------------------------------------------------------
(* The debt is asked for once. *)

DebtInv == BaseInv /\ Alone /\ Single /\ Charged

LEMMA DebtInitially == LinksInit => DebtInv
<1>. SUFFICES ASSUME LinksInit PROVE DebtInv
  OBVIOUS
<1>1. Issued = {} /\ \A s \in Senders : at[s] = "idle"
  BY DEF LinksInit, Issued
<1>2. Alone /\ Single
  BY <1>1 DEF Alone, Single
<1>3. Charged
  BY DEF LinksInit, Charged
<1>. QED BY BaseInitially, <1>2, <1>3 DEF DebtInv

LEMMA ReadsKeepsDebt ==
  ASSUME DebtInv, NEW s \in Senders, Reads(s),
         UNCHANGED <<attempts, link, made, charges, slips>>,
         s = Worker \/ UNCHANGED does
  PROVE  Alone' /\ Single' /\ Charged'
<1>. USE Constants
<1>1. BaseInv /\ LinksTypeOK /\ Alone /\ Single /\ Charged
  BY DEF DebtInv, BaseInv
<1>2. /\ got' = got /\ at[s] = "idle" /\ at'[s] = "read" /\ has'[s] = link
      /\ \A t \in Senders \ {s} : at'[t] = at[t]
      /\ ~met'[s] => \A t \in Senders \ {s} : at[t] = "idle"
      /\ \A t \in Senders \ {s} : met'[t] <=> met[t] \/ at[t] # "idle"
  BY <1>1, ReadTypes
<1>3. Alone'
  BY <1>2 DEF Alone
<1>4. Issued' = Issued
  BY DEF Issued
<1>5. Single'
  BY <1>1, <1>2, <1>4 DEF Single
<1>6. Charged'
  BY <1>1, <1>2 DEF Charged
<1>. QED BY <1>3, <1>5, <1>6

LEMMA SendsKeepsDebt ==
  ASSUME DebtInv, NEW s \in Senders, Sends(s)
  PROVE  Alone' /\ Single' /\ Charged'
<1>. USE Constants
<1>1. BaseInv /\ LinksTypeOK /\ Held /\ Alone /\ Single /\ Charged
  BY DEF DebtInv, BaseInv
<1>2. saw[s] \in Refs /\ at[s] = "read" /\ (s = Worker => does = "link") /\ got[s] = None
  BY <1>1 DEF Sends, Resend, Create, CreateUnanswered, CreateFails, Asks, LinksTypeOK, Held
<1>3. PICK how \in {"done", "failed"}, what \in {None, saw[s]} : Answered(s, how, what)
  BY DEF Sends, Resend, Create, CreateUnanswered, CreateFails
<1>4. /\ at'[s] = how /\ got'[s] = what /\ UNCHANGED <<link, has, met, attempts, charges, does>>
      /\ \A t \in Senders \ {s} : at'[t] = at[t] /\ got'[t] = got[t]
  BY <1>1, <1>3 DEF Answered, LinksTypeOK, caseVars
<1>5. Alone'
  BY <1>1, <1>2, <1>4 DEF Alone
<1>6. Charged'
  <2>1. "lost" \in slips => "lost" \in slips'
    BY DEF Sends, Resend, Create, CreateUnanswered, CreateFails
  <2>. QED BY <1>1, <1>2, <1>4, <2>1 DEF Charged
<1>7. Single'
  <2>1. CASE Resend(s) \/ CreateFails(s)
    <3>1. Issued' = Issued /\ slips' = slips
      BY <2>1 DEF Resend, CreateFails, Issued
    <3>. QED BY <1>1, <1>2, <1>4, <3>1, Constants DEF Single, Issued
  <2>2. CASE CreateUnanswered(s)
    BY <2>2 DEF CreateUnanswered, Single
  <2>3. CASE Create(s)
    <3>. SUFFICES ASSUME slips' = {} PROVE Single'
      BY DEF Single
    <3>1. /\ slips = {} /\ ~met[s] /\ has[s] = None /\ got'[s] = saw[s]
          /\ made' = [made EXCEPT ![saw[s]] = "live"]
      BY <2>3, <1>1 DEF Create, Answered, LinksTypeOK
    <3>2. link = None /\ \A t \in Senders : got[t] = None
      BY <1>1, <1>2, <3>1 DEF Alone, Held
    <3>3. Issued = {}
      BY <1>1, <3>1, <3>2 DEF Single, Issued
    <3>4. Issued' = {saw[s]}
      BY <1>1, <1>2, <3>1, <3>3 DEF Issued, LinksTypeOK
    <3>. QED BY <3>1, <3>4 DEF Single
  <2>. QED BY <2>1, <2>2, <2>3 DEF Sends
<1>. QED BY <1>5, <1>6, <1>7

LEMMA WorkerActsKeepsDebt ==
  ASSUME DebtInv, Charge \/ ChargeUnanswered \/ ChargeFails \/ Dial
  PROVE  Alone' /\ Single' /\ Charged'
<1>. USE Constants
<1>1. BaseInv /\ LinksTypeOK /\ Locking /\ Alone /\ Single /\ Charged
  BY DEF DebtInv, BaseInv
<1>2. /\ at[Worker] = "read" /\ UNCHANGED <<attempts, link, has, got, met, does, made>>
      /\ \E how \in {"done", "failed"} : at' = [at EXCEPT ![Worker] = how]
      /\ slips' = slips \/ slips' = slips \cup {"lost"}
  BY DEF Charge, ChargeUnanswered, ChargeFails, ChargeEnds, Dial, moneyVars, caseVars
<1>3. /\ at'[Worker] # "idle" /\ \A t \in Senders \ {Worker} : at'[t] = at[t]
  BY <1>1, <1>2 DEF LinksTypeOK
<1>4. Alone'
  BY <1>1, <1>2, <1>3 DEF Alone
<1>5. Issued' = Issued
  BY <1>2 DEF Issued
<1>6. Single'
  BY <1>1, <1>2, <1>5 DEF Single
<1>7. Charged'
  <2>1. CASE Charge
    <3>1. /\ charges' = charges + 1 /\ does = "charge" /\ at'[Worker] = "done" /\ slips' = slips
      BY <2>1, <1>1 DEF Charge, ChargeEnds, LinksTypeOK
    <3>2. attempts = 0 /\ charges \in Nat
      BY <1>1, <1>2, <3>1 DEF Locking, LinksTypeOK
    <3>. QED BY <1>1, <1>2, <3>1, <3>2 DEF Charged
  <2>2. CASE ChargeUnanswered
    BY <2>2 DEF ChargeUnanswered, Charged
  <2>3. CASE ChargeFails \/ Dial
    <3>1. charges' = charges /\ slips' = slips
      BY <2>3 DEF ChargeFails, Dial, moneyVars
    <3>. QED BY <1>1, <1>2, <3>1 DEF Charged
  <2>. QED BY <2>1, <2>2, <2>3
<1>. QED BY <1>4, <1>6, <1>7

LEMMA OverKeepsAlone ==
  ASSUME LinksTypeOK, Alone, NEW s \in Senders, Over(s), at[s] # "idle"
  PROVE  Alone'
<1>1. /\ at'[s] = "idle"
      /\ \A t \in Senders \ {s} : at'[t] = at[t] /\ met'[t] = met[t]
  BY OverTypes
<1>. QED BY <1>1 DEF Alone

\* The session that ends hands over the link it made, or had none.
LEMMA OverKeepsSingle ==
  ASSUME DebtInv, NEW s \in Senders, Over(s), at[s] # "idle", UNCHANGED made,
         slips' = {} => slips = {} /\ \/ got[s] = None /\ link' = link
                                      \/ got[s] # None /\ link' = got[s]
  PROVE  Single'
<1>. SUFFICES ASSUME slips' = {} PROVE Single'
  BY DEF Single
<1>1. LinksTypeOK /\ Held /\ Single /\ slips = {} /\ Issued' = Issued
  BY DEF DebtInv, BaseInv, Issued
<1>2. \A t \in Senders \ {s} : got'[t] = got[t]
  BY <1>1, OverTypes
<1>3. CASE got[s] = None /\ link' = link
  <2>1. ASSUME NEW r \in Issued PROVE link' = r \/ \E t \in Senders : got'[t] = r
    <3>1. r # None
      BY Constants DEF Issued
    <3>. QED BY <1>1, <1>2, <1>3, <3>1 DEF Single
  <2>. QED BY <1>1, <2>1 DEF Single
<1>4. CASE got[s] # None /\ link' = got[s]
  <2>1. got[s] \in Issued
    BY <1>1, <1>4 DEF Held
  <2>. QED BY <1>1, <1>4, <2>1 DEF Single
<1>. QED BY <1>3, <1>4

LEMMA CommitsKeepsDebt ==
  ASSUME DebtInv, CommitTick \/ CommitFailure PROVE Alone' /\ Single' /\ Charged'
<1>. USE Constants
<1>1. BaseInv /\ LinksTypeOK /\ Held /\ Locking /\ Alone /\ Charged
  BY DEF DebtInv, BaseInv
<1>2. Over(Worker) /\ at[Worker] # "idle" /\ UNCHANGED <<made, charges, slips>>
  BY DEF CommitTick, CommitFailure, moneyVars
<1>3. \/ got[Worker] = None /\ link' = link
      \/ got[Worker] # None /\ link' = got[Worker]
  BY <1>1 DEF CommitTick, CommitFailure, Held
<1>4. Alone' /\ Single'
  BY <1>1, <1>2, <1>3, OverKeepsAlone, OverKeepsSingle
<1>5. attempts \in Nat /\ saw[Worker] = attempts
  BY <1>1, <1>2 DEF Locking, LinksTypeOK, Refs
<1>6. Charged'
  BY <1>1, <1>2, <1>5 DEF CommitTick, CommitFailure, Charged
<1>. QED BY <1>4, <1>6

LEMMA EndsKeepsDebt ==
  ASSUME DebtInv, NEW s \in Senders, Ends(s) PROVE Alone' /\ Single' /\ Charged'
<1>. USE Constants
<1>1. BaseInv /\ LinksTypeOK /\ Held /\ Alone /\ Charged
  BY DEF DebtInv, BaseInv
<1>2. /\ Over(s) /\ at[s] # "idle" /\ UNCHANGED <<attempts, made, charges>>
      /\ slips' = slips \/ slips' = slips \cup {"lost"}
  BY DEF Ends, Commit, GivesUp, Dies, moneyVars, caseVars
<1>3. slips' = {} => slips = {} /\ \/ got[s] = None /\ link' = link
                                   \/ got[s] # None /\ link' = got[s]
  BY <1>1 DEF Ends, Commit, GivesUp, Dies, Sent, Held, caseVars
<1>4. Alone' /\ Single'
  BY <1>1, <1>2, <1>3, OverKeepsAlone, OverKeepsSingle
<1>5. s # Worker => does' = does /\ at'[Worker] = at[Worker]
  BY <1>1, <1>2, OverTypes
<1>6. s = Worker /\ does = "charge" /\ at[s] = "done" => "lost" \in slips'
  BY DEF Ends, Commit, GivesUp, Dies, Sent
<1>7. Charged'
  BY <1>1, <1>2, <1>5, <1>6 DEF Charged
<1>. QED BY <1>4, <1>7

LEMMA RestKeepsDebt ==
  ASSUME DebtInv,
         \/ StopCase \/ Connects \/ HangsUp \/ Captured \/ UNCHANGED linksVars
         \/ \E r \in Refs : Expires(r) \/ Pays(r)
         \/ \E p \in Refs \cup {None} : Credit(p)
  PROVE  Alone' /\ Single' /\ Charged'
<1>1. LinksTypeOK /\ Alone /\ Single /\ Charged
  BY DEF DebtInv, BaseInv
<1>2. UNCHANGED <<attempts, link, at, has, got, met, does, charges, slips>>
  BY DEF StopCase, Connects, HangsUp, Captured, Expires, Pays, Credit, linksVars, caseVars,
     moneyVars, senderVars
<1>3. Issued' = Issued
  BY <1>1 DEF StopCase, Connects, HangsUp, Captured, Expires, Pays, Credit, linksVars, caseVars,
     moneyVars, senderVars, LinksTypeOK, Issued
<1>. QED BY <1>1, <1>2, <1>3 DEF Alone, Single, Charged

\* A case with its attempts spent has had one, if the mandate was charged.
LEMMA RefuseKeepsDebt ==
  ASSUME DebtInv, Refuse PROVE Alone' /\ Single' /\ Charged'
<1>. USE Constants
<1>1. LinksTypeOK /\ Alone /\ Single /\ Charged
  BY DEF DebtInv, BaseInv
<1>2. UNCHANGED <<link, at, has, got, met, does, made, charges, slips>> /\ ~locked
  BY DEF Refuse, moneyVars, senderVars
<1>3. attempts' = MaxAttempts /\ attempts \in 0..MaxAttempts /\ at[Worker] = "idle"
  BY <1>1, <1>2 DEF Refuse, LinksTypeOK, Refs
<1>4. Alone' /\ Single'
  BY <1>1, <1>2 DEF Alone, Single, Issued
<1>5. attempts >= 1 => attempts' >= 1
  BY <1>3
<1>6. Charged'
  BY <1>1, <1>2, <1>3, <1>5 DEF Charged
<1>. QED BY <1>4, <1>6

LEMMA DebtStep == DebtInv /\ [LinksNext]_linksVars => DebtInv'
<1>. SUFFICES ASSUME DebtInv, [LinksNext]_linksVars PROVE Alone' /\ Single' /\ Charged'
  BY BaseStep DEF DebtInv
<1>1. CASE Claim
  <2>1. Reads(Worker) /\ UNCHANGED <<attempts, link, made, charges, slips>>
    BY <1>1 DEF Claim, moneyVars
  <2>. QED BY <2>1, Constants, ReadsKeepsDebt
<1>2. CASE Charge \/ ChargeUnanswered \/ ChargeFails \/ Dial
  BY <1>2, WorkerActsKeepsDebt
<1>3. CASE CommitTick \/ CommitFailure
  BY <1>3, CommitsKeepsDebt
<1>4. ASSUME NEW s \in Senders, Helps(s) PROVE Alone' /\ Single' /\ Charged'
  <2>1. Reads(s) /\ UNCHANGED <<attempts, link, made, charges, slips, does>>
    BY <1>4 DEF Helps, ToolReads, OutcomeReads, OperatorReads, caseVars, moneyVars
  <2>. QED BY <2>1, ReadsKeepsDebt
<1>5. ASSUME NEW s \in Senders, Sends(s) \/ Ends(s) PROVE Alone' /\ Single' /\ Charged'
  BY <1>5, SendsKeepsDebt, EndsKeepsDebt
<1>6. CASE StopCase \/ Connects \/ HangsUp \/ Captured
  BY <1>6, RestKeepsDebt
<1>7. CASE \E r \in Refs : Expires(r) \/ Pays(r)
  BY <1>7, RestKeepsDebt
<1>8. CASE \E p \in Refs \cup {None} : Credit(p)
  BY <1>8, RestKeepsDebt
<1>9. CASE Refuse
  BY <1>9, RefuseKeepsDebt
<1>10. CASE UNCHANGED linksVars
  BY <1>10, RestKeepsDebt
<1>. QED BY <1>1, <1>2, <1>3, <1>4, <1>5, <1>6, <1>7, <1>8, <1>9, <1>10 DEF LinksNext, Ticks

\* However many sessions send, and however often: one link in the life of the
\* case and one charge of the mandate, unless an answer or a commit was lost
\* or two sessions met.
THEOREM DebtAskedOnce == LinksSpec => []DebtIsAskedOnce
<1>1. DebtInv => DebtIsAskedOnce
  BY DEF DebtInv, Single, Charged, DebtIsAskedOnce
<1>. QED BY DebtInitially, DebtStep, <1>1, PTL DEF LinksSpec
-----------------------------------------------------------------------------
(* Money that was paid closes the case. *)

CreditInv == BaseInv /\ PaidMoneyIsCredited

\* A step that pays no link, and leaves a case that is closed as it is.
LEMMA CreditKept ==
  ASSUME PaidMoneyIsCredited,
         \A r \in Refs : made'[r] = "paid" => made[r] = "paid" \/ r \in owed',
         captured' = captured \/ None \in owed',
         owed \subseteq owed', Settled => Settled'
  PROVE  PaidMoneyIsCredited'
BY DEF PaidMoneyIsCredited

LEMMA CreditStep == CreditInv /\ [LinksNext]_linksVars => CreditInv'
<1>. SUFFICES ASSUME CreditInv, [LinksNext]_linksVars PROVE PaidMoneyIsCredited'
  BY BaseStep DEF CreditInv
<1>. USE Constants
<1>1. LinksTypeOK /\ Locking /\ PaidMoneyIsCredited
  BY DEF CreditInv, BaseInv
<1>2. CASE \E p \in Refs \cup {None} : Credit(p)
  <2>1. Settled'
    BY <1>2 DEF Credit, Settled
  <2>. QED BY <2>1 DEF PaidMoneyIsCredited
<1>3. CASE CommitTick \/ CommitFailure \/ StopCase
  <2>1. status \in {"open", "in_progress"} /\ UNCHANGED <<made, captured, owed>>
    BY <1>1, <1>3 DEF CommitTick, CommitFailure, StopCase, Locking, moneyVars
  <2>2. Settled => Settled'
    BY <2>1 DEF Settled
  <2>. QED BY <1>1, <2>1, <2>2, CreditKept
<1>4. CASE Refuse
  <2>1. /\ UNCHANGED <<made, captured, owed>> /\ status' = "stopped"
        /\ refused' = (refused \/ status = "recovered")
    BY <1>4 DEF Refuse, moneyVars
  <2>2. Settled => Settled'
    BY <2>1 DEF Settled
  <2>. QED BY <1>1, <2>1, <2>2, CreditKept
<1>5. CASE \E s \in Senders : Sends(s)
  <2>1. PICK s \in Senders : Sends(s)
    BY <1>5
  <2>2. UNCHANGED <<status, refused, captured, owed>> /\ saw[s] \in Refs
    BY <1>1, <2>1 DEF Sends, Resend, Create, CreateUnanswered, CreateFails, Answered, caseVars,
       LinksTypeOK
  <2>3. made' = made \/ made' = [made EXCEPT ![saw[s]] = "live"]
    BY <2>1 DEF Sends, Resend, Create, CreateUnanswered, CreateFails
  <2>4. \A r \in Refs : made'[r] = "paid" => made[r] = "paid"
    BY <1>1, <2>2, <2>3 DEF LinksTypeOK
  <2>. QED BY <1>1, <2>2, <2>4, CreditKept DEF Settled
<1>6. CASE \E r \in Refs : Expires(r) \/ Pays(r)
  <2>1. PICK r \in Refs : Expires(r) \/ Pays(r)
    BY <1>6
  <2>2. \A q \in Refs : made'[q] = "paid" => made[q] = "paid" \/ q \in owed'
    BY <1>1, <2>1 DEF Expires, Pays, LinksTypeOK
  <2>3. UNCHANGED <<status, refused, captured>> /\ owed \subseteq owed'
    BY <2>1 DEF Expires, Pays, caseVars
  <2>. QED BY <1>1, <2>2, <2>3, CreditKept DEF Settled
<1>7. CASE Captured
  <2>1. UNCHANGED <<status, refused, made>> /\ owed \subseteq owed'
    BY <1>7 DEF Captured, caseVars
  <2>2. captured' = captured \/ None \in owed'
    BY <1>7 DEF Captured
  <2>. QED BY <1>1, <2>1, <2>2, CreditKept DEF Settled
<1>8. CASE Claim \/ Charge \/ ChargeUnanswered \/ ChargeFails \/ Dial \/ Connects \/ HangsUp
  <2>1. UNCHANGED <<status, refused, made, captured, owed>>
    BY <1>8 DEF Claim, Charge, ChargeUnanswered, ChargeFails, ChargeEnds, Dial, Connects,
       HangsUp, moneyVars, caseVars
  <2>. QED BY <1>1, <2>1, CreditKept DEF Settled
<1>9. CASE \E s \in Senders : Helps(s) \/ Ends(s)
  <2>1. UNCHANGED <<status, refused, made, captured, owed>>
    BY <1>9 DEF Helps, ToolReads, OutcomeReads, OperatorReads, Ends, Commit, GivesUp, Dies,
       moneyVars, caseVars
  <2>. QED BY <1>1, <2>1, CreditKept DEF Settled
<1>10. CASE UNCHANGED linksVars
  BY <1>1, <1>10, CreditKept DEF linksVars, moneyVars, caseVars, Settled
<1>. QED BY <1>2, <1>3, <1>4, <1>5, <1>6, <1>7, <1>8, <1>9, <1>10 DEF LinksNext, Ticks

\* Whatever was lost on the way, a payment whose webhook named the case and has
\* been handled has closed it for good, on a link no row remembers too: only a
\* refusal on a call changes what it is closed as.
THEOREM PaidMoneyCounts == LinksSpec => []PaidMoneyIsCredited
<1>1. LinksInit => PaidMoneyIsCredited
  BY Constants DEF LinksInit, PaidMoneyIsCredited
<1>2. LinksInit => CreditInv
  BY <1>1, BaseInitially DEF CreditInv
<1>3. CreditInv => PaidMoneyIsCredited
  BY DEF CreditInv
<1>. QED BY <1>2, CreditStep, <1>3, PTL DEF LinksSpec
=============================================================================
