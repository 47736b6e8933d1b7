--------------------------- MODULE EnvelopeLedger ---------------------------
(***************************************************************************)
(* What webhook intake promises about one Razorpay envelope once it has    *)
(* been accepted, whatever threads, caches and retries do underneath: it   *)
(* is waiting, acted on, or buried where an operator can dig it up again,  *)
(* and an envelope that has been acted on stays acted on.                  *)
(***************************************************************************)
CONSTANT Events         \* Razorpay event ids

VARIABLE status         \* status[e]: where envelope e stands

Statuses == {"absent", "pending", "done", "buried"}

LedgerTypeOK == status \in [Events -> Statuses]

LedgerInit == status = [e \in Events |-> "absent"]

Accept(e) ==
  /\ status[e] = "absent"
  /\ status' = [status EXCEPT ![e] = "pending"]

\* A dispatch that was already under way when its envelope was buried may
\* still succeed, so a buried envelope can become done without a requeue.
Settle(e) ==
  /\ status[e] \in {"pending", "buried"}
  /\ status' = [status EXCEPT ![e] = "done"]

Bury(e) ==
  /\ status[e] = "pending"
  /\ status' = [status EXCEPT ![e] = "buried"]

Exhume(E) ==
  /\ \A e \in E : status[e] = "buried"
  /\ status' = [e \in Events |-> IF e \in E THEN "pending" ELSE status[e]]

LedgerNext ==
  \/ \E e \in Events : Accept(e) \/ Settle(e) \/ Bury(e)
  \/ \E E \in SUBSET Events : Exhume(E)

LedgerSpec == LedgerInit /\ [][LedgerNext]_status
=============================================================================
