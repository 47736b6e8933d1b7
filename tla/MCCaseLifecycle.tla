--------------------------- MODULE MCCaseLifecycle ---------------------------
(***************************************************************************)
(* CaseLifecycle on small instances: an invoice of a subscription, and an  *)
(* order that is some checkout's.                                          *)
(***************************************************************************)
EXTENDS CaseLifecycle, TLC

CONSTANTS invoice, order, s1, OfOrder

OwnDebt == [p \in Charges |-> IF p \in OfOrder THEN order ELSE invoice]
ItsSub == [d \in Debts |-> IF d = invoice THEN s1 ELSE None]

DispatcherSymmetry == Permutations(Dispatchers)
==============================================================================
