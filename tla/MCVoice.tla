------------------------------- MODULE MCVoice -------------------------------
(***************************************************************************)
(* Calls over the dunning flow, about a few debts.                         *)
(***************************************************************************)
EXTENDS DunningCall, DunningFlow

\* Cases of every kind that the facts of a call distinguish: a round amount,
\* one worded in thousands, one with paise, and one that was recorded as zero.
CallDebts ==
  [id : {7}, name : {"none", "Asha"}, language : {"hi", "en"},
   paise : {0, 49900, 49950, 500000}, reason : {"none", "expired"}, halted : BOOLEAN]

\* The case a demo is pointed at.
CallDemoDebt ==
  [id |-> 8, name |-> "Asha", language |-> "hi", paise |-> 9900, reason |-> "expired",
   halted |-> FALSE]
=============================================================================
