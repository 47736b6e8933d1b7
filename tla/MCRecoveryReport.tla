-------------------------- MODULE MCRecoveryReport --------------------------
(***************************************************************************)
(* The recovery cases: what the handlers make of them, and then, from an   *)
(* empty database, what the report says of real and simulated ones.  While *)
(* one is followed the other has not begun.                                *)
(***************************************************************************)
EXTENDS MCCaseLifecycle, RecoveryReport

CasesInit == LifecycleInit /\ ReportInit

CasesNext ==
  \/ ReportInit /\ LifecycleNext /\ UNCHANGED reportVars
  \/ LifecycleInit /\ payers \cup subscriptions = {} /\ ReportNext /\ UNCHANGED lifecycleVars

CasesSpec == CasesInit /\ [][CasesNext]_<<lifecycleVars, reportVars>>

Symmetry == DispatcherSymmetry \cup Permutations(Cases)
=============================================================================
