-------------------------- MODULE MCWebhookIntake --------------------------
(***************************************************************************)
(* WebhookIntake on a small instance.                                      *)
(***************************************************************************)
EXTENDS WebhookIntake, TLC

Symmetry ==
  Permutations(Events) \cup Permutations(Requests) \cup Permutations(Servers)
=============================================================================
