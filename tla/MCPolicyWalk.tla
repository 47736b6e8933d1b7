---------------------------- MODULE MCPolicyWalk ----------------------------
(***************************************************************************)
(* PolicyWalk with the thresholds of config.py in units of six hours, days *)
(* counted from 03:00, so that each (24 h, 72 h, 09:00, 21:00) is whole.   *)
(***************************************************************************)
EXTENDS PolicyWalk
=============================================================================
