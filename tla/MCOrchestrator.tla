--------------------------- MODULE MCOrchestrator ---------------------------
(***************************************************************************)
(* Orchestrator on small instances: two debts of one person.               *)
(***************************************************************************)
EXTENDS Orchestrator, TLC

CONSTANTS c1, c2, u1, Diagnosis

OneDebtor == [c \in Cases |-> u1]
SameCause == [c \in Cases |-> Diagnosis]
Rupees == [c \in Cases |-> MinAmount]
Ranking == [c \in Cases |-> IF c = c1 THEN 10 ELSE 1]

WorkerSymmetry == Permutations(Workers)
=============================================================================
