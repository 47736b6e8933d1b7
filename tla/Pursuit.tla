------------------------------- MODULE Pursuit -------------------------------
(***************************************************************************)
(* What the worker promises of the cases it pursues, whatever batches,     *)
(* locks, rollbacks, payments and calls do underneath.  A case is tried    *)
(* only while it is live, one try at a time, and only so often; it cannot  *)
(* close under a try; once it is closed it stays closed and is left alone. *)
(***************************************************************************)
EXTENDS Naturals

CONSTANTS Cases,
          Budget     \* tries a case is worth, of those that are on record

VARIABLES standing,  \* standing[c]: "absent", "live" or "closed"
          underway,  \* cases with a try under way
          tries,     \* tries[c]: tries made
          undone     \* undone[c]: of these, tries whose record was lost

pursuitVars == <<standing, underway, tries, undone>>

PursuitInit ==
  /\ standing = [c \in Cases |-> "absent"] /\ underway = {}
  /\ tries = [c \in Cases |-> 0] /\ undone = [c \in Cases |-> 0]

Opens(c) ==
  /\ standing[c] = "absent" /\ standing' = [standing EXCEPT ![c] = "live"]
  /\ UNCHANGED <<underway, tries, undone>>

Tries(c) ==
  /\ standing[c] = "live" /\ c \notin underway /\ tries[c] < Budget + undone[c]
  /\ underway' = underway \cup {c} /\ tries' = [tries EXCEPT ![c] = @ + 1]
  /\ UNCHANGED <<standing, undone>>

Answers(c) ==
  /\ c \in underway /\ underway' = underway \ {c}
  /\ UNCHANGED <<standing, tries, undone>>

\* A worker that dies takes the records of its tries with it; each only once.
Loses(S) ==
  /\ \A c \in S : standing[c] = "live" /\ undone[c] < tries[c]
  /\ underway' = underway \ S
  /\ undone' = [c \in Cases |-> IF c \in S THEN undone[c] + 1 ELSE undone[c]]
  /\ UNCHANGED <<standing, tries>>

\* A batch may close several cases at once.
Closes(S) ==
  /\ \A c \in S : standing[c] = "live" /\ c \notin underway
  /\ standing' = [c \in Cases |-> IF c \in S THEN "closed" ELSE standing[c]]
  /\ UNCHANGED <<underway, tries, undone>>

PursuitNext ==
  \/ \E S \in SUBSET Cases : Loses(S) \/ Closes(S)
  \/ \E c \in Cases : Opens(c) \/ Tries(c) \/ Answers(c)

PursuitSpec == PursuitInit /\ [][PursuitNext]_pursuitVars
=============================================================================
