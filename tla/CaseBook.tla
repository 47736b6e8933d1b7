------------------------------- MODULE CaseBook -------------------------------
(***************************************************************************)
(* What the webhook handlers keep, whatever order and however often events *)
(* are handled, and whoever is on the phone meanwhile: a book of cases in  *)
(* which nothing is unwritten.  A failure is filed, on a case of its own   *)
(* or on one of the same debt; a case that has closed is not opened again, *)
(* and only money that came in for it makes it recovered; a charge is      *)
(* entered on a case once.                                                 *)
(***************************************************************************)
EXTENDS Naturals

CONSTANTS Charges,       \* attempts to charge a debt; a case is named by its first
          LinkPayments,  \* payments made through a recovery link
          DebtOf         \* what an attempt is meant to pay

VARIABLES book,     \* book[c]: "absent", "live", "lost" or "recovered"
          worth,    \* worth[p]: the cases that payment p is money for
          by,       \* by[c]: the payment that recovered c
          onFile,   \* onFile[p]: entries of the failure of p
          credited  \* credited[c][p]: entries of p as payment for c

bookVars == <<book, worth, by, onFile, credited>>

\* Of by[c] only what a credit leaves there is of interest.
BookInit ==
  /\ book = [c \in Charges |-> "absent"]
  /\ worth = [p \in Charges \cup LinkPayments |-> {}]
  /\ onFile = [p \in Charges |-> 0]
  /\ credited = [c \in Charges |-> [p \in Charges \cup LinkPayments |-> 0]]

Files(p) == onFile' = [onFile EXCEPT ![p] = @ + 1]

Opens(p) ==
  /\ Files(p) /\ book[p] = "absent" /\ book' = [book EXCEPT ![p] = "live"]
  /\ UNCHANGED <<worth, by, credited>>

Repeats(p) ==
  /\ Files(p)
  /\ \E c \in Charges \ {p} : DebtOf[c] = DebtOf[p] /\ book[c] # "absent"
  /\ UNCHANGED <<book, worth, by, credited>>

\* The outcome of a call, or of a rule, is written over whatever there is.
Loses(c) ==
  /\ book[c] # "absent" /\ book' = [book EXCEPT ![c] = "lost"]
  /\ UNCHANGED <<worth, by, onFile, credited>>

Pays(p, S) ==
  /\ worth[p] = {} /\ worth' = [worth EXCEPT ![p] = S]
  /\ UNCHANGED <<book, by, onFile, credited>>

\* One payment may recover several cases.
Credits(p, S) ==
  /\ \A c \in S : book[c] # "absent" /\ (p \in Charges => credited[c][p] = 0)
  /\ book' = [c \in Charges |-> IF c \in S THEN "recovered" ELSE book[c]]
  /\ by' = [c \in Charges |-> IF c \in S THEN p ELSE by[c]]
  /\ credited' = [c \in Charges |->
       IF c \in S THEN [credited[c] EXCEPT ![p] = @ + 1] ELSE credited[c]]
  /\ UNCHANGED <<worth, onFile>>

BookNext ==
  \/ \E p \in Charges \cup LinkPayments :
       \/ \E S \in SUBSET worth[p] : Credits(p, S)
       \/ \E S \in SUBSET Charges : Pays(p, S)
  \/ \E p \in Charges : Opens(p) \/ Repeats(p) \/ Loses(p)

BookSpec == BookInit /\ [][BookNext]_bookVars
=============================================================================
