-------------------------- MODULE ConversationGraph --------------------------
(***************************************************************************)
(* The dunning conversation as the code holds it: a graph whose edges are  *)
(* labelled, walked by naming a label of the node the call is at.          *)
(***************************************************************************)
EXTENDS Naturals, FiniteSets

CONSTANTS Nodes,   \* stages of the conversation
          Start,   \* the stage a call opens at
          Edges,   \* records [from, label, to]
          Intent   \* terminal stage -> the intent it resolves to

Terminals == DOMAIN Intent

Labels == {e.label : e \in Edges}

Options(n) == {e \in Edges : e.from = n}

\* The stages k edges or fewer away from the start.
Reached[k \in Nat] ==
  IF k = 0 THEN {Start}
  ELSE LET near == Reached[k - 1] IN near \cup {e.to : e \in {d \in Edges : d.from \in near}}

\* What must hold of a graph before a call may walk it.
validate ==
  /\ IsFiniteSet(Nodes) /\ Start \in Nodes \ Terminals
  /\ Terminals \subseteq Nodes /\ Terminals # {}
  /\ Edges \subseteq [from : Nodes, label : STRING, to : Nodes]
  /\ {e.from : e \in Edges} = Nodes \ Terminals
  /\ \A e \in Edges : e.to # e.from
  /\ \A e, f \in Edges : e.from = f.from /\ e.label = f.label => e = f
  /\ Reached[Cardinality(Nodes)] = Nodes

\* It is asked when a graph is built, so every graph that is walked meets it.
ASSUME GraphIsValid == validate

\* An ending's intent is not what is recorded of a call without an ending.
ASSUME IntentsAreEndings ==
  \A n \in Terminals : Intent[n] \notin {"none", "initiated", "unclear", "muted"}

MutantFollowsAnyEdge(n, label) == {e.to : e \in {d \in Edges : d.label = label}}

\* GraphWalker.transition: where label leads from n; nowhere when it is not a
\* label of n, or when the call has already ended there.
Follow(n, label) == {e.to : e \in {d \in Options(n) : d.label = label}}
=============================================================================
