----------------------------- MODULE LiveKitCall -----------------------------
(***************************************************************************)
(* One call on the older LiveKit agent: a NodeAgent for each stage, whose  *)
(* on_enter speaks and then, if the graph has finished, writes the outcome *)
(* and closes the session.  Nothing writes it after the session has gone.  *)
(***************************************************************************)
EXTENDS ConversationGraph

VARIABLES
  stage,    \* GraphWalker._node
  session,  \* "none", "open", or "closed"
  entering, \* stages whose on_enter is waiting for its reply to be spoken
  saved,    \* CallState.finalised
  writing,  \* the outcome being written, or "none"
  record,   \* voice_calls: no row, started, or the outcome
  leaving,  \* stages whose on_enter has found the graph finished
  dropped   \* history: the caller left first, or the database failed

liveKitVars == <<stage, session, entering, saved, writing, record, dropped, leaving>>

LiveKitInit ==
  /\ stage = Start /\ session = "none" /\ entering = {} /\ saved = FALSE
  /\ writing = "none" /\ record = "none" /\ dropped = FALSE /\ leaving = {}

\* dunning_session: the row, then the session, which enters the first stage.
StartSession ==
  /\ session = "none" /\ session' = "open"
  /\ record' \in {"none", "initiated"} /\ entering' = {Start}
  /\ UNCHANGED <<stage, saved, writing, dropped, leaving>>

\* The transition tool, while a reply is spoken or after the caller did: the
\* agent of the next stage is entered; a refusal only goes back to the model.
Transition(label) ==
  /\ session = "open"
  /\ \E n \in Follow(stage, label) : stage' = n /\ entering' = entering \cup {n}
  /\ UNCHANGED <<session, saved, writing, record, dropped, leaving>>

MutantSavesOwnStageOnly(n) ==
  /\ session = "open" /\ n \in entering /\ entering' = entering \ {n}
  /\ IF stage \notin Terminals
       THEN UNCHANGED <<saved, writing, leaving>>
       ELSE /\ saved' = TRUE /\ leaving' = leaving \cup {n}
            /\ writing' = IF saved \/ record = "none" \/ n # stage THEN writing ELSE Intent[stage]
  /\ UNCHANGED <<stage, session, record, dropped>>

\* generate_reply returns to the on_enter of n.  The walker it asks is shared,
\* and may have moved on since n was entered.
Enter(n) ==
  /\ session = "open" /\ n \in entering /\ entering' = entering \ {n}
  /\ IF stage \notin Terminals
       THEN UNCHANGED <<saved, writing, leaving>>
       ELSE /\ saved' = TRUE /\ leaving' = leaving \cup {n}
            /\ writing' = IF saved \/ record = "none" THEN writing ELSE Intent[stage]
  /\ UNCHANGED <<stage, session, record, dropped>>

\* finalise_call returns, having committed or swallowed an exception.
Saves ==
  /\ writing # "none" /\ writing' = "none"
  /\ \/ record' = writing /\ UNCHANGED dropped
     \/ dropped' = TRUE /\ UNCHANGED record
  /\ UNCHANGED <<stage, session, entering, saved, leaving>>

\* drain and aclose, by the on_enter that wrote; or by a second one, which
\* found the flag set and does not wait for the write.
Close ==
  /\ session = "open" /\ leaving # {}
  /\ writing = "none" \/ Cardinality(leaving) > 1
  /\ session' = "closed" /\ entering' = {}
  /\ UNCHANGED <<stage, saved, writing, record, dropped, leaving>>

\* The caller leaves: the session closes, on_enter is interrupted, and a write
\* under way may be too.
CallerLeaves ==
  /\ session = "open" /\ session' = "closed" /\ entering' = {} /\ dropped' = TRUE
  /\ writing' \in {writing, "none"}
  /\ UNCHANGED <<stage, saved, record, leaving>>

LiveKitNext ==
  \/ StartSession \/ Saves \/ Close \/ CallerLeaves
  \/ \E label \in Labels : Transition(label)
  \/ \E n \in Nodes : Enter(n)

LiveKitSpec == LiveKitInit /\ [][LiveKitNext]_liveKitVars

\* An outcome is written only for an ending the graph reached, though on_enter
\* asks a walker that others move; and a session that the agent itself closed
\* left its outcome, or is about to.
LiveKitKeepsEndings ==
  /\ record \notin {"none", "initiated"} => stage \in Terminals /\ record = Intent[stage]
  /\ session = "closed" /\ writing = "none" /\ record = "initiated" => dropped
=============================================================================
