------------------------------ MODULE DunningCall ------------------------------
(***************************************************************************)
(* A call from the dispatch to its outcome.  The agent is told of the      *)
(* debt, and then the call is on the Pipecat agent or on the LiveKit one,  *)
(* or only the turns of the model through the rail are followed: what one  *)
(* of them does not touch stays as it was.                                 *)
(***************************************************************************)
EXTENDS VoiceSession, LiveKitCall, CallHandoff, OutputRail

agentVars == <<voiceVars, liveKitVars>>

callVars == <<agentVars, handoffVars, railVars>>

CallInit == VoiceInit /\ LiveKitInit /\ HandoffInit /\ RailInit

NotYet == bot = "opening" /\ session = "none"

\* The session keeps of the context what the prompts say; here only whether
\* there is a case to write an outcome for.
Taken == phase = "told" /\ phase' = "idle" /\ channel' = "browser" /\ debt' = NoDebt
         /\ wire' = Nobody /\ told' = Nobody

\* open_call_record needs a case.
Begins(newRow) == Taken /\ (told.id = Null => newRow = "none")

PipecatStarts ==
  /\ Begins(row') /\ channel \in {"twilio", "browser"}
  /\ Connect /\ UNCHANGED <<liveKitVars, railVars>>

LiveKitStarts ==
  /\ Begins(record') /\ channel = "livekit"
  /\ StartSession /\ UNCHANGED <<voiceVars, railVars>>

CallNext ==
  \/ NotYet /\ mode = "off" /\ HandoffNext /\ UNCHANGED <<agentVars, railVars>>
  \/ NotYet /\ phase = "idle" /\ RailNext /\ UNCHANGED <<agentVars, handoffVars>>
  \/ PipecatStarts \/ LiveKitStarts
  \/ bot # "opening" /\ VoiceNext /\ UNCHANGED <<liveKitVars, handoffVars, railVars>>
  \/ session # "none" /\ LiveKitNext /\ UNCHANGED <<voiceVars, handoffVars, railVars>>

CallSpec == CallInit /\ [][CallNext]_callVars

FairCallSpec == CallSpec /\ VoiceFairness
=============================================================================
