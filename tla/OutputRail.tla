------------------------------ MODULE OutputRail ------------------------------
(***************************************************************************)
(* The guardrail between the model and the voice.  In "block" mode it      *)
(* holds the pieces of a turn until the turn has ended and been vetted; in *)
(* "audit" mode it passes them on and vets afterwards.  An interruption    *)
(* cancels whatever the processor is doing.                                *)
(***************************************************************************)
EXTENDS Naturals, Sequences

CONSTANT MaxPieces  \* bound: pieces of text in a turn

VARIABLES
  mode,            \* guardrails_mode: "off", "audit" or "block"
  turn,            \* "idle", "talking", "vetting", or "cut"
  buffer, holding, \* GuardrailProcessor._buffer and _holding
  vetted,          \* the turn being vetted, and whether it was held
  said, passed,    \* history: the turn of the model, and what of it went on
  ended            \* history: how the turn ended

railVars == <<mode, turn, buffer, holding, vetted, said, passed, ended>>

Nothing == [text |-> <<>>, held |-> FALSE]

Refusal == <<"refusal">>

\* check_output: a piece is "bad" if the rules catch it.
Caught(text) == \E i \in 1..Len(text) : text[i] = "bad"

RailInit ==
  /\ mode = "off" /\ turn = "idle"
  /\ buffer = <<>> /\ holding = FALSE /\ vetted = Nothing
  /\ said = <<>> /\ passed = <<>> /\ ended = "none"

\* build_guardrail: a pipeline has a rail unless the mode is "off".
Build ==
  /\ mode = "off" /\ mode' \in {"audit", "block"}
  /\ UNCHANGED <<turn, buffer, holding, vetted, said, passed, ended>>

MutantKeepsTheBuffer ==
  /\ mode # "off" /\ turn \in {"idle", "cut"} /\ turn' = "talking"
  /\ holding' = (mode = "block")
  /\ said' = <<>> /\ passed' = <<>> /\ ended' = "none"
  /\ UNCHANGED <<mode, buffer, vetted>>

\* LLMFullResponseStartFrame.
TurnStarts ==
  /\ mode # "off" /\ turn \in {"idle", "cut"} /\ turn' = "talking"
  /\ buffer' = <<>> /\ holding' = (mode = "block")
  /\ said' = <<>> /\ passed' = <<>> /\ ended' = "none"
  /\ UNCHANGED <<mode, vetted>>

\* LLMTextFrame.
Piece(p) ==
  /\ turn = "talking" /\ Len(said) < MaxPieces
  /\ buffer' = Append(buffer, p) /\ said' = Append(said, p)
  /\ passed' = IF holding THEN passed ELSE Append(passed, p)
  /\ UNCHANGED <<mode, turn, holding, vetted, ended>>

\* LLMFullResponseEndFrame; one may follow the interruption of its turn.
TurnEnds ==
  /\ turn \in {"talking", "cut"}
  /\ turn' = IF buffer = <<>> THEN "idle" ELSE "vetting"
  /\ vetted' = IF buffer = <<>> THEN Nothing ELSE [text |-> buffer, held |-> holding]
  /\ ended' = IF buffer = <<>> THEN "empty" ELSE ended
  /\ buffer' = <<>> /\ holding' = FALSE
  /\ UNCHANGED <<mode, said, passed>>

Settles(how, text) ==
  /\ turn = "vetting" /\ turn' = "idle" /\ ended' = how
  /\ passed' = (IF vetted.held THEN passed \o text ELSE passed)
  /\ vetted' = Nothing
  /\ UNCHANGED <<mode, buffer, holding, said>>

\* The check passes; or it never answers, raises, or answers in a shape that
\* _assistant_text does not know, and the sentence goes through as it is.
Releases ==
  \/ ~Caught(vetted.text) /\ Settles("released", vetted.text)
  \/ \E how \in {"timed out", "raised", "shapeless"} : Settles(how, vetted.text)

Refuses == Caught(vetted.text) /\ Settles("refused", Refusal)

Interrupted ==
  /\ turn \in {"talking", "vetting"}
  /\ turn' = IF turn = "talking" THEN "cut" ELSE "idle"
  /\ ended' = "interrupted" /\ vetted' = Nothing
  /\ UNCHANGED <<mode, buffer, holding, said, passed>>

RailNext ==
  \/ Build \/ TurnStarts \/ (\E p \in {"fine", "bad"} : Piece(p)) \/ TurnEnds
  \/ Releases \/ Refuses \/ Interrupted

RailSpec == RailInit /\ [][RailNext]_railVars

\* What the caller hears of a turn is the turn, whole and in order, or in
\* block mode the refusal in its place, or nothing: never a word of an earlier
\* turn that was interrupted while it was held.  In block mode a sentence the
\* rules catch is heard only when the check itself did not do its work.
TurnIsWholeOrWithheld ==
  /\ turn = "idle" /\ ended = "released" => passed = said
  /\ passed \in {<<>>, said} \cup (IF mode = "block" THEN {Refusal} ELSE {})
  /\ mode = "block" /\ Caught(passed) => ended \in {"timed out", "raised", "shapeless"}
=============================================================================
