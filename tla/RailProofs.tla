----------------------------- MODULE RailProofs -----------------------------
(***************************************************************************)
(* Safety of OutputRail, for turns of any length.                          *)
(*                                                                         *)
(* What holds the rail together is that its buffer is the turn, for as     *)
(* long as the turn lasts and after an interruption too: then what is      *)
(* passed on in the end is the turn, whichever way the check went.         *)
(***************************************************************************)
EXTENDS OutputRail, SequenceTheorems, TLAPS

Text == Seq({"fine", "bad"})

RailTypeOK ==
  /\ mode \in {"off", "audit", "block"} /\ turn \in {"idle", "talking", "vetting", "cut"}
  /\ buffer \in Text /\ said \in Text /\ holding \in BOOLEAN
  /\ vetted \in [text : Text, held : BOOLEAN]

\* Nothing of a turn that is held has been heard.
Heard == IF mode = "block" THEN <<>> ELSE said

\* A turn that is open is in the buffer, whole.
Open ==
  turn \in {"talking", "cut"} =>
    /\ buffer = said /\ (holding <=> mode = "block") /\ passed = Heard

\* A turn that is vetted is in the hands of the check, whole.
Vetting ==
  turn = "vetting" =>
    /\ vetted.text = said /\ (vetted.held <=> mode = "block") /\ passed = Heard

\* Before there is a rail there is no turn.
Off == mode = "off" => turn = "idle" /\ passed = <<>> /\ said = <<>>

RailInv == RailTypeOK /\ Open /\ Vetting /\ Off /\ TurnIsWholeOrWithheld
-----------------------------------------------------------------------------
LEMMA EmptyIsText == <<>> \in Text
BY DEF Text

\* The refusal breaks no rule, nor does silence.
LEMMA CleanTexts == ~Caught(<<>>) /\ ~Caught(Refusal)
BY DEF Caught, Refusal

LEMMA RefusalAlone == <<>> \o Refusal = Refusal
BY DEF Refusal

LEMMA RailInitially == RailInit => RailInv
<1>. SUFFICES ASSUME RailInit PROVE RailInv
  OBVIOUS
<1>1. RailTypeOK
  BY EmptyIsText DEF RailInit, RailTypeOK, Nothing
<1>2. Open /\ Vetting /\ Off /\ TurnIsWholeOrWithheld
  BY CleanTexts DEF RailInit, Open, Vetting, Off, TurnIsWholeOrWithheld
<1>. QED BY <1>1, <1>2 DEF RailInv

LEMMA BuildKeeps == RailInv /\ Build => RailInv'
<1>. SUFFICES ASSUME RailInv, Build PROVE RailInv'
  OBVIOUS
<1>1. /\ RailTypeOK /\ turn = "idle" /\ passed = <<>> /\ said = <<>>
      /\ mode' \in {"audit", "block"}
      /\ UNCHANGED <<turn, buffer, holding, vetted, said, passed, ended>>
  BY DEF RailInv, Build, Off
<1>2. RailTypeOK' /\ Open' /\ Vetting' /\ Off'
  BY <1>1 DEF RailTypeOK, Open, Vetting, Off
<1>3. TurnIsWholeOrWithheld'
  BY <1>1, CleanTexts DEF TurnIsWholeOrWithheld, Caught
<1>. QED BY <1>2, <1>3 DEF RailInv

LEMMA TurnStartsKeeps == RailInv /\ TurnStarts => RailInv'
<1>. SUFFICES ASSUME RailInv, TurnStarts PROVE RailInv'
  OBVIOUS
<1>1. /\ RailTypeOK /\ mode # "off" /\ turn' = "talking" /\ buffer' = <<>>
      /\ said' = <<>> /\ passed' = <<>> /\ UNCHANGED <<mode, vetted>>
  BY DEF RailInv, TurnStarts
<1>2. holding' \in BOOLEAN /\ (holding' <=> mode = "block")
  BY DEF TurnStarts
<1>3. RailTypeOK'
  BY <1>1, <1>2, EmptyIsText DEF RailTypeOK
<1>4. (passed = Heard)'
  BY <1>1 DEF Heard
<1>5. Open' /\ Vetting' /\ Off'
  BY <1>1, <1>2, <1>4 DEF Open, Vetting, Off
<1>6. TurnIsWholeOrWithheld'
  BY <1>1, CleanTexts DEF TurnIsWholeOrWithheld, Caught
<1>. QED BY <1>3, <1>5, <1>6 DEF RailInv

LEMMA PieceKeeps ==
  ASSUME RailInv, NEW p \in {"fine", "bad"}, Piece(p) PROVE RailInv'
<1>1. /\ RailTypeOK /\ Open /\ Off /\ turn = "talking" /\ buffer' = Append(buffer, p)
      /\ said' = Append(said, p) /\ passed' = (IF holding THEN passed ELSE Append(passed, p))
      /\ UNCHANGED <<mode, turn, holding, vetted, ended>>
  BY DEF RailInv, Piece
<1>2. Append(buffer, p) \in Text /\ Append(said, p) \in Text
  BY <1>1 DEF RailTypeOK, Text
<1>3. RailTypeOK'
  BY <1>1, <1>2 DEF RailTypeOK
<1>4. (passed = Heard)'
  BY <1>1 DEF Heard, Open
<1>5. Open' /\ Vetting' /\ Off'
  BY <1>1, <1>4 DEF Open, Vetting, Off
<1>6. TurnIsWholeOrWithheld'
  <2>1. passed' = <<>> \/ (mode' # "block" /\ passed' = said')
    BY <1>4 DEF Heard
  <2>. QED BY <1>1, <2>1, CleanTexts DEF TurnIsWholeOrWithheld, Caught
<1>. QED BY <1>3, <1>5, <1>6 DEF RailInv

LEMMA TurnEndsKeeps == RailInv /\ TurnEnds => RailInv'
<1>. SUFFICES ASSUME RailInv, TurnEnds PROVE RailInv'
  OBVIOUS
<1>1. /\ RailTypeOK /\ Open /\ Off /\ turn \in {"talking", "cut"} /\ buffer = said
      /\ (holding <=> mode = "block") /\ passed = Heard
      /\ UNCHANGED <<mode, said, passed>> /\ buffer' = <<>> /\ holding' = FALSE
  BY DEF RailInv, TurnEnds, Open
<1>2. CASE buffer = <<>>
  <2>1. /\ turn' = "idle" /\ vetted' = [text |-> <<>>, held |-> FALSE] /\ ended' = "empty"
    BY <1>2 DEF TurnEnds, Nothing
  <2>2. RailTypeOK'
    BY <1>1, <2>1, EmptyIsText DEF RailTypeOK
  <2>3. Open' /\ Vetting' /\ Off'
    BY <1>1, <2>1 DEF Open, Vetting, Off
  <2>4. passed' = <<>> /\ said' = <<>>
    BY <1>1, <1>2 DEF Heard
  <2>5. TurnIsWholeOrWithheld'
    BY <2>1, <2>4, CleanTexts DEF TurnIsWholeOrWithheld, Caught
  <2>. QED BY <2>2, <2>3, <2>5 DEF RailInv
<1>3. CASE buffer # <<>>
  <2>1. turn' = "vetting" /\ vetted' = [text |-> buffer, held |-> holding] /\ ended' = ended
    BY <1>3 DEF TurnEnds
  <2>2. RailTypeOK'
    BY <1>1, <2>1, EmptyIsText DEF RailTypeOK
  <2>3. (passed = Heard)'
    BY <1>1 DEF Heard
  <2>4. Open' /\ Vetting' /\ Off'
    BY <1>1, <2>1, <2>3 DEF Open, Vetting, Off
  <2>5. TurnIsWholeOrWithheld'
    <3>1. passed' = <<>> \/ (mode' # "block" /\ passed' = said')
      BY <2>3 DEF Heard
    <3>. QED BY <2>1, <3>1, CleanTexts DEF TurnIsWholeOrWithheld, Caught
  <2>. QED BY <2>2, <2>4, <2>5 DEF RailInv
<1>. QED BY <1>2, <1>3

LEMMA SettlesKeeps ==
  ASSUME RailInv, NEW how, NEW text, Settles(how, text),
         \/ how = "released" /\ text = vetted.text /\ ~Caught(vetted.text)
         \/ how \in {"timed out", "raised", "shapeless"} /\ text = vetted.text
         \/ how = "refused" /\ text = Refusal
  PROVE  RailInv'
<1>1. /\ RailTypeOK /\ Off /\ turn = "vetting" /\ turn' = "idle" /\ ended' = how
      /\ vetted.text = said /\ (vetted.held <=> mode = "block") /\ passed = Heard
      /\ passed' = (IF vetted.held THEN passed \o text ELSE passed)
      /\ vetted' = [text |-> <<>>, held |-> FALSE] /\ UNCHANGED <<mode, buffer, holding, said>>
  BY DEF RailInv, Settles, Vetting, Nothing
<1>2. RailTypeOK'
  BY <1>1, EmptyIsText DEF RailTypeOK
<1>3. Open' /\ Vetting' /\ Off'
  BY <1>1 DEF Open, Vetting, Off
<1>4. mode = "block" => passed' = text
  <2>1. <<>> \o said = said
    BY <1>1, ConcatEmptySeq DEF RailTypeOK, Text
  <2>2. <<>> \o Refusal = Refusal
    BY RefusalAlone
  <2>. QED BY <1>1, <2>1, <2>2 DEF Heard
<1>5. mode # "block" => passed' = said
  BY <1>1 DEF Heard
<1>6. TurnIsWholeOrWithheld'
  BY <1>1, <1>4, <1>5, CleanTexts DEF TurnIsWholeOrWithheld, Caught
<1>. QED BY <1>2, <1>3, <1>6 DEF RailInv

LEMMA InterruptedKeeps == RailInv /\ Interrupted => RailInv'
<1>. SUFFICES ASSUME RailInv, Interrupted PROVE RailInv'
  OBVIOUS
<1>1. /\ RailTypeOK /\ Open /\ Off /\ turn \in {"talking", "vetting"} /\ ended' = "interrupted"
      /\ turn' = (IF turn = "talking" THEN "cut" ELSE "idle") /\ passed = Heard
      /\ vetted' = [text |-> <<>>, held |-> FALSE]
      /\ UNCHANGED <<mode, buffer, holding, said, passed>>
  BY DEF RailInv, Interrupted, Open, Vetting, Nothing
<1>2. RailTypeOK'
  BY <1>1, EmptyIsText DEF RailTypeOK
<1>3. (passed = Heard)'
  BY <1>1 DEF Heard
<1>4. Open' /\ Vetting' /\ Off'
  BY <1>1, <1>3 DEF Open, Vetting, Off
<1>5. TurnIsWholeOrWithheld'
  <2>1. passed' = <<>> \/ (mode' # "block" /\ passed' = said')
    BY <1>3 DEF Heard
  <2>. QED BY <1>1, <2>1, CleanTexts DEF TurnIsWholeOrWithheld, Caught
<1>. QED BY <1>2, <1>4, <1>5 DEF RailInv

LEMMA RailStep == RailInv /\ [RailNext]_railVars => RailInv'
<1>. SUFFICES ASSUME RailInv, [RailNext]_railVars PROVE RailInv'
  OBVIOUS
<1>1. CASE Releases \/ Refuses
  BY <1>1, SettlesKeeps DEF Releases, Refuses
<1>2. CASE UNCHANGED railVars
  BY <1>2 DEF railVars, RailInv, RailTypeOK, Open, Vetting, Off, Heard, TurnIsWholeOrWithheld,
     Caught
<1>. QED BY <1>1, <1>2, BuildKeeps, TurnStartsKeeps, PieceKeeps, TurnEndsKeeps,
            InterruptedKeeps DEF RailNext

\* For turns of any length: what is heard of a turn is the turn, the refusal
\* in its place, or nothing, and a sentence the rules catch is held back for
\* as long as the check itself works.
THEOREM RailHolds == RailSpec => []TurnIsWholeOrWithheld
<1>1. RailInv => TurnIsWholeOrWithheld
  BY DEF RailInv
<1>. QED BY RailInitially, RailStep, <1>1, PTL DEF RailSpec
=============================================================================
