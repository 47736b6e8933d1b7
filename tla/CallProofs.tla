----------------------------- MODULE CallProofs -----------------------------
(***************************************************************************)
(* Safety of VoiceSession, for any graph of a conversation, any number of  *)
(* lines, refusals and faults, and of LiveKitCall.                         *)
(*                                                                         *)
(* Roles says which of the two writers is where, and what the flag and the *)
(* row say of it; Endings, that the watcher works only for a graph that    *)
(* has finished; Truthful, what the writers carry; Waits, what the watcher *)
(* has heard while it waited for the goodbye.                              *)
(***************************************************************************)
EXTENDS DunningCall, DunningFlow, RailProofs, SequenceTheorems,
        FiniteSetTheorems, TLAPS

\* One writer at a time.  Until somebody has raised the flag no outcome is on
\* the row; a call that is over has raised it, and whoever raised it has
\* written, or has been stopped.
Roles ==
  /\ writer = "watcher" <=> watcher = "recording"
  /\ writer = "bot" <=> bot = "recording"
  /\ bot = "opening" => row = "none" /\ watcher = "waiting"
  /\ ~flagged => row \in {"none", "initiated"}
  /\ watcher \in {"waiting", "woken"} => ~flagged
  /\ bot \in {"unwound", "recording", "done", "dead"} => watcher \in {"done", "cancelled"}
  /\ bot \in {"recording", "done"} => flagged
  /\ flagged /\ row = "initiated" /\ writer = "none" /\ bot # "dead" => lost # {}

BaseInv == VoiceTypeOK /\ Roles

Endings ==
  /\ finished => node \in Terminals
  /\ watcher \notin {"waiting", "cancelled"} => finished

\* What v says of the call as it stands.
Tells(v) ==
  /\ v \in Verdicts => (v = "muted" <=> unheard)
  /\ v = "unclear" => node \notin Terminals
  /\ v \in Verdicts \ {"muted", "unclear"} => node \in Terminals /\ v = Intent[node]

\* "unclear" would cease to be true if the walker went on; only bot() writes
\* it, when the pipeline has stopped.
Truthful ==
  /\ Tells(row)
  /\ writer # "none" => Tells(verdict)
  /\ row = "unclear" \/ (writer # "none" /\ verdict = "unclear")
       => bot \in {"recording", "done", "dead"}
  /\ ~flagged => ttsFailed = unheard

Said == heard \/ cut

\* Unless an earlier line was still to come, the line whose beginning and end
\* the watcher waits for is the goodbye.
Waits ==
  ~behind =>
    /\ watcher = "expecting" => \A i \in 1..Len(lines) : lines[i] = "closing"
    /\ watcher = "begun" => Said \/ (~stopped /\ (OnAir => playing = "closing"))
    /\ watcher = "listening" => Said \/ (OnAir => playing = "closing")
    /\ watcher = "grace" => Said
    /\ watcher = "done" /\ ~timedOut => Said
-----------------------------------------------------------------------------
LEMMA VerdictFacts ==
  /\ {"unclear", "muted"} \subseteq Verdicts
  /\ \A n \in Terminals : Intent[n] \in Verdicts \ {"unclear", "muted"}
  /\ "none" \notin Verdicts /\ "initiated" \notin Verdicts
BY IntentsAreEndings DEF Verdicts

LEMMA FollowFacts ==
  ASSUME NEW n \in Nodes, NEW label
  PROVE  /\ Follow(n, label) \subseteq Nodes
         /\ n \in Terminals => Follow(n, label) = {}
<1>1. \A e \in Edges : e.to \in Nodes /\ e.from \in Nodes \ Terminals
  BY GraphIsValid DEF validate
<1>. QED BY <1>1 DEF Follow, Options

LEMMA ConstantFacts ==
  /\ Start \in Nodes /\ Start \notin Terminals /\ Terminals \subseteq Nodes
  /\ MaxRetries \in Nat /\ MaxFaults \in Nat
BY GraphIsValid, SessionAssumption DEF validate

LEMMA BaseInitially == VoiceInit => BaseInv
<1>. SUFFICES ASSUME VoiceInit PROVE BaseInv
  OBVIOUS
<1>a. lines \in Seq({"turn", "closing"})
  BY DEF VoiceInit
<1>b. verdict \in Verdicts /\ row \in {"none", "initiated"} \cup Verdicts
  BY VerdictFacts DEF VoiceInit
<1>c. rejections \in 0..(MaxRetries + 1) /\ faults \in 0..MaxFaults /\ reruns \in Nat
  BY ConstantFacts DEF VoiceInit
<1>d. gate \in BOOLEAN
  BY DEF VoiceInit
<1>1. VoiceTypeOK
  BY <1>a, <1>b, <1>c, <1>d, ConstantFacts DEF VoiceInit, VoiceTypeOK
<1>2. Roles
  BY DEF VoiceInit, Roles
<1>. QED BY <1>1, <1>2 DEF BaseInv
-----------------------------------------------------------------------------
(* Steps that leave the record of the call alone. *)

LEMMA SilenceKeepsTypes ==
  ASSUME VoiceTypeOK, Silence
  PROVE  /\ node' \in Nodes /\ rejections' \in 0..(MaxRetries + 1)
         /\ gate' \in BOOLEAN /\ due' \in BOOLEAN /\ knows' \subseteq {"amount"}
         /\ reruns' \in Nat /\ confirmed' \in BOOLEAN /\ asked' \in BOOLEAN
         /\ lines' \in Seq({"turn", "closing"}) /\ playing' \in {"none", "turn", "closing"}
         /\ speaking' \in BOOLEAN /\ stopped' \in BOOLEAN
         /\ ttsFailed' \in BOOLEAN /\ unheard' \in BOOLEAN /\ cut' \in BOOLEAN /\ heard' \in BOOLEAN
<1>1. lines' \in Seq({"turn", "closing"})
  BY DEF Silence
<1>2. due' \in BOOLEAN /\ reruns' \in Nat /\ playing' \in {"none", "turn", "closing"}
  BY DEF Silence
<1>. QED BY <1>1, <1>2 DEF Silence, VoiceTypeOK

LEMMA BaseConnect == ASSUME BaseInv, Connect PROVE BaseInv'
<1>1. row' \in {"none", "initiated"} /\ writer = "none" /\ row = "none" /\ ~flagged
  BY DEF Connect, BaseInv, VoiceTypeOK, Roles
<1>2. lines' \in Seq({"turn", "closing"}) /\ due' \in BOOLEAN
  <2>1. lines' = lines \/ lines' = <<"turn">>
    BY DEF Connect
  <2>2. <<"turn">> \in Seq({"turn", "closing"})
    OBVIOUS
  <2>3. due' \in BOOLEAN /\ lines \in Seq({"turn", "closing"})
    BY DEF Connect, BaseInv, VoiceTypeOK
  <2>. QED BY <2>1, <2>2, <2>3
<1>3. VoiceTypeOK'
  BY <1>1, <1>2 DEF Connect, BaseInv, VoiceTypeOK, endVars
<1>4. Roles'
  BY <1>1 DEF Connect, BaseInv, VoiceTypeOK, Roles, endVars
<1>. QED BY <1>3, <1>4 DEF BaseInv

LEMMA BaseCaller == ASSUME BaseInv, NEW over \in BOOLEAN, CallerSpeaks(over) PROVE BaseInv'
<1>1. lines' \in Seq({"turn", "closing"})
  <2>1. lines' = lines \/ lines' = <<>>
    BY DEF CallerSpeaks
  <2>2. lines \in Seq({"turn", "closing"}) /\ <<>> \in Seq({"turn", "closing"})
    BY DEF BaseInv, VoiceTypeOK
  <2>. QED BY <2>1, <2>2
<1>2. playing' \in {"none", "turn", "closing"} /\ speaking' \in BOOLEAN /\ stopped' \in BOOLEAN
  BY DEF CallerSpeaks, BaseInv, VoiceTypeOK
<1>3. cut' \in BOOLEAN
  <2>1. cut' = cut \/ cut' = (cut \/ playing = "closing")
    BY DEF CallerSpeaks
  <2>2. (cut \/ playing = "closing") \in BOOLEAN /\ cut \in BOOLEAN
    BY DEF BaseInv, VoiceTypeOK
  <2>. QED BY <2>1, <2>2
<1>4. VoiceTypeOK'
  BY <1>1, <1>2, <1>3 DEF CallerSpeaks, BaseInv, VoiceTypeOK, recordVars
<1>5. Roles'
  BY DEF CallerSpeaks, BaseInv, VoiceTypeOK, Roles, recordVars
<1>. QED BY <1>4, <1>5 DEF BaseInv

LEMMA WalkerTypes ==
  ASSUME VoiceTypeOK,
         \/ \E label \in Labels : Move(label) \/ Reject(label)
         \/ UseTool
         \/ due' = FALSE /\ UNCHANGED <<node, rejections, gate, knows, reruns, confirmed, asked>>
  PROVE  /\ node' \in Nodes /\ rejections' \in 0..(MaxRetries + 1)
         /\ gate' \in BOOLEAN /\ due' \in BOOLEAN /\ knows' \subseteq {"amount"}
         /\ reruns' \in Nat /\ confirmed' \in BOOLEAN /\ asked' \in BOOLEAN
<1>1. ASSUME NEW label \in Labels, Move(label)
      PROVE  /\ node' \in Nodes /\ rejections' \in 0..(MaxRetries + 1)
             /\ gate' \in BOOLEAN /\ due' \in BOOLEAN /\ knows' \subseteq {"amount"}
             /\ reruns' \in Nat /\ confirmed' \in BOOLEAN /\ asked' \in BOOLEAN
  <2>1. node' \in Nodes /\ gate' \in BOOLEAN
    BY <1>1, FollowFacts DEF Move, VoiceTypeOK
  <2>2. confirmed' \in BOOLEAN /\ due' \in BOOLEAN /\ asked' \in BOOLEAN
    BY <1>1 DEF Move, VoiceTypeOK
  <2>3. knows' \subseteq {"amount"} /\ rejections' = 0 /\ reruns' \in Nat
    BY <1>1 DEF Move, VoiceTypeOK
  <2>. QED BY <2>1, <2>2, <2>3, ConstantFacts
<1>2. ASSUME NEW label \in Labels, Reject(label)
      PROVE  /\ node' \in Nodes /\ rejections' \in 0..(MaxRetries + 1)
             /\ gate' \in BOOLEAN /\ due' \in BOOLEAN /\ knows' \subseteq {"amount"}
             /\ reruns' \in Nat /\ confirmed' \in BOOLEAN /\ asked' \in BOOLEAN
  <2>1. rejections' \in 0..(MaxRetries + 1) /\ reruns' \in Nat
    BY <1>2, ConstantFacts DEF Reject, VoiceTypeOK
  <2>2. due' \in BOOLEAN
    BY <1>2 DEF Reject
  <2>. QED BY <1>2, <2>1, <2>2 DEF Reject, VoiceTypeOK
<1>3. ASSUME UseTool
      PROVE  /\ node' \in Nodes /\ rejections' \in 0..(MaxRetries + 1)
             /\ gate' \in BOOLEAN /\ due' \in BOOLEAN /\ knows' \subseteq {"amount"}
             /\ reruns' \in Nat /\ confirmed' \in BOOLEAN /\ asked' \in BOOLEAN
  BY <1>3 DEF UseTool, VoiceTypeOK
<1>. QED BY <1>1, <1>2, <1>3 DEF VoiceTypeOK

LEMMA BaseModel == ASSUME BaseInv, ModelAnswers PROVE BaseInv'
<1>1. lines' \in Seq({"turn", "closing"})
  BY DEF ModelAnswers, Speak, BaseInv, VoiceTypeOK
<1>2. /\ node' \in Nodes /\ rejections' \in 0..(MaxRetries + 1)
      /\ gate' \in BOOLEAN /\ due' \in BOOLEAN /\ knows' \subseteq {"amount"}
      /\ reruns' \in Nat /\ confirmed' \in BOOLEAN /\ asked' \in BOOLEAN
  BY WalkerTypes DEF ModelAnswers, BaseInv
<1>3. VoiceTypeOK'
  BY <1>1, <1>2 DEF ModelAnswers, BaseInv, VoiceTypeOK, recordVars, endVars
<1>4. Roles'
  BY DEF ModelAnswers, BaseInv, Roles, recordVars, endVars
<1>. QED BY <1>3, <1>4 DEF BaseInv

LEMMA BaseAnnounce == ASSUME BaseInv, AnnounceEnd PROVE BaseInv'
<1>1. VoiceTypeOK'
  BY DEF AnnounceEnd, BaseInv, VoiceTypeOK, walkVars, audioVars, recordVars
<1>2. Roles'
  BY DEF AnnounceEnd, BaseInv, VoiceTypeOK, Roles, OnAir, walkVars, audioVars, recordVars
<1>. QED BY <1>1, <1>2 DEF BaseInv

LEMMA BaseAudio == ASSUME BaseInv, LineStarts \/ LineStops \/ LineFails PROVE BaseInv'
<1>1. lines' \in Seq({"turn", "closing"}) /\ playing' \in {"none", "turn", "closing"}
  <2>1. CASE lines # <<>>
    <3>1. Head(lines) \in {"turn", "closing"} /\ Tail(lines) \in Seq({"turn", "closing"})
      BY <2>1, HeadTailProperties DEF BaseInv, VoiceTypeOK
    <3>. QED BY <3>1 DEF LineStarts, LineStops, LineFails, BaseInv, VoiceTypeOK
  <2>2. CASE lines = <<>>
    BY <2>2 DEF LineStarts, LineStops, LineFails, BaseInv, VoiceTypeOK
  <2>. QED BY <2>1, <2>2
<1>2. heard' \in BOOLEAN /\ cut' \in BOOLEAN
  BY DEF LineStarts, LineStops, LineFails, BaseInv, VoiceTypeOK
<1>3. faults' \in 0..MaxFaults
  BY ConstantFacts DEF LineStarts, LineStops, LineFails, BaseInv, VoiceTypeOK
<1>4. /\ watcher' # watcher =>
           \/ watcher = "draining" /\ watcher' = "drained"
           \/ watcher = "listening" /\ watcher' = "grace"
           \/ watcher = "expecting" /\ watcher' = "begun"
      /\ UNCHANGED <<walkVars, recordVars, finished, timedOut, behind, bot, caller>>
  BY DEF LineStarts, LineStops, LineFails, endVars
<1>5. /\ speaking' \in BOOLEAN /\ stopped' \in BOOLEAN /\ ttsFailed' \in BOOLEAN
      /\ unheard' \in BOOLEAN
  BY DEF LineStarts, LineStops, LineFails, BaseInv, VoiceTypeOK
<1>6. VoiceTypeOK'
  BY <1>1, <1>2, <1>3, <1>4, <1>5 DEF BaseInv, VoiceTypeOK, walkVars, recordVars
<1>7. Roles'
  BY <1>4 DEF BaseInv, Roles, recordVars
<1>. QED BY <1>6, <1>7 DEF BaseInv
-----------------------------------------------------------------------------
(* Steps of the two writers. *)

LEMMA OutcomeIsVerdict == ASSUME VoiceTypeOK PROVE Outcome \in Verdicts
BY VerdictFacts DEF Outcome

LEMMA BaseFinalises ==
  ASSUME BaseInv, WatcherFinalises \/ BotFinalises
  PROVE  BaseInv'
<1>1. /\ flagged' = TRUE /\ verdict' \in Verdicts
      /\ UNCHANGED <<row, lost, walkVars, audioVars, finished, timedOut, behind, caller, faults>>
  BY OutcomeIsVerdict DEF WatcherFinalises, BotFinalises, Finalise, BaseInv, endVars
<1>2. writer = "none"
  BY DEF WatcherFinalises, BotFinalises, BaseInv, VoiceTypeOK, Roles
<1>3. \/ /\ writer' = "none" /\ (flagged \/ row = "none")
         /\ \/ watcher' = "looking" /\ watcher = "woken" /\ bot' = bot
               /\ bot \in {"running", "ending"}
            \/ bot' = "done" /\ watcher' = watcher /\ bot = "unwound"
      \/ /\ ~flagged /\ row # "none"
         /\ \/ /\ writer' = "watcher" /\ watcher' = "recording" /\ bot' = bot
               /\ watcher = "woken" /\ bot \in {"running", "ending"}
            \/ /\ writer' = "bot" /\ bot' = "recording" /\ watcher' = watcher
               /\ bot = "unwound"
  BY <1>2 DEF WatcherFinalises, BotFinalises, Finalise, endVars
<1>4. VoiceTypeOK'
  BY <1>1, <1>3 DEF BaseInv, VoiceTypeOK, Roles, walkVars, audioVars
<1>5. Roles'
  BY <1>1, <1>2, <1>3 DEF BaseInv, VoiceTypeOK, Roles
<1>. QED BY <1>4, <1>5 DEF BaseInv

LEMMA BasePersists ==
  ASSUME BaseInv, WatcherPersists \/ BotPersists
  PROVE  BaseInv'
<1>1. /\ writer' = "none" /\ flagged
      /\ \/ row' = verdict /\ lost' = lost
         \/ row' = row /\ lost' = lost \cup {"database"}
      /\ UNCHANGED <<flagged, verdict, walkVars, audioVars, finished, timedOut, behind, caller>>
      /\ \/ watcher = "recording" /\ watcher' = "looking" /\ bot' = bot
         \/ bot = "recording" /\ bot' = "done" /\ watcher' = watcher
  BY DEF WatcherPersists, BotPersists, Persisted, BaseInv, VoiceTypeOK, endVars
<1>2. faults' \in 0..MaxFaults
  BY ConstantFacts DEF WatcherPersists, BotPersists, Persisted, BaseInv, VoiceTypeOK
<1>a. row' \in {"none", "initiated"} \cup Verdicts /\ lost' \subseteq {"database", "cancelled"}
  BY <1>1 DEF BaseInv, VoiceTypeOK
<1>b. /\ bot' \in {"opening", "running", "ending", "unwound", "recording", "done", "dead"}
      /\ watcher' \in {"waiting", "woken", "recording", "looking", "draining", "drained",
                       "expecting", "begun", "listening", "grace", "done", "cancelled"}
  BY <1>1 DEF BaseInv, VoiceTypeOK
<1>3. VoiceTypeOK'
  BY <1>1, <1>2, <1>a, <1>b DEF BaseInv, VoiceTypeOK, walkVars, audioVars
<1>4. Roles'
  BY <1>1, VerdictFacts DEF BaseInv, VoiceTypeOK, Roles
<1>. QED BY <1>3, <1>4 DEF BaseInv

LEMMA BaseWaits == ASSUME BaseInv, Look \/ Drained \/ Begun PROVE BaseInv'
<1>1. /\ speaking' \in BOOLEAN /\ stopped' \in BOOLEAN
      /\ watcher \in {"looking", "drained", "begun"}
      /\ watcher' \in {"draining", "expecting", "grace", "listening"}
      /\ UNCHANGED <<walkVars, lines, playing, ttsFailed, unheard, cut, heard, recordVars, finished,
                     timedOut, bot, caller, faults>>
  BY DEF Look, Drained, Begun, Rearm, BaseInv, VoiceTypeOK, audioVars
<1>2. behind' \in BOOLEAN
  <2>1. (\E i \in 1..Len(lines) : lines[i] = "turn") \in BOOLEAN
    OBVIOUS
  <2>2. behind' = behind \/ behind' = (\E i \in 1..Len(lines) : lines[i] = "turn")
    BY DEF Look, Drained, Begun, Rearm
  <2>. QED BY <2>1, <2>2 DEF BaseInv, VoiceTypeOK
<1>3. VoiceTypeOK'
  BY <1>1, <1>2 DEF BaseInv, VoiceTypeOK, walkVars, recordVars
<1>4. Roles'
  BY <1>1 DEF BaseInv, Roles, recordVars
<1>. QED BY <1>3, <1>4 DEF BaseInv

LEMMA BaseSilence == ASSUME BaseInv, HangsUp \/ CallerHangsUp \/ Dies PROVE BaseInv'
<1>1. Silence
  BY DEF HangsUp, CallerHangsUp, Dies
<1>2. /\ node' \in Nodes /\ rejections' \in 0..(MaxRetries + 1)
      /\ gate' \in BOOLEAN /\ due' \in BOOLEAN /\ knows' \subseteq {"amount"}
      /\ reruns' \in Nat /\ confirmed' \in BOOLEAN /\ asked' \in BOOLEAN
      /\ lines' \in Seq({"turn", "closing"}) /\ playing' \in {"none", "turn", "closing"}
      /\ speaking' \in BOOLEAN /\ stopped' \in BOOLEAN
      /\ ttsFailed' \in BOOLEAN /\ unheard' \in BOOLEAN /\ cut' \in BOOLEAN /\ heard' \in BOOLEAN
  BY <1>1, SilenceKeepsTypes DEF BaseInv
<1>3. CASE HangsUp
  <2>1. timedOut' \in BOOLEAN /\ watcher' = "done" /\ writer # "watcher"
    BY <1>3 DEF HangsUp, BaseInv, Roles
  <2>2. bot' \in {bot, "ending"} /\ (bot' # bot => bot = "running")
    BY <1>3 DEF HangsUp, OnAir
  <2>3. VoiceTypeOK'
    BY <1>2, <1>3, <2>1, <2>2 DEF HangsUp, BaseInv, VoiceTypeOK, recordVars
  <2>4. Roles'
    BY <1>3, <2>1, <2>2 DEF HangsUp, BaseInv, VoiceTypeOK, Roles, recordVars
  <2>. QED BY <2>3, <2>4 DEF BaseInv
<1>4. CASE CallerHangsUp
  <2>1. VoiceTypeOK'
    BY <1>2, <1>4 DEF CallerHangsUp, BaseInv, VoiceTypeOK, recordVars, endVars
  <2>2. Roles'
    BY <1>4 DEF CallerHangsUp, OnAir, BaseInv, VoiceTypeOK, Roles, recordVars, endVars
  <2>. QED BY <2>1, <2>2 DEF BaseInv
<1>5. CASE Dies
  <2>1. faults' \in 0..MaxFaults
    BY <1>5, ConstantFacts DEF Dies, BaseInv, VoiceTypeOK
  <2>2. VoiceTypeOK'
    BY <1>2, <1>5, <2>1 DEF Dies, BaseInv, VoiceTypeOK
  <2>3. Roles'
    BY <1>5 DEF Dies, BaseInv, VoiceTypeOK, Roles
  <2>. QED BY <2>2, <2>3 DEF BaseInv
<1>. QED BY <1>3, <1>4, <1>5

LEMMA BaseUnwinds == ASSUME BaseInv, Unwinds PROVE BaseInv'
<1>1. /\ bot = "ending" /\ bot' = "unwound" /\ writer' = "none" /\ writer # "bot"
      /\ watcher' = (IF watcher = "done" THEN "done" ELSE "cancelled")
      /\ UNCHANGED <<walkVars, audioVars, flagged, verdict, finished, timedOut, behind, caller, faults>>
      /\ \/ row' = row /\ lost' = lost /\ writer = "none"
         \/ row' = verdict /\ lost' = lost /\ writer = "watcher"
         \/ row' = row /\ lost' = lost \cup {"cancelled"} /\ writer = "watcher"
  BY DEF Unwinds, BaseInv, VoiceTypeOK, Roles
<1>a. row' \in {"none", "initiated"} \cup Verdicts /\ lost' \subseteq {"database", "cancelled"}
  BY <1>1 DEF BaseInv, VoiceTypeOK
<1>b. watcher' \in {"waiting", "woken", "recording", "looking", "draining", "drained",
                   "expecting", "begun", "listening", "grace", "done", "cancelled"}
  BY <1>1
<1>2. VoiceTypeOK'
  BY <1>1, <1>a, <1>b DEF BaseInv, VoiceTypeOK, walkVars, audioVars
<1>3. Roles'
  BY <1>1, VerdictFacts DEF BaseInv, VoiceTypeOK, Roles
<1>. QED BY <1>2, <1>3 DEF BaseInv

LEMMA BaseStutter == ASSUME BaseInv, UNCHANGED voiceVars PROVE BaseInv'
BY DEF BaseInv, VoiceTypeOK, Roles, voiceVars, walkVars, audioVars, recordVars, endVars

LEMMA BaseStep == BaseInv /\ [VoiceNext]_voiceVars => BaseInv'
<1>. SUFFICES ASSUME BaseInv, [VoiceNext]_voiceVars PROVE BaseInv'
  OBVIOUS
<1>1. CASE Conversation
  BY <1>1, BaseConnect, BaseCaller, BaseModel, BaseAnnounce DEF Conversation
<1>2. CASE LineStarts \/ LineStops \/ LineFails
  BY <1>2, BaseAudio
<1>3. CASE Watcher
  BY <1>3, BaseFinalises, BasePersists, BaseWaits, BaseSilence DEF Watcher
<1>4. CASE Unwinding
  BY <1>4, BaseUnwinds, BaseFinalises, BasePersists DEF Unwinding
<1>5. CASE CallerHangsUp \/ Dies
  BY <1>5, BaseSilence
<1>6. CASE UNCHANGED voiceVars
  BY <1>6, BaseStutter
<1>. QED BY <1>1, <1>2, <1>3, <1>4, <1>5, <1>6 DEF VoiceNext

\* Every reachable state of a call is well formed, whatever the graph, and who
\* writes an outcome has raised the flag and has a row (finalise, finalise_call).
THEOREM CallTypeCorrect == VoiceSpec => []VoiceTypeOK
<1>1. BaseInv => VoiceTypeOK
  BY DEF BaseInv
<1>. QED BY <1>1, BaseInitially, BaseStep, PTL DEF VoiceSpec

\* finalise leaves a trace: a call that ended has its outcome on its row, or
\* the database failed or the watcher was cancelled while it wrote.
THEOREM CallLeavesOutcome == VoiceSpec => []OutcomeIsRecorded
<1>1. BaseInv => OutcomeIsRecorded
  BY DEF BaseInv, VoiceTypeOK, Roles, OutcomeIsRecorded
<1>. QED BY <1>1, BaseInitially, BaseStep, PTL DEF VoiceSpec

\* finalise runs twice and writes once: no step takes an outcome off a row or
\* puts another in its place.
THEOREM OutcomeWrittenOnce == VoiceSpec => OutcomeIsFinal
<1>1. ASSUME BaseInv, [VoiceNext]_voiceVars, row \in Verdicts
      PROVE  row' = row
  <2>1. row # "initiated" /\ row # "none" /\ writer = "none"
    BY <1>1, VerdictFacts DEF BaseInv, VoiceTypeOK
  <2>. QED
    BY <1>1, <2>1
       DEF VoiceNext, Conversation, Watcher, Unwinding, Connect, CallerSpeaks, ModelAnswers,
           AnnounceEnd, LineStarts, LineStops, LineFails, WatcherFinalises, WatcherPersists,
           Look, Drained, Begun, HangsUp, CallerHangsUp, Unwinds, BotFinalises, BotPersists,
           Dies, Finalise, Persisted, BaseInv, Roles, voiceVars, recordVars
<1>2. BaseInv /\ [VoiceNext]_voiceVars => [(row \in Verdicts) => (row' = row)]_voiceVars
  BY <1>1
<1>. QED BY <1>2, BaseInitially, BaseStep, PTL DEF VoiceSpec, OutcomeIsFinal
-----------------------------------------------------------------------------
(* What is recorded, and what was heard. *)

\* The walker's steps: where a call has ended it stays, and only an accepted
\* label moves it.
LEMMA ModelStays ==
  ASSUME BaseInv, ModelAnswers
  PROVE  /\ node \in Terminals => node' = node
         /\ bot = "running"
         /\ UNCHANGED <<playing, speaking, stopped, ttsFailed, unheard, cut, heard, recordVars,
                       endVars, bot, caller, faults>>
<1>1. \A label \in Labels : Move(label) /\ node \in Terminals => FALSE
  BY FollowFacts DEF Move, BaseInv, VoiceTypeOK
<1>. QED BY <1>1 DEF ModelAnswers, OnAir, Reject, UseTool

LEMMA EndingsStep == BaseInv /\ Endings /\ [VoiceNext]_voiceVars => Endings'
<1>. SUFFICES ASSUME BaseInv, Endings, [VoiceNext]_voiceVars PROVE Endings'
  OBVIOUS
<1>1. CASE ModelAnswers
  BY <1>1, ModelStays DEF Endings, endVars
<1>2. CASE AnnounceEnd
  BY <1>2 DEF AnnounceEnd, Endings, walkVars
<1>3. CASE Connect \/ (\E over \in BOOLEAN : CallerSpeaks(over))
  BY <1>3 DEF Connect, CallerSpeaks, Endings, endVars
<1>4. CASE LineStarts \/ LineStops \/ LineFails
  BY <1>4 DEF LineStarts, LineStops, LineFails, Endings, walkVars, endVars
<1>5. CASE Watcher
  BY <1>5 DEF Watcher, WatcherFinalises, WatcherPersists, Look, Drained, Begun, HangsUp, Rearm,
              Silence, Endings, walkVars, endVars
<1>6. CASE Unwinding
  BY <1>6 DEF Unwinding, Unwinds, BotFinalises, BotPersists, Endings, BaseInv, Roles,
              walkVars, endVars
<1>7. CASE CallerHangsUp \/ Dies
  BY <1>7 DEF CallerHangsUp, Dies, Silence, Endings, endVars
<1>8. CASE UNCHANGED voiceVars
  BY <1>8 DEF voiceVars, walkVars, endVars, Endings
<1>. QED BY <1>1, <1>2, <1>3, <1>4, <1>5, <1>6, <1>7, <1>8 DEF VoiceNext, Conversation

\* A step that neither moves the walker nor mutes the call.
LEMMA TellsLasts ==
  ASSUME NEW v, Tells(v), node' = node, v \in Verdicts => unheard' = unheard
  PROVE  Tells(v)'
BY DEF Tells

LEMMA OutcomeTells == VoiceTypeOK /\ ttsFailed = unheard => Tells(Outcome)
<1>. SUFFICES ASSUME VoiceTypeOK, ttsFailed = unheard PROVE Tells(Outcome)
  OBVIOUS
<1>1. CASE ttsFailed
  <2>1. Outcome = "muted"
    BY <1>1 DEF Outcome
  <2>2. unheard = TRUE
    BY <1>1, Zenon
  <2>. QED BY <2>1, <2>2 DEF Tells
<1>2. CASE ~ttsFailed
  BY <1>2, VerdictFacts DEF VoiceTypeOK, Outcome, Tells
<1>. QED BY <1>1, <1>2

\* Nobody has taken an outcome before the flag is up.
LEMMA TruthfulQuiet ==
  ASSUME BaseInv, Truthful, UNCHANGED <<row, verdict, flagged>>, writer' \in {writer, "none"},
         node' = node, flagged => unheard' = unheard,
         ~flagged => ttsFailed' = unheard',
         bot \in {"recording", "done", "dead"} => bot' \in {"recording", "done", "dead"}
  PROVE  Truthful'
<1>1. ~flagged => row \notin Verdicts /\ writer = "none"
  BY VerdictFacts DEF BaseInv, VoiceTypeOK, Roles
<1>2. Tells(row)' /\ (writer' # "none" => Tells(verdict)')
  BY <1>1, TellsLasts DEF Truthful
<1>. QED BY <1>2 DEF Truthful

LEMMA TruthfulStep ==
  BaseInv /\ Endings /\ Truthful /\ [VoiceNext]_voiceVars => Truthful'
<1>. SUFFICES ASSUME BaseInv, Endings, Truthful, [VoiceNext]_voiceVars PROVE Truthful'
  OBVIOUS
<1>1. CASE ModelAnswers
  <2>1. /\ UNCHANGED <<row, writer, verdict, flagged, ttsFailed, unheard, bot>>
        /\ bot = "running"
    BY <1>1, ModelStays DEF recordVars
  <2>2. row # "unclear" /\ (writer # "none" => verdict # "unclear")
    BY <2>1 DEF Truthful
  <2>3. ASSUME NEW v, Tells(v), v # "unclear" PROVE Tells(v)'
    BY <1>1, <2>1, <2>3, ModelStays DEF Tells
  <2>. QED BY <2>1, <2>2, <2>3 DEF Truthful
<1>2. CASE Connect
  BY <1>2, VerdictFacts DEF Connect, BaseInv, Roles, Truthful, Tells
<1>3. CASE AnnounceEnd \/ (\E over \in BOOLEAN : CallerSpeaks(over))
  BY <1>3, TruthfulQuiet DEF AnnounceEnd, CallerSpeaks, Truthful, walkVars, audioVars, recordVars
<1>4. CASE LineStarts \/ LineStops \/ LineFails
  <2>1. /\ flagged => unheard' = unheard
        /\ ~flagged => ttsFailed' = unheard'
    BY <1>4 DEF LineStarts, LineStops, LineFails, Truthful, BaseInv, VoiceTypeOK
  <2>2. UNCHANGED <<row, verdict, flagged, writer, node, bot>>
    BY <1>4 DEF LineStarts, LineStops, LineFails, walkVars, recordVars
  <2>. QED BY <2>1, <2>2, TruthfulQuiet
<1>5. CASE Look \/ Drained \/ Begun
  BY <1>5, TruthfulQuiet DEF Look, Drained, Begun, Rearm, Truthful, walkVars, audioVars, recordVars
<1>6. CASE HangsUp \/ CallerHangsUp \/ Dies
  BY <1>6, TruthfulQuiet DEF HangsUp, CallerHangsUp, Dies, Silence, OnAir, Truthful, recordVars
<1>7. CASE WatcherFinalises \/ BotFinalises
  <2>1. /\ verdict' = Outcome /\ row' = row /\ node' = node /\ unheard' = unheard
        /\ writer = "none" /\ flagged' /\ (writer' # "none" => ~flagged)
    BY <1>7 DEF WatcherFinalises, BotFinalises, Finalise, BaseInv, VoiceTypeOK, Roles,
                walkVars, audioVars
  <2>2. Tells(row)'
    BY <2>1, TellsLasts DEF Truthful
  <2>a. writer' # "none" => Tells(verdict)'
    BY <2>1, OutcomeTells DEF BaseInv, Truthful, Tells
  <2>3. CASE WatcherFinalises
    <3>1. Outcome # "unclear" /\ bot' = bot
      BY <2>3, VerdictFacts DEF WatcherFinalises, Endings, Outcome
    <3>. QED BY <2>1, <2>2, <2>a, <3>1 DEF Truthful
  <2>4. CASE BotFinalises
    BY <2>1, <2>2, <2>a, <2>4 DEF BotFinalises, Truthful
  <2>. QED BY <1>7, <2>3, <2>4
<1>8. CASE WatcherPersists \/ BotPersists
  <2>1. /\ writer # "none" /\ writer' = "none" /\ row' \in {row, verdict} /\ verdict' = verdict
        /\ node' = node /\ unheard' = unheard /\ (bot' = bot \/ bot' = "done")
        /\ UNCHANGED <<flagged, ttsFailed>>
    BY <1>8 DEF WatcherPersists, BotPersists, Persisted, walkVars, audioVars
  <2>2. Tells(row)'
    BY <2>1, TellsLasts DEF Truthful, Tells
  <2>. QED BY <2>1, <2>2 DEF Truthful
<1>9. CASE Unwinds
  <2>1. /\ bot = "ending"
        /\ row' = row \/ (writer # "none" /\ row' = verdict)
        /\ writer' = "none" \/ writer' = writer
        /\ UNCHANGED <<verdict, node, flagged, ttsFailed, unheard>>
    BY <1>9 DEF Unwinds, walkVars, audioVars
  <2>2. Tells(row)' /\ (writer' # "none" => Tells(verdict)')
    BY <2>1, TellsLasts DEF Truthful, Tells
  <2>. QED BY <2>1, <2>2 DEF Truthful
<1>10. CASE UNCHANGED voiceVars
  BY <1>10, TruthfulQuiet DEF voiceVars, Truthful, walkVars, audioVars, recordVars
<1>. QED BY <1>1, <1>2, <1>3, <1>4, <1>5, <1>6, <1>7, <1>8, <1>9, <1>10
         DEF VoiceNext, Conversation, Watcher, Unwinding

\* finalise reads walker and audio before it writes and both go on, and yet the
\* row tells the call, on any graph: lines that went unheard are on it, and an
\* intent or the lack of one is what the graph came to.
THEOREM RowIsTrue == VoiceSpec => []RowTellsTheCall
<1>1. VoiceInit => Endings /\ Truthful
  BY VerdictFacts DEF VoiceInit, Endings, Truthful, Tells
<1>2. Truthful => RowTellsTheCall
  BY DEF Truthful, Tells, RowTellsTheCall
<1>. QED BY <1>1, <1>2, BaseInitially, BaseStep, EndingsStep, TruthfulStep, PTL DEF VoiceSpec

\* While the watcher waits for a line, the graph has finished, and every line
\* that the model adds is a goodbye.
LEMMA WaitsStep ==
  BaseInv /\ Endings /\ Waits /\ [VoiceNext]_voiceVars => Waits'
<1>. SUFFICES ASSUME BaseInv, Endings, Waits, [VoiceNext]_voiceVars PROVE Waits'
  OBVIOUS
<1>1. CASE ModelAnswers
  <2>1. /\ UNCHANGED <<playing, stopped, heard, cut, watcher, behind, timedOut, bot>>
        /\ lines' = lines \/ lines' = Append(lines, IF node \in Terminals THEN "closing" ELSE "turn")
    BY <1>1 DEF ModelAnswers, Speak, endVars
  <2>2. ASSUME watcher = "expecting", ~behind
        PROVE  \A i \in 1..Len(lines') : lines'[i] = "closing"
    <3>1. node \in Terminals /\ lines \in Seq({"turn", "closing"})
          /\ \A i \in 1..Len(lines) : lines[i] = "closing"
      BY <2>2 DEF Endings, Waits, BaseInv, VoiceTypeOK
    <3>2. CASE lines' = Append(lines, "closing")
      BY <3>1, <3>2
    <3>. QED BY <2>1, <3>1, <3>2
  <2>. QED BY <2>1, <2>2 DEF Waits, Said, OnAir
<1>2. CASE AnnounceEnd
  BY <1>2 DEF AnnounceEnd, Waits, Said, OnAir, audioVars
<1>3. CASE Connect
  BY <1>3 DEF Connect, Waits, Said, BaseInv, Roles, endVars
<1>4. ASSUME NEW over \in BOOLEAN, CallerSpeaks(over) PROVE Waits'
  <2>1. CASE over
    <3>1. /\ lines' = <<>> /\ playing # "none" /\ bot = "running"
          /\ UNCHANGED <<heard, behind, timedOut, bot>>
          /\ watcher' = CASE watcher = "draining" -> "drained"
                            [] watcher = "listening" -> "grace"
                            [] OTHER -> watcher
      BY <1>4, <2>1 DEF CallerSpeaks, OnAir
    <3>2. (cut => cut') /\ (playing = "closing" => cut') /\ stopped'
      BY <1>4, <2>1 DEF CallerSpeaks
    <3>3. CASE watcher = "listening"
      BY <3>1, <3>2, <3>3 DEF Waits, Said, OnAir
    <3>4. CASE watcher = "begun"
      BY <3>1, <3>2, <3>4 DEF Waits, Said, OnAir
    <3>5. CASE watcher \notin {"listening", "begun"}
      BY <3>1, <3>2, <3>5 DEF Waits, Said
    <3>. QED BY <3>3, <3>4, <3>5
  <2>2. CASE ~over
    BY <1>4, <2>2 DEF CallerSpeaks, Waits, Said, OnAir
  <2>. QED BY <2>1, <2>2
<1>5. CASE LineStarts
  <2>1. lines # <<>> /\ Len(lines) >= 1 /\ Head(lines) = lines[1]
        /\ \A i \in 1..Len(Tail(lines)) : Tail(lines)[i] = lines[i + 1] /\ i + 1 \in 1..Len(lines)
    BY <1>5, HeadTailProperties DEF LineStarts, BaseInv, VoiceTypeOK
  <2>2. /\ playing = "none" /\ playing' = lines[1] /\ lines' = Tail(lines) /\ ~stopped'
        /\ bot = "running"
        /\ UNCHANGED <<heard, cut, behind, timedOut, bot>>
        /\ watcher' = IF watcher = "expecting" THEN "begun" ELSE watcher
    BY <1>5, <2>1 DEF LineStarts, OnAir
  <2>3. CASE watcher = "expecting"
    <3>1. ~behind => lines[1] = "closing"
      BY <2>1, <2>3 DEF Waits
    <3>. QED BY <2>2, <2>3, <3>1 DEF Waits, OnAir
  <2>4. CASE watcher # "expecting"
    BY <2>2, <2>4 DEF Waits, Said, OnAir
  <2>. QED BY <2>3, <2>4
<1>6. CASE LineStops
  BY <1>6 DEF LineStops, Waits, Said, OnAir
<1>7. CASE LineFails
  <2>1. lines # <<>>
        /\ \A i \in 1..Len(Tail(lines)) : Tail(lines)[i] = lines[i + 1] /\ i + 1 \in 1..Len(lines)
    BY <1>7, HeadTailProperties DEF LineFails, BaseInv, VoiceTypeOK
  <2>2. /\ lines' = Tail(lines) /\ (cut => cut')
        /\ UNCHANGED <<playing, stopped, heard, watcher, behind, timedOut, bot>>
    BY <1>7 DEF LineFails, endVars
  <2>. QED BY <2>1, <2>2 DEF Waits, Said, OnAir
<1>8. CASE WatcherFinalises \/ WatcherPersists
  BY <1>8 DEF WatcherFinalises, WatcherPersists, Waits
<1>9. CASE Look \/ Drained
  <2>1. watcher' = "expecting" =>
          /\ lines' = lines /\ behind' = \E i \in 1..Len(lines) : lines[i] = "turn"
          /\ lines \in Seq({"turn", "closing"})
    BY <1>9 DEF Look, Drained, Rearm, BaseInv, VoiceTypeOK
  <2>2. watcher' \in {"draining", "expecting"}
    BY <1>9 DEF Look, Drained, Rearm
  <2>3. ASSUME watcher' = "expecting", ~behind', NEW i \in 1..Len(lines')
        PROVE  lines'[i] = "closing"
    BY <2>1, <2>3
  <2>4. watcher' = "expecting" /\ ~behind' => \A i \in 1..Len(lines') : lines'[i] = "closing"
    BY <2>3
  <2>. QED BY <2>2, <2>4 DEF Waits
<1>10. CASE Begun
  BY <1>10 DEF Begun, Waits, Said, OnAir, audioVars
<1>11. CASE HangsUp
  BY <1>11 DEF HangsUp, Silence, Waits, Said
<1>12. CASE CallerHangsUp
  BY <1>12 DEF CallerHangsUp, Silence, Waits, Said, OnAir, endVars
<1>13. CASE Dies \/ Unwinds
  <2>1. watcher' \in {"done", "cancelled"} /\ (watcher' = "done" => watcher = "done")
    BY <1>13 DEF Dies, Unwinds
  <2>2. UNCHANGED <<heard, cut, behind, timedOut>>
    BY <1>13 DEF Dies, Unwinds, Silence, audioVars
  <2>. QED BY <2>1, <2>2 DEF Waits, Said
<1>14. CASE BotFinalises \/ BotPersists
  BY <1>14 DEF BotFinalises, BotPersists, Waits, Said, BaseInv, Roles, OnAir, audioVars, endVars
<1>15. CASE UNCHANGED voiceVars
  BY <1>15 DEF voiceVars, audioVars, endVars, Waits, Said, OnAir
<1>. QED BY <1>1, <1>2, <1>3, <1>4, <1>5, <1>6, <1>7, <1>8, <1>9, <1>10, <1>11, <1>12, <1>13,
            <1>14, <1>15
         DEF VoiceNext, Conversation, Watcher, Unwinding

\* _let_the_closing_line_finish, for any number of lines on their way: unless
\* it ran out of time, the line it waited for was the goodbye.
THEOREM GoodbyeComesThrough == VoiceSpec => []GoodbyeIsHeard
<1>1. VoiceInit => Endings /\ Waits
  BY DEF VoiceInit, Endings, Waits
<1>2. Waits => GoodbyeIsHeard
  BY DEF Waits, Said, GoodbyeIsHeard
<1>. QED BY <1>1, <1>2, BaseInitially, BaseStep, EndingsStep, WaitsStep, PTL DEF VoiceSpec
-----------------------------------------------------------------------------
(* Identity before the amount. *)

\* The stages of a graph that can be reached without "identity_confirmed" say
\* no amount.
Guards(before, edges, start, amounts) ==
  /\ start \in before /\ before \cap amounts = {}
  /\ \A e \in edges :
       e.from \in before /\ e.label # "identity_confirmed" => e.to \in before

\* On a graph that guards its amounts the model hears the amount only once the
\* label was accepted, or from a tool (on_transition, _stage_message).
THEOREM IdentityComesFirst ==
  ASSUME NEW before, Guards(before, Edges, Start, AmountStages)
  PROVE  VoiceSpec => []AmountFollowsIdentity
<1>. DEFINE Inv == /\ confirmed \/ node \in before
                   /\ AmountFollowsIdentity
<1>1. VoiceInit => Inv
  BY DEF VoiceInit, AmountFollowsIdentity, Guards
<1>2. Inv /\ [VoiceNext]_voiceVars => Inv'
  <2>. SUFFICES ASSUME Inv, [VoiceNext]_voiceVars PROVE Inv'
    OBVIOUS
  <2>1. ASSUME NEW label \in Labels, Move(label) PROVE Inv'
    <3>1. PICK e \in Edges : e.from = node /\ e.label = label /\ e.to = node'
      BY <2>1 DEF Move, Follow, Options
    <3>2. confirmed' \/ node' \in before
      BY <2>1, <3>1 DEF Move, Guards
    <3>3. (confirmed => confirmed') /\ asked' = asked
      BY <2>1 DEF Move
    <3>4. knows' = knows \/ node' \in AmountStages
      BY <2>1 DEF Move
    <3>. QED BY <3>2, <3>3, <3>4 DEF AmountFollowsIdentity, Guards
  <2>2. ASSUME NEW label \in Labels, Reject(label) PROVE Inv'
    BY <2>2 DEF Reject, AmountFollowsIdentity
  <2>3. CASE UseTool
    BY <2>3 DEF UseTool, AmountFollowsIdentity
  <2>4. CASE UNCHANGED <<node, knows, confirmed, asked>>
    BY <2>4 DEF AmountFollowsIdentity
  <2>5. CASE ModelAnswers
    BY <2>1, <2>2, <2>3, <2>4, <2>5 DEF ModelAnswers
  <2>. QED
    BY <2>4, <2>5
       DEF VoiceNext, Conversation, Watcher, Unwinding, Connect, CallerSpeaks, AnnounceEnd,
           LineStarts, LineStops, LineFails, WatcherFinalises, WatcherPersists, Look, Drained,
           Begun, HangsUp, CallerHangsUp, Unwinds, BotFinalises, BotPersists, Dies, Silence,
           voiceVars, walkVars
<1>. QED BY <1>1, <1>2, PTL DEF VoiceSpec

\* DUNNING_FLOW is such a graph: without the label a call gets no further than
\* the greeting and the wrong number.
THEOREM DunningFlowGuards ==
  Guards({"greet", "wrong_number"}, FlowEdges, "greet", FlowAmount)
BY DEF Guards, FlowEdges, Opening, Explaining, AskingWhy, AskingIntent, Edge, FlowAmount
-----------------------------------------------------------------------------
(***************************************************************************)
(* The agent does not talk to itself for ever.  A graph with a cycle could *)
(* have it go round without the caller; the code rejects edges from a node *)
(* to itself and no other cycle, so that being in layers is an assumption. *)
(***************************************************************************)
Layers(depth, nodes, edges, endings) ==
  /\ depth \in [nodes -> 0..Cardinality(nodes \ endings)]
  /\ \A e \in edges : depth[e.from] < depth[e.to]

\* Refusals in a row for which the model was asked again.
Retries == IF rejections <= MaxRetries THEN rejections ELSE MaxRetries

LEMMA TimesNext ==
  ASSUME NEW r \in Nat, NEW a \in Nat, NEW b \in Nat, a < b
  PROVE  r * a + r <= r * b
<1>1. PICK k \in Nat : b = a + 1 + k
  <2>. WITNESS b - a - 1 \in Nat
  <2>. QED OBVIOUS
<1>2. r * b = r * a + r + r * k
  BY <1>1
<1>3. r * k \in Nat /\ r * a \in Nat
  OBVIOUS
<1>. QED BY <1>2, <1>3

\* From one word of the caller to the next every run of the model belongs to an
\* edge that was followed or to a refusal since, and each layer costs at most
\* MaxRetries + 1 runs: the refusals there, and the edge that leaves it.
THEOREM SelfTalkEnds ==
  ASSUME NEW depth, Layers(depth, Nodes, Edges, Terminals)
  PROVE  VoiceSpec => []SelfTalkIsBounded
<1>. DEFINE Paid == reruns <= (MaxRetries + 1) * depth[node] + Retries
            Inv == BaseInv /\ Paid
            stages == Cardinality(Nodes \ Terminals)
<1>1. stages \in Nat
  BY GraphIsValid, FS_Difference, FS_CardinalityType DEF validate
<1>2. \A n \in Nodes : depth[n] \in Nat /\ depth[n] <= stages
  BY <1>1 DEF Layers
<1>3. ASSUME BaseInv PROVE Retries \in 0..MaxRetries /\ reruns \in Nat /\ node \in Nodes
  BY <1>3, ConstantFacts DEF Retries, BaseInv, VoiceTypeOK
<1>4. ASSUME NEW n \in Nodes PROVE (MaxRetries + 1) * depth[n] \in Nat
  BY <1>2, ConstantFacts
<1>. HIDE DEF stages
<1>5. Inv => SelfTalkIsBounded
  <2>. SUFFICES ASSUME Inv PROVE SelfTalkIsBounded
    OBVIOUS
  <2>1. (MaxRetries + 1) * depth[node] <= (MaxRetries + 1) * stages
    <3>1. CASE depth[node] = stages
      BY <1>1, <3>1, ConstantFacts
    <3>2. CASE depth[node] < stages
      BY <1>1, <1>2, <1>3, <3>2, TimesNext, ConstantFacts
    <3>. QED BY <1>1, <1>2, <1>3, <3>1, <3>2
  <2>2. (MaxRetries + 1) * stages \in Nat /\ (MaxRetries + 1) * depth[node] \in Nat
    BY <1>1, <1>3, <1>4, ConstantFacts
  <2>. QED BY <1>3, <2>1, <2>2, ConstantFacts DEF SelfTalkIsBounded, stages
<1>6. VoiceInit => Inv
  <2>. SUFFICES ASSUME VoiceInit PROVE Inv
    OBVIOUS
  <2>1. BaseInv /\ reruns = 0
    BY BaseInitially DEF VoiceInit
  <2>. QED BY <2>1, <1>3, <1>4
<1>7. Inv /\ [VoiceNext]_voiceVars => Inv'
  <2>. SUFFICES ASSUME Inv, [VoiceNext]_voiceVars PROVE Inv'
    OBVIOUS
  <2>1. BaseInv'
    BY BaseStep
  <2>2. CASE UNCHANGED <<node, rejections>> /\ reruns' \in {0, reruns}
    <3>1. UNCHANGED <<Retries, node>>
      BY <2>2 DEF Retries
    <3>. QED BY <1>3, <1>4, <2>1, <2>2, <3>1
  <2>3. ASSUME NEW label \in Labels, Move(label) PROVE Inv'
    <3>1. PICK e \in Edges : e.from = node /\ e.to = node'
      BY <2>3 DEF Move, Follow, Options
    <3>2. rejections' = 0 /\ reruns' = reruns + 1
      BY <2>3 DEF Move
    <3>3. Retries' = 0 /\ Retries <= MaxRetries
      BY <1>3, <3>2, ConstantFacts DEF Retries
    <3>4. node' \in Nodes
      BY <2>1 DEF BaseInv, VoiceTypeOK
    <3>5. (MaxRetries + 1) * depth[node] + (MaxRetries + 1) <= (MaxRetries + 1) * depth[node']
      BY <1>2, <1>3, <3>1, <3>4, TimesNext, ConstantFacts DEF Layers
    <3>. QED BY <1>3, <1>4, <2>1, <3>2, <3>3, <3>4, <3>5, ConstantFacts
  <2>4. ASSUME NEW label \in Labels, Reject(label) PROVE Inv'
    <3>1. CASE rejections + 1 <= MaxRetries
      <4>1. rejections' = rejections + 1 /\ rejections' <= MaxRetries
        BY <2>4, <3>1, ConstantFacts DEF Reject, BaseInv, VoiceTypeOK
      <4>2. reruns' = reruns + 1 /\ node' = node /\ rejections' = rejections + 1
        BY <2>4, <4>1, Zenon DEF Reject
      <4>3. Retries' = Retries + 1
        BY <3>1, <4>2, ConstantFacts DEF Retries, BaseInv, VoiceTypeOK
      <4>. QED BY <1>3, <1>4, <2>1, <4>2, <4>3
    <3>2. CASE ~(rejections + 1 <= MaxRetries)
      <4>1. ~(rejections' <= MaxRetries)
        BY <2>4, <3>2, ConstantFacts DEF Reject, BaseInv, VoiceTypeOK
      <4>2. reruns' = reruns /\ node' = node
        BY <2>4, <4>1, Zenon DEF Reject
      <4>3. Retries <= Retries' /\ Retries' \in Nat
        BY <2>4, <3>2, ConstantFacts DEF Reject, Retries, BaseInv, VoiceTypeOK
      <4>. QED BY <1>3, <1>4, <2>1, <4>2, <4>3
    <3>. QED BY <3>1, <3>2
  <2>5. CASE ModelAnswers
    <3>1. CASE \E label \in Labels : Move(label) \/ Reject(label)
      BY <2>3, <2>4, <3>1
    <3>2. CASE UNCHANGED <<node, rejections, reruns>>
      BY <2>2, <3>2
    <3>. QED BY <2>5, <3>1, <3>2 DEF ModelAnswers, UseTool
  <2>. QED
    BY <2>2, <2>5
       DEF VoiceNext, Conversation, Watcher, Unwinding, Connect, CallerSpeaks, AnnounceEnd,
           LineStarts, LineStops, LineFails, WatcherFinalises, WatcherPersists, Look, Drained,
           Begun, HangsUp, CallerHangsUp, Unwinds, BotFinalises, BotPersists, Dies, Silence,
           voiceVars, walkVars
<1>. QED BY <1>5, <1>6, <1>7, PTL DEF VoiceSpec

\* DUNNING_FLOW is in layers: whatever the caller says or does not say, it goes
\* from the greeting to an ending and never back.
THEOREM DunningFlowIsLayered ==
  \E depth : Layers(depth, FlowNodes, FlowEdges, DOMAIN FlowIntent)
<1>. DEFINE depth == [n \in FlowNodes |->
                        CASE n = "greet" -> 0 [] n = "explain" -> 1
                          [] n = "reason_inquiry" -> 2 [] n = "ask_intent" -> 3
                          [] OTHER -> 4]
            open == {"greet", "explain", "reason_inquiry", "ask_intent"}
<1>1. FlowNodes \ DOMAIN FlowIntent = open
  BY DEF FlowNodes, FlowIntent
<1>2. Cardinality(open) = 4
  <2>1. Cardinality({"greet"}) = 1 /\ IsFiniteSet({"greet"})
    BY FS_Singleton
  <2>2. /\ IsFiniteSet({"greet"} \cup {"explain"})
        /\ Cardinality({"greet"} \cup {"explain"}) = 2
    BY <2>1, FS_AddElement
  <2>3. /\ IsFiniteSet({"greet"} \cup {"explain"} \cup {"reason_inquiry"})
        /\ Cardinality({"greet"} \cup {"explain"} \cup {"reason_inquiry"}) = 3
    BY <2>2, FS_AddElement
  <2>4. Cardinality({"greet"} \cup {"explain"} \cup {"reason_inquiry"} \cup {"ask_intent"}) = 4
    BY <2>3, FS_AddElement
  <2>5. open = {"greet"} \cup {"explain"} \cup {"reason_inquiry"} \cup {"ask_intent"}
    OBVIOUS
  <2>. QED BY <2>4, <2>5
<1>3. depth \in [FlowNodes -> 0..4]
  OBVIOUS
<1>4. ASSUME NEW e \in FlowEdges PROVE depth[e.from] < depth[e.to]
  BY DEF FlowEdges, Opening, Explaining, AskingWhy, AskingIntent, Edge, FlowNodes, FlowIntent
<1>5. Layers(depth, FlowNodes, FlowEdges, DOMAIN FlowIntent)
  BY <1>1, <1>2, <1>3, <1>4 DEF Layers
<1>. QED BY <1>5
-----------------------------------------------------------------------------
(* The LiveKit agent. *)

\* What is written, or about to be, is the ending the graph stands at; whoever
\* has raised the flag has a write under way, or had one.
Kept ==
  /\ stage \in Nodes
  /\ writing # "none" => stage \in Terminals /\ writing = Intent[stage]
  /\ record \notin {"none", "initiated"} => stage \in Terminals /\ record = Intent[stage]
  /\ leaving # {} => saved
  /\ session = "closed" => saved \/ dropped
  /\ session = "none" => record = "none" /\ writing = "none" /\ ~saved
  /\ saved /\ writing = "none" /\ record = "initiated" => dropped

LEMMA KeptStep == Kept /\ [LiveKitNext]_liveKitVars => Kept'
<1>. SUFFICES ASSUME Kept, [LiveKitNext]_liveKitVars PROVE Kept'
  OBVIOUS
<1>1. CASE StartSession
  BY <1>1 DEF StartSession, Kept
<1>2. ASSUME NEW label \in Labels, Transition(label) PROVE Kept'
  <2>1. stage \notin Terminals /\ stage' \in Nodes
    BY <1>2, FollowFacts DEF Transition, Kept
  <2>. QED BY <1>2, <2>1 DEF Transition, Kept
<1>3. ASSUME NEW n \in Nodes, Enter(n) PROVE Kept'
  <2>1. CASE stage \notin Terminals
    BY <1>3, <2>1 DEF Enter, Kept
  <2>2. CASE stage \in Terminals
    <3>1. Intent[stage] # "none"
      BY <2>2, IntentsAreEndings
    <3>. QED BY <1>3, <2>2, <3>1 DEF Enter, Kept
  <2>. QED BY <2>1, <2>2
<1>4. CASE Saves
  BY <1>4, IntentsAreEndings DEF Saves, Kept
<1>5. CASE Close
  BY <1>5 DEF Close, Kept
<1>6. CASE CallerLeaves
  BY <1>6 DEF CallerLeaves, Kept
<1>7. CASE UNCHANGED liveKitVars
  BY <1>7 DEF liveKitVars, Kept
<1>. QED BY <1>1, <1>2, <1>3, <1>4, <1>5, <1>6, <1>7 DEF LiveKitNext

\* However many on_enter overlap, the outcome of a call the agent closed is on
\* its row or on the way there, and it is the ending the graph reached.
THEOREM LiveKitEndsOnRecord == LiveKitSpec => []LiveKitKeepsEndings
<1>1. LiveKitInit => Kept
  BY ConstantFacts DEF LiveKitInit, Kept
<1>2. Kept => LiveKitKeepsEndings
  BY DEF Kept, LiveKitKeepsEndings
<1>. QED BY <1>1, <1>2, KeptStep, PTL DEF LiveKitSpec
-----------------------------------------------------------------------------
(* The call as a whole: its parts, and the debt on its way to the agent. *)

\* What is on the wire: until the agent reads it, the body of the debt as its
\* channel carries it, or nothing if a handshake lost it.
OnTheWire ==
  phase \in {"ringing", "connected"} =>
    \/ /\ debt \in Debts /\ channel = "twilio"
       /\ wire \in {Nobody, StreamParameters(Body(debt))}
    \/ debt \in Debts /\ channel = "livekit" /\ wire = Body(debt)
    \/ debt = NoDebt /\ wire = Nobody

HandoffInv == OnTheWire /\ CaseArrivesWhole

\* Every debt the agent may be told of.
AllDebts == (Debts \cup {DemoDebt}) \ {NoDebt}

LEMMA DebtFacts ==
  ASSUME NEW d \in AllDebts
  PROVE  d.id \in Nat /\ d.paise \in Nat /\ d.halted \in BOOLEAN
BY HandoffAssumption DEF AllDebts

Keys == {"recovery_case_id", "customer_name", "preferred_language", "amount_spoken",
         "amount_paise", "failure_reason", "suggested_route"}

\* What every body of a debt carries, whatever became of its flag.
Carries(body, d) ==
  /\ Keys \subseteq DOMAIN body
  /\ \A k \in Keys : body[k][2] = Body(d)[k][2]
  /\ body.recovery_case_id # Null

LEMMA BodyFields ==
  ASSUME NEW d
  PROVE  /\ DOMAIN Body(d) = Keys \cup {"subscription_halted"}
         /\ Body(d).recovery_case_id = <<"int", d.id>>
         /\ Body(d).customer_name = <<"str", IF d.name = "none" THEN "there" ELSE d.name>>
         /\ Body(d).preferred_language = <<"str", d.language>>
         /\ Body(d).amount_spoken = <<"str", SpokenRupees(d.paise)>>
         /\ Body(d).amount_paise = <<"int", d.paise>>
         /\ Body(d).failure_reason = <<"str", SpokenReason(d.reason)>>
         /\ Body(d).suggested_route = <<"str", Route(d.reason, d.halted)>>
BY DEF Body, Keys

LEMMA FlagField ==
  ASSUME NEW d
  PROVE  /\ "subscription_halted" \in DOMAIN Body(d)
         /\ Body(d).subscription_halted = <<"bool", d.halted>>
BY DEF Body

LEMMA SecondOf == ASSUME NEW t, NEW x PROVE <<t, x>>[2] = x
OBVIOUS

\* Neither a number nor a string is null or a flag.
LEMMA KindsDiffer ==
  ASSUME NEW t \in {"int", "str"}, NEW x
  PROVE  <<t, x>> \notin {Null, <<"bool", FALSE>>, <<"bool", TRUE>>}
<1>1. <<t, x>>[1] = t /\ Null[1] = "null"
  BY DEF Null
<1>2. <<"bool", FALSE>>[1] = "bool" /\ <<"bool", TRUE>>[1] = "bool"
  OBVIOUS
<1>. QED BY <1>1, <1>2

LEMMA KeysAreKept ==
  ASSUME NEW d, NEW k \in Keys
  PROVE  Body(d)[k] \notin {Null, <<"bool", FALSE>>, <<"bool", TRUE>>}
<1>1. PICK t \in {"int", "str"} : \E x : Body(d)[k] = <<t, x>>
  BY BodyFields DEF Keys
<1>. QED BY <1>1, KindsDiffer

LEMMA CarriedIsRead ==
  ASSUME NEW d \in AllDebts, NEW body, Carries(body, d),
         Truthy(Get(body, "subscription_halted", Null)) = d.halted
  PROVE  Context(body) = Facts(d)
<1>1. \A k \in Keys : k \in DOMAIN body /\ body[k][2] = Body(d)[k][2]
  BY DEF Carries
<1>2. \A x : \A k \in Keys : Get(body, k, x) = body[k]
  BY <1>1 DEF Get
<1>3. CaseId(Get(body, "recovery_case_id", Null)) = <<"int", d.id>>
  <2>1. Get(body, "recovery_case_id", Null) = body.recovery_case_id
    BY <1>2 DEF Keys
  <2>2. body.recovery_case_id[2] = d.id /\ body.recovery_case_id # Null
    BY <1>1, BodyFields DEF Carries, Keys
  <2>. QED BY <2>1, <2>2 DEF CaseId
<1>4. /\ Get(body, "customer_name", <<"str", "there">>)[2]
           = IF d.name = "none" THEN "there" ELSE d.name
      /\ Get(body, "preferred_language", <<"str", "hi">>)[2] = d.language
      /\ Get(body, "amount_paise", <<"int", 0>>)[2] = d.paise
      /\ "amount_spoken" \in DOMAIN body /\ body.amount_spoken[2] = SpokenRupees(d.paise)
      /\ Get(body, "failure_reason", <<"str", "did_not_complete">>)[2] = SpokenReason(d.reason)
      /\ Get(body, "suggested_route", Null)[2] = Route(d.reason, d.halted)
  <2>1. /\ Get(body, "customer_name", <<"str", "there">>)[2] = Body(d).customer_name[2]
        /\ Get(body, "preferred_language", <<"str", "hi">>)[2] = Body(d).preferred_language[2]
        /\ Get(body, "amount_paise", <<"int", 0>>)[2] = Body(d).amount_paise[2]
        /\ "amount_spoken" \in DOMAIN body /\ body.amount_spoken[2] = Body(d).amount_spoken[2]
        /\ Get(body, "failure_reason", <<"str", "did_not_complete">>)[2]
             = Body(d).failure_reason[2]
        /\ Get(body, "suggested_route", Null)[2] = Body(d).suggested_route[2]
    BY <1>1, <1>2 DEF Keys
  <2>2. Body(d).customer_name[2] = IF d.name = "none" THEN "there" ELSE d.name
    BY DEF Body
  <2>3. /\ Body(d).preferred_language[2] = d.language
        /\ Body(d).amount_paise[2] = d.paise
        /\ Body(d).amount_spoken[2] = SpokenRupees(d.paise)
        /\ Body(d).failure_reason[2] = SpokenReason(d.reason)
        /\ Body(d).suggested_route[2] = Route(d.reason, d.halted)
    BY BodyFields
  <2>. QED BY <2>1, <2>2, <2>3, Zenon
<1>. QED BY <1>3, <1>4, Zenon DEF Context, Facts

LEMMA FlagIsRead ==
  ASSUME NEW halted \in BOOLEAN
  PROVE  /\ Truthy(<<"bool", halted>>) = halted
         /\ Truthy(<<"str", 1>>) = TRUE
         /\ Truthy(Null) = FALSE
<1>1. Truthy(<<"bool", halted>>) = halted
  BY Zenon DEF Truthy
<1>2. Truthy(<<"str", 1>>) = TRUE
  BY DEF Truthy
<1>3. Truthy(Null) = FALSE
  BY DEF Truthy, Null
<1>. QED BY <1>1, <1>2, <1>3, Zenon

\* A body is read back as the facts it was written from.
LEMMA BodyIsRead ==
  ASSUME NEW d \in AllDebts
  PROVE  Context(Body(d)) = Facts(d) /\ LiveKitContext(Body(d)) = Facts(d)
<1>. DEFINE found == Get(Body(d), "subscription_halted", <<"bool", FALSE>>)
<1>1. Body(d).recovery_case_id \notin {Null, <<"bool", FALSE>>, <<"bool", TRUE>>}
  BY KeysAreKept DEF Keys
<1>2. Carries(Body(d), d)
  BY <1>1, BodyFields DEF Carries
<1>3. Get(Body(d), "subscription_halted", Null) = <<"bool", d.halted>> /\ found = <<"bool", d.halted>>
  BY FlagField, Zenon DEF Get
<1>4. Truthy(<<"bool", d.halted>>) = d.halted
  BY DebtFacts, FlagIsRead
<1>5. Context(Body(d)) = Facts(d)
  BY <1>2, <1>3, <1>4, CarriedIsRead
<1>6. Get(Body(d), "recovery_case_id", Null) = <<"int", d.id>>
  <2>1. "recovery_case_id" \in DOMAIN Body(d)
    BY BodyFields DEF Keys
  <2>. QED BY <2>1, BodyFields DEF Get
<1>7. found[2] = d.halted
  <2>. HIDE DEF found
  <2>. QED BY <1>3, SecondOf, Zenon
<1>. DEFINE facts == Facts(d)
<1>8. facts.id = <<"int", d.id>> /\ facts = [f \in DOMAIN facts |-> facts[f]]
  BY DEF Facts
<1>9. facts.halted = d.halted
  BY Zenon DEF Facts
<1>. HIDE DEF facts
<1>10. [facts EXCEPT !.id = <<"int", d.id>>, !.halted = d.halted] = facts
  BY <1>8, <1>9
<1>. QED BY <1>5, <1>6, <1>7, <1>10, Zenon DEF LiveKitContext, facts

\* So it is after a telephone network made strings of it.
LEMMA StringsAreRead ==
  ASSUME NEW d \in AllDebts
  PROVE  Context(StreamParameters(Body(d))) = Facts(d)
<1>. DEFINE sent == StreamParameters(Body(d))
<1>1. \A k \in Keys : k \in DOMAIN sent /\ sent[k] = <<"str", Body(d)[k][2]>>
  BY KeysAreKept, BodyFields, Zenon DEF StreamParameters
<1>2. sent.recovery_case_id \notin {Null, <<"bool", FALSE>>, <<"bool", TRUE>>}
  <2>1. sent.recovery_case_id = <<"str", Body(d).recovery_case_id[2]>>
    BY <1>1 DEF Keys
  <2>. HIDE DEF sent
  <2>. QED BY <2>1, KindsDiffer, Zenon
<1>3. Carries(sent, d)
  <2>1. \A k \in Keys : sent[k][2] = Body(d)[k][2]
    <3>. HIDE DEF sent
    <3>. QED BY <1>1, SecondOf
  <2>. QED BY <1>1, <1>2, <2>1 DEF Carries
<1>4. Truthy(Get(sent, "subscription_halted", Null)) = d.halted
  <2>. DEFINE flag == Body(d).subscription_halted
  <2>1. CASE d.halted = TRUE
    <3>1. flag = <<"bool", TRUE>>
      BY <2>1, FlagField, Zenon
    <3>2. flag \notin {Null, <<"bool", FALSE>>}
      BY <3>1 DEF Null
    <3>3. "subscription_halted" \in DOMAIN sent /\ sent.subscription_halted = <<"str", 1>>
      <4>1. "subscription_halted" \in DOMAIN Body(d)
        BY FlagField
      <4>. QED BY <3>1, <3>2, <4>1, Zenon DEF StreamParameters
    <3>. QED BY <2>1, <3>3, FlagIsRead, Zenon DEF Get
  <2>2. CASE d.halted = FALSE
    <3>1. flag = <<"bool", FALSE>>
      BY <2>2, FlagField, Zenon
    <3>2. "subscription_halted" \notin DOMAIN sent
      BY <3>1, Zenon DEF StreamParameters
    <3>3. Get(sent, "subscription_halted", Null) = Null
      BY <3>2, Zenon DEF Get
    <3>. QED BY <2>2, <3>3, FlagIsRead, Zenon
  <2>. QED BY <2>1, <2>2, DebtFacts
<1>. QED BY <1>3, <1>4, CarriedIsRead

LEMMA BodiesAreSomebody ==
  ASSUME NEW d \in AllDebts
  PROVE  Body(d) # Nobody /\ StreamParameters(Body(d)) # Nobody
<1>1. "recovery_case_id" \in Keys /\ "recovery_case_id" \in DOMAIN Body(d)
  BY BodyFields DEF Keys
<1>2. "recovery_case_id" \in DOMAIN StreamParameters(Body(d))
  BY <1>1, KeysAreKept, Zenon DEF StreamParameters
<1>3. DOMAIN Nobody = {}
  BY DEF Nobody
<1>. QED BY <1>1, <1>2, <1>3, Zenon

LEMMA Hundreds ==
  ASSUME NEW n \in Nat
  PROVE  n \div 100 \in Nat /\ (n % 100 = 0 => 100 * (n \div 100) = n)
BY SMTT(30)

\* The amount in words is the amount in figures, unless it has paise.
LEMMA RoundAmountsPass ==
  ASSUME NEW context, context.paise \in Nat, context.spoken = SpokenRupees(context.paise),
         RailObjects(context)
  PROVE  context.paise % 100 # 0
<1>1. ASSUME context.paise % 100 = 0 PROVE FALSE
  <2>1. context.spoken = context.paise \div 100 + 0
    BY <1>1, Zenon DEF SpokenRupees
  <2>2. context.spoken = context.paise \div 100
    BY <2>1, Hundreds
  <2>3. 100 * context.spoken = context.paise
    BY <1>1, <2>2, Hundreds
  <2>. QED BY <2>3 DEF RailObjects
<1>. QED BY <1>1

LEMMA HandoffInitially == HandoffInit => HandoffInv
BY DEF HandoffInit, HandoffInv, OnTheWire, CaseArrivesWhole

LEMMA DialKeeps ==
  ASSUME HandoffInv, NEW d \in Debts, NEW via \in {"twilio", "livekit"}, Dial(d, via)
  PROVE  HandoffInv'
<1>1. d # NoDebt /\ d \in AllDebts
  BY HandoffAssumption DEF AllDebts
<1>2. phase' # "told"
  BY DEF Dial
<1>3. OnTheWire'
  BY <1>1 DEF Dial, OnTheWire
<1>. QED BY <1>2, <1>3 DEF HandoffInv, CaseArrivesWhole

LEMMA AnsweredKeeps == ASSUME HandoffInv, Answered PROVE HandoffInv'
<1>1. OnTheWire' /\ phase' # "told"
  BY DEF Answered, HandoffInv, OnTheWire
<1>. QED BY <1>1 DEF HandoffInv, CaseArrivesWhole

\* What the agent can have been told.
LEMMA ToldOfACase ==
  ASSUME NEW d \in AllDebts, told' = Facts(d)
  PROVE  (/\ told.id # Null => \E e \in AllDebts : told = Facts(e)
          /\ RailObjects(told) => told.paise % 100 # 0)'
<1>1. Facts(d).paise \in Nat /\ Facts(d).spoken = SpokenRupees(Facts(d).paise)
  <2>1. Facts(d).paise = d.paise /\ Facts(d).spoken = SpokenRupees(d.paise)
    BY Zenon DEF Facts
  <2>. QED BY <2>1, DebtFacts
<1>. QED BY <1>1, RoundAmountsPass

Sample == Context(SampleBody)

LEMMA ContextFields ==
  ASSUME NEW body
  PROVE  /\ Context(body).id = CaseId(Get(body, "recovery_case_id", Null))
         /\ Context(body).paise = Get(body, "amount_paise", <<"int", 0>>)[2]
         /\ "amount_spoken" \notin DOMAIN body =>
              Context(body).spoken = SpokenRupees(Context(body).paise)
         /\ Context(body).halted = Truthy(Get(body, "subscription_halted", Null))
BY DEF Context

LEMMA SampleFacts ==
  /\ LiveKitContext(SampleBody) = Sample
  /\ Sample.id = Null /\ Sample.paise = 49900 /\ Sample.spoken = SpokenRupees(49900)
<1>1. /\ DOMAIN SampleBody = {"customer_name", "amount_paise", "failure_reason",
                              "preferred_language"}
      /\ SampleBody.amount_paise = <<"int", 49900>>
  BY DEF SampleBody
<1>2. /\ "recovery_case_id" \notin DOMAIN SampleBody /\ "amount_spoken" \notin DOMAIN SampleBody
      /\ "subscription_halted" \notin DOMAIN SampleBody /\ "amount_paise" \in DOMAIN SampleBody
  BY <1>1
<1>3. /\ \A x : Get(SampleBody, "recovery_case_id", x) = x
      /\ \A x : Get(SampleBody, "subscription_halted", x) = x
      /\ Get(SampleBody, "amount_paise", <<"int", 0>>) = <<"int", 49900>>
  <2>. HIDE DEF SampleBody
  <2>. QED BY <1>1, <1>2 DEF Get
<1>4. CaseId(Null) = Null
  BY Zenon DEF CaseId
<1>5. Sample.id = Null /\ Sample.paise = 49900 /\ Sample.spoken = SpokenRupees(49900)
  <2>1. Get(SampleBody, "amount_paise", <<"int", 0>>)[2] = 49900
    BY <1>3
  <2>2. /\ Sample.id = CaseId(Get(SampleBody, "recovery_case_id", Null))
        /\ Sample.paise = Get(SampleBody, "amount_paise", <<"int", 0>>)[2]
        /\ Sample.spoken = SpokenRupees(Sample.paise)
    BY <1>2, ContextFields DEF Sample
  <2>3. Get(SampleBody, "recovery_case_id", Null) = Null
    BY <1>3
  <2>. QED BY <1>4, <2>1, <2>2, <2>3
<1>6. Sample.halted = FALSE
  <2>1. Sample.halted = Truthy(Get(SampleBody, "subscription_halted", Null))
    BY ContextFields, Zenon DEF Sample
  <2>2. Get(SampleBody, "subscription_halted", Null) = Null
    BY <1>3
  <2>3. Truthy(Null) = FALSE
    BY FlagIsRead, Zenon
  <2>. QED BY <2>1, <2>2, <2>3, Zenon
<1>. DEFINE sample == Sample
<1>7. sample = [f \in DOMAIN sample |-> sample[f]]
  BY Zenon DEF Sample, Context
<1>. HIDE DEF sample
<1>8. [sample EXCEPT !.id = Null, !.halted = FALSE] = sample
  <2>1. sample.id = Null /\ sample.halted = FALSE
    BY <1>5, <1>6 DEF sample
  <2>. QED BY <1>7, <2>1
<1>9. <<"bool", FALSE>>[2] = FALSE
  BY SecondOf, Zenon
<1>10. LiveKitContext(SampleBody) = [sample EXCEPT !.id = Null, !.halted = FALSE]
  <2>1. LiveKitContext(SampleBody)
          = [Sample EXCEPT !.id = Get(SampleBody, "recovery_case_id", Null),
                           !.halted = Get(SampleBody, "subscription_halted",
                                          <<"bool", FALSE>>)[2]]
    BY Zenon DEF LiveKitContext, Sample
  <2>2. Get(SampleBody, "recovery_case_id", Null) = Null
    BY <1>3
  <2>3. Get(SampleBody, "subscription_halted", <<"bool", FALSE>>) = <<"bool", FALSE>>
    <3>. DEFINE no == <<"bool", FALSE>>
    <3>. HIDE DEF no
    <3>1. Get(SampleBody, "subscription_halted", no) = no
      BY <1>3
    <3>. QED BY <3>1 DEF no
  <2>. QED BY <1>9, <2>1, <2>2, <2>3, Zenon DEF sample
<1>. QED BY <1>5, <1>8, <1>10 DEF sample

LEMMA ToldOfTheSample ==
  ASSUME told' = Sample
  PROVE  (/\ told.id # Null => \E e \in AllDebts : told = Facts(e)
          /\ RailObjects(told) => told.paise % 100 # 0)'
BY SampleFacts, RoundAmountsPass

LEMMA AgentIsToldKeeps == ASSUME HandoffInv, AgentIsTold PROVE HandoffInv'
<1>1. phase' = "told" /\ UNCHANGED <<channel, debt, wire>> /\ OnTheWire /\ phase = "connected"
  BY DEF AgentIsTold, HandoffInv
<1>2. \/ debt \in AllDebts /\ channel \in {"twilio", "livekit"} /\ wire # Nobody /\ told' = Facts(debt)
      \/ /\ wire = Nobody /\ (debt # NoDebt => channel = "twilio")
         /\ told' = Sample \/ \E d \in AllDebts : told' = Facts(d)
  <2>1. CASE wire = Nobody
    <3>1. debt # NoDebt => channel = "twilio"
      BY <1>1, <2>1, HandoffAssumption, BodiesAreSomebody DEF OnTheWire, AllDebts
    <3>2. CASE channel = "livekit"
      BY <2>1, <3>1, <3>2, SampleFacts DEF AgentIsTold
    <3>3. CASE channel # "livekit"
      <4>1. PICK body \in DemoBodies : told' = Context(body)
        BY <2>1, <3>3 DEF AgentIsTold
      <4>2. CASE body = SampleBody
        BY <2>1, <3>1, <4>1, <4>2 DEF Sample
      <4>3. CASE DemoDebt # NoDebt /\ body = Body(DemoDebt)
        BY <2>1, <3>1, <4>1, <4>3, BodyIsRead DEF AllDebts
      <4>. QED BY <4>1, <4>2, <4>3 DEF DemoBodies
    <3>. QED BY <3>2, <3>3
  <2>2. CASE wire # Nobody
    <3>1. debt \in Debts /\ debt # NoDebt /\ debt \in AllDebts
      BY <1>1, <2>2, HandoffAssumption DEF OnTheWire, AllDebts
    <3>2. CASE channel = "livekit"
      <4>1. wire = Body(debt) /\ told' = LiveKitContext(wire)
        BY <1>1, <2>2, <3>1, <3>2 DEF OnTheWire, AgentIsTold
      <4>. QED BY <2>2, <3>1, <3>2, <4>1, BodyIsRead
    <3>3. CASE channel # "livekit"
      <4>1. wire = StreamParameters(Body(debt)) /\ told' = Context(wire) /\ channel = "twilio"
        BY <1>1, <2>2, <3>1, <3>3 DEF OnTheWire, AgentIsTold
      <4>. QED BY <2>2, <3>1, <4>1, StringsAreRead
    <3>. QED BY <3>2, <3>3
  <2>. QED BY <2>1, <2>2
<1>3. (/\ told.id # Null => \E e \in AllDebts : told = Facts(e)
       /\ RailObjects(told) => told.paise % 100 # 0)'
  BY <1>2, ToldOfACase, ToldOfTheSample
<1>4. OnTheWire'
  BY <1>1 DEF OnTheWire
<1>5. CaseArrivesWhole'
  BY <1>1, <1>2, <1>3, HandoffAssumption DEF CaseArrivesWhole, AllDebts
<1>. QED BY <1>4, <1>5 DEF HandoffInv

LEMMA HandoffStutter == ASSUME HandoffInv, UNCHANGED handoffVars PROVE HandoffInv'
<1>1. OnTheWire'
  BY DEF HandoffInv, OnTheWire, handoffVars
<1>2. CaseArrivesWhole'
  BY DEF HandoffInv, CaseArrivesWhole, handoffVars
<1>. QED BY <1>1, <1>2 DEF HandoffInv

LEMMA TakenKeeps == ASSUME HandoffInv, Taken PROVE HandoffInv'
BY DEF Taken, HandoffInv, OnTheWire, CaseArrivesWhole

\* A step of the call is one of the handoff, or lets the agent take what it
\* was told, or leaves the handoff alone.
LEMMA HandoffStep == HandoffInv /\ [CallNext]_callVars => HandoffInv'
<1>. SUFFICES ASSUME HandoffInv, [CallNext]_callVars PROVE HandoffInv'
  OBVIOUS
<1>1. HandoffNext \/ Taken \/ UNCHANGED handoffVars
  BY DEF CallNext, PipecatStarts, LiveKitStarts, Begins, callVars
<1>2. CASE HandoffNext
  <2>1. ASSUME NEW d \in Debts, NEW via \in {"twilio", "livekit"}, Dial(d, via)
        PROVE  HandoffInv'
    BY <2>1, DialKeeps
  <2>2. ASSUME NEW via \in {"browser", "livekit"}, Visit(via) PROVE HandoffInv'
    BY <2>2 DEF Visit, HandoffInv, OnTheWire, CaseArrivesWhole
  <2>. QED BY <1>2, <2>1, <2>2, AnsweredKeeps, AgentIsToldKeeps DEF HandoffNext
<1>. QED BY <1>1, <1>2, TakenKeeps, HandoffStutter

\* Whatever the debts are, whichever way a call goes and whatever the network
\* makes of its body, the agent that is told of a debt is told every fact of
\* the one it was dialled for, and in the form it needs (call_body,
\* stream_parameters, context_from_body and dunning_session agree).
THEOREM DebtArrivesWhole == CallSpec => []CaseArrivesWhole
<1>1. CallInit => HandoffInv
  BY HandoffInitially DEF CallInit
<1>2. HandoffInv => CaseArrivesWhole
  BY DEF HandoffInv
<1>. QED BY <1>1, <1>2, HandoffStep, PTL DEF CallSpec

\* The call as a whole is a call of each of its parts, so what holds of the
\* session on either agent and of the rail holds of it.
THEOREM CallIsItsParts == CallSpec => VoiceSpec /\ LiveKitSpec /\ RailSpec
<1>1. CallInit => VoiceInit /\ LiveKitInit /\ RailInit
  BY DEF CallInit
<1>2. [CallNext]_callVars => [VoiceNext]_voiceVars
  BY DEF CallNext, PipecatStarts, LiveKitStarts, VoiceNext, Conversation, callVars, agentVars
<1>3. [CallNext]_callVars => [LiveKitNext]_liveKitVars
  BY DEF CallNext, PipecatStarts, LiveKitStarts, LiveKitNext, callVars, agentVars
<1>4. [CallNext]_callVars => [RailNext]_railVars
  BY DEF CallNext, PipecatStarts, LiveKitStarts, callVars
<1>. QED BY <1>1, <1>2, <1>3, <1>4, PTL DEF CallSpec, VoiceSpec, LiveKitSpec, RailSpec

\* The safety of a call from its dispatch to its outcome, for every graph, any
\* debts and any number of lines, pieces and faults.
THEOREM CallIsSafe ==
  CallSpec =>
    /\ [](VoiceTypeOK /\ OutcomeIsRecorded /\ RowTellsTheCall /\ GoodbyeIsHeard)
    /\ OutcomeIsFinal
    /\ [](LiveKitKeepsEndings /\ TurnIsWholeOrWithheld /\ CaseArrivesWhole)
BY CallIsItsParts, CallTypeCorrect, CallLeavesOutcome, RowIsTrue, GoodbyeComesThrough,
   OutcomeWrittenOnce, LiveKitEndsOnRecord, RailHolds, DebtArrivesWhole, PTL
=============================================================================
