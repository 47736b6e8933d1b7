---------------------------- MODULE VoiceSession ----------------------------
(***************************************************************************)
(* One phone call on the Pipecat agent: the model walking the graph, the   *)
(* lines it speaks, the task that waits for the graph to finish and hangs  *)
(* up, and bot(), which unwinds the pipeline.  Both of these write the     *)
(* outcome, through finalise().                                            *)
(*                                                                         *)
(* A step is what runs between two awaits.  Waiting on an asyncio.Event is *)
(* two steps, the set() that wakes the task and the task going on: the     *)
(* event may be cleared in between.                                        *)
(***************************************************************************)
EXTENDS ConversationGraph, Sequences

CONSTANTS AmountStages,  \* stages whose instructions say the amount
          SilentStages,  \* stages without listening sounds
          MaxRetries,    \* MAX_TRANSITION_RETRIES
          MaxLines,      \* bound: lines waiting to be spoken
          MaxFaults      \* bound: TTS errors, database errors and deaths

ASSUME SessionAssumption ==
  /\ AmountStages \subseteq Nodes /\ SilentStages \subseteq Nodes
  /\ MaxRetries \in Nat /\ MaxLines \in Nat /\ MaxFaults \in Nat

Verdicts == {Intent[n] : n \in Terminals} \cup {"unclear", "muted"}

VARIABLES
  node, rejections, \* GraphWalker._node and _rejections, which stops at the cap
  gate,             \* the listening sounds are enabled
  due,              \* the model is to be run
  knows,            \* what the model's context tells it: "amount"
  lines, playing,   \* lines on their way to the caller, and the one being heard
  speaking, stopped, finished, \* the three asyncio.Events
  ttsFailed,        \* tts_failures is not empty
  watcher,          \* where _end_when_finished is
  flagged,          \* _finalised
  writer, verdict,  \* who is in finalise_call, and the result it carries
  bot,              \* where bot() is
  caller,           \* on the line
  row,              \* voice_calls: no row, started, or the outcome
  faults,           \* how much of MaxFaults is spent
  lost,             \* history: what stopped a write
  reruns,           \* history: runs transitions asked for since the caller spoke
  unheard,          \* history: a line failed before the outcome was taken
  confirmed, asked, \* history: identity confirmed; a tool told the amount
  timedOut, behind, cut, heard \* history: the watcher gave up waiting; a line
                    \* was still to come when it began; goodbye cut, or heard

walkVars   == <<node, rejections, gate, due, knows, reruns, confirmed, asked>>
audioVars  == <<lines, playing, speaking, stopped, ttsFailed, unheard, cut, heard>>
recordVars == <<flagged, writer, verdict, row, lost>>
endVars    == <<watcher, finished, timedOut, behind>>
voiceVars  == <<walkVars, audioVars, recordVars, endVars, bot, caller, faults>>

OnAir == bot = "running"

\* EndFrame, or the end of the process: no line and no run of the model follows.
Silence ==
  /\ due' = FALSE /\ lines' = <<>> /\ playing' = "none" /\ reruns' = 0
  /\ UNCHANGED <<node, rejections, gate, knows, confirmed, asked,
                 speaking, stopped, ttsFailed, unheard, cut, heard>>

VoiceInit ==
  /\ node = Start /\ rejections = 0 /\ gate = (Start \notin SilentStages)
  /\ due = FALSE /\ knows = {}
  /\ lines = <<>> /\ playing = "none"
  /\ speaking = FALSE /\ stopped = FALSE /\ finished = FALSE
  /\ ttsFailed = FALSE /\ unheard = FALSE /\ watcher = "waiting"
  /\ flagged = FALSE /\ writer = "none" /\ verdict = "unclear"
  /\ bot = "opening" /\ caller = TRUE /\ row = "none" /\ faults = 0 /\ lost = {}
  /\ reruns = 0 /\ confirmed = FALSE /\ asked = FALSE
  /\ timedOut = FALSE /\ behind = FALSE /\ cut = FALSE /\ heard = FALSE

-----------------------------------------------------------------------------
(* Connecting, and the two sides of the conversation. *)

\* open_call_record, and the opening line: the rendered greeting, or a run of
\* the model.  A demo call, or a database that fails, leaves no row.
Connect ==
  /\ bot = "opening" /\ bot' = "running"
  /\ row' \in {"none", "initiated"}
  /\ \/ due' = TRUE /\ UNCHANGED lines
     \/ lines' = <<"turn">> /\ UNCHANGED due
  /\ UNCHANGED <<node, rejections, gate, knows, reruns, confirmed, asked,
                 playing, speaking, stopped, ttsFailed, unheard, cut, heard, flagged,
                 writer, verdict, lost, endVars, caller, faults>>

\* The caller says something, perhaps over the agent; a carrier announcement
\* that AnnouncementFilter does not recognise counts as the caller.
CallerSpeaks(over) ==
  /\ OnAir /\ caller
  /\ due' = TRUE /\ reruns' = 0
  /\ IF over
       THEN /\ playing # "none"
            /\ lines' = <<>> /\ playing' = "none"
            /\ speaking' = FALSE /\ stopped' = TRUE
            /\ cut' = (cut \/ playing = "closing")
            /\ watcher' = CASE watcher = "draining" -> "drained"
                            [] watcher = "listening" -> "grace"
                            [] OTHER -> watcher
       ELSE UNCHANGED <<lines, playing, speaking, stopped, cut, watcher>>
  /\ UNCHANGED <<node, rejections, gate, knows, confirmed, asked, ttsFailed, unheard,
                 heard, recordVars, finished, timedOut, behind, bot, caller, faults>>

\* on_transition when the graph accepts the label.
Move(label) ==
  \E n \in Follow(node, label) :
    /\ node' = n /\ rejections' = 0 /\ gate' = (n \notin SilentStages)
    /\ knows' = knows \cup (IF n \in AmountStages THEN {"amount"} ELSE {})
    /\ due' = TRUE /\ reruns' = reruns + 1
    /\ confirmed' = (confirmed \/ label = "identity_confirmed")
    /\ UNCHANGED asked

MutantAlwaysAsksAgain(label) ==
  /\ Follow(node, label) = {}
  /\ rejections' = IF rejections > MaxRetries THEN rejections ELSE rejections + 1
  /\ due' = TRUE /\ reruns' = reruns + 1
  /\ UNCHANGED <<node, gate, knows, confirmed, asked>>

\* _reject_transition: the model is asked again MaxRetries times in a row.
Reject(label) ==
  /\ Follow(node, label) = {}
  /\ rejections' = IF rejections > MaxRetries THEN rejections ELSE rejections + 1
  /\ due' = (rejections' <= MaxRetries)
  /\ reruns' = IF due' THEN reruns + 1 ELSE reruns
  /\ UNCHANGED <<node, gate, knows, confirmed, asked>>

\* A tool of the MCP server, run in its own process on the case of the call;
\* its answer runs the model again.  get_case and send_payment_link carry the
\* amount; they find nothing when the call has no case.
UseTool ==
  /\ due' = TRUE
  /\ \E tells \in BOOLEAN :
       /\ knows' = knows \cup (IF tells THEN {"amount"} ELSE {})
       /\ asked' = (asked \/ tells)
  /\ UNCHANGED <<node, rejections, gate, reruns, confirmed>>

Speak ==
  /\ Len(lines) < MaxLines
  /\ lines' = Append(lines, IF node \in Terminals THEN "closing" ELSE "turn")

\* One response of the model: a line or none, then a tool call or none.
ModelAnswers ==
  /\ OnAir /\ due
  /\ Speak \/ UNCHANGED lines
  /\ \/ \E label \in Labels : Move(label) \/ Reject(label)
     \/ UseTool
     \/ due' = FALSE /\ UNCHANGED <<node, rejections, gate, knows, reruns, confirmed, asked>>
  /\ UNCHANGED <<playing, speaking, stopped, ttsFailed, unheard, cut, heard, recordVars,
                 endVars, bot, caller, faults>>

\* The end of on_transition, after the result has been handed over.
AnnounceEnd ==
  /\ OnAir /\ node \in Terminals /\ ~finished
  /\ finished' = TRUE
  /\ watcher' = IF watcher = "waiting" THEN "woken" ELSE watcher
  /\ UNCHANGED <<walkVars, audioVars, recordVars, timedOut, behind, bot, caller, faults>>

-----------------------------------------------------------------------------
(* SpeechWatcher: what the caller is hearing. *)

LineStarts ==
  /\ OnAir /\ lines # <<>> /\ playing = "none"
  /\ playing' = Head(lines) /\ lines' = Tail(lines)
  /\ speaking' = TRUE /\ stopped' = FALSE
  /\ watcher' = IF watcher = "expecting" THEN "begun" ELSE watcher
  /\ UNCHANGED <<walkVars, ttsFailed, unheard, cut, heard, recordVars, finished, timedOut,
                 behind, bot, caller, faults>>

LineStops ==
  /\ OnAir /\ playing # "none"
  /\ playing' = "none" /\ speaking' = FALSE /\ stopped' = TRUE
  /\ heard' = (heard \/ playing = "closing")
  /\ watcher' = CASE watcher = "draining" -> "drained"
                  [] watcher = "listening" -> "grace"
                  [] OTHER -> watcher
  /\ UNCHANGED <<walkVars, lines, ttsFailed, unheard, cut, recordVars, finished, timedOut,
                 behind, bot, caller, faults>>

\* note_tts_failure: a line never becomes audio.
LineFails ==
  /\ OnAir /\ lines # <<>> /\ playing = "none" /\ faults < MaxFaults
  /\ lines' = Tail(lines) /\ ttsFailed' = TRUE /\ faults' = faults + 1
  /\ unheard' = (unheard \/ ~flagged)
  /\ cut' = (cut \/ Head(lines) = "closing")
  /\ UNCHANGED <<walkVars, playing, speaking, stopped, heard, recordVars, endVars, bot, caller>>

-----------------------------------------------------------------------------
(* finalise(): called by the watcher and by bot(). *)

MutantTrustsTheGraph == IF node \in Terminals THEN Intent[node] ELSE "unclear"

\* The outcome: nothing the walker reached counts if lines went unheard.
Outcome ==
  IF ttsFailed THEN "muted" ELSE IF node \in Terminals THEN Intent[node] ELSE "unclear"

MutantFlagsAfterwards(who) ==
  /\ UNCHANGED flagged /\ verdict' = Outcome
  /\ writer' = IF flagged \/ row = "none" THEN writer ELSE who
  /\ UNCHANGED <<row, lost>>

\* The flag is set before the first await; a call without a row writes nothing.
Finalise(who) ==
  /\ flagged' = TRUE /\ verdict' = Outcome
  /\ writer' = IF flagged \/ row = "none" THEN writer ELSE who
  /\ UNCHANGED <<row, lost>>

\* finalise_call returns: it has committed, or swallowed an exception.
Persisted ==
  /\ writer # "none" /\ writer' = "none"
  /\ \/ row' = verdict /\ UNCHANGED <<lost, faults>>
     \/ /\ faults < MaxFaults /\ faults' = faults + 1
        /\ lost' = lost \cup {"database"} /\ UNCHANGED row
  /\ UNCHANGED <<flagged, verdict>>

\* _end_when_finished.
WatcherFinalises ==
  /\ watcher = "woken" /\ bot \in {"running", "ending"}
  /\ Finalise("watcher")
  /\ watcher' = IF writer' = "watcher" THEN "recording" ELSE "looking"
  /\ UNCHANGED <<walkVars, audioVars, finished, timedOut, behind, bot, caller, faults>>

WatcherPersists ==
  /\ watcher = "recording" /\ Persisted
  /\ watcher' = "looking"
  /\ UNCHANGED <<walkVars, audioVars, finished, timedOut, behind, bot, caller>>

\* Re-arming both events, to catch the line that comes next.
Rearm ==
  /\ speaking' = FALSE /\ stopped' = FALSE /\ watcher' = "expecting"
  /\ behind' = \E i \in 1..Len(lines) : lines[i] = "turn"

MutantTakesTheLinePlaying ==
  /\ watcher = "looking"
  /\ watcher' = IF speaking THEN "listening" ELSE "expecting"
  /\ behind' = \E i \in 1..Len(lines) : lines[i] = "turn"
  /\ UNCHANGED <<walkVars, audioVars, recordVars, finished, timedOut, bot, caller, faults>>

\* _let_the_closing_line_finish, from one await to the next.
Look ==
  /\ watcher = "looking"
  /\ IF speaking
       THEN watcher' = "draining" /\ UNCHANGED <<speaking, stopped, behind>>
       ELSE Rearm
  /\ UNCHANGED <<walkVars, lines, playing, ttsFailed, unheard, cut, heard, recordVars,
                 finished, timedOut, bot, caller, faults>>

Drained ==
  /\ watcher = "drained" /\ Rearm
  /\ UNCHANGED <<walkVars, lines, playing, ttsFailed, unheard, cut, heard, recordVars,
                 finished, timedOut, bot, caller, faults>>

Begun ==
  /\ watcher = "begun"
  /\ watcher' = IF stopped THEN "grace" ELSE "listening"
  /\ UNCHANGED <<walkVars, audioVars, recordVars, finished, timedOut, behind, bot, caller, faults>>

MutantWaitsForEver ==
  /\ watcher = "grace" /\ timedOut' = FALSE
  /\ watcher' = "done" /\ Silence
  /\ bot' = IF OnAir THEN "ending" ELSE bot
  /\ UNCHANGED <<recordVars, finished, behind, caller, faults>>

\* The watcher queues EndFrame: after its grace, or after any wait that ran out.
HangsUp ==
  /\ watcher \in {"grace", "draining", "expecting", "listening"}
  /\ timedOut' = (watcher # "grace")
  /\ watcher' = "done" /\ Silence
  /\ bot' = IF OnAir THEN "ending" ELSE bot
  /\ UNCHANGED <<recordVars, finished, behind, caller, faults>>

-----------------------------------------------------------------------------
(* The pipeline unwinds. *)

CallerHangsUp ==
  /\ OnAir /\ caller
  /\ caller' = FALSE /\ bot' = "ending" /\ Silence
  /\ UNCHANGED <<recordVars, endVars, faults>>

\* The runner returns and the watcher is cancelled, with the transaction it is
\* in: rolled back, unless the commit had already reached the database.
Unwinds ==
  /\ bot = "ending" /\ bot' = "unwound"
  /\ watcher' = IF watcher = "done" THEN "done" ELSE "cancelled"
  /\ IF writer = "watcher"
       THEN /\ writer' = "none"
            /\ \/ row' = verdict /\ UNCHANGED lost
               \/ UNCHANGED row /\ lost' = lost \cup {"cancelled"}
       ELSE UNCHANGED <<writer, row, lost>>
  /\ UNCHANGED <<walkVars, audioVars, flagged, verdict, finished, timedOut, behind, caller, faults>>

MutantLeavesItToTheWatcher ==
  /\ bot = "unwound" /\ bot' = "done"
  /\ UNCHANGED <<walkVars, audioVars, endVars, recordVars, caller, faults>>

BotFinalises ==
  /\ bot = "unwound" /\ Finalise("bot")
  /\ bot' = IF writer' = "bot" THEN "recording" ELSE "done"
  /\ UNCHANGED <<walkVars, audioVars, endVars, caller, faults>>

BotPersists ==
  /\ bot = "recording" /\ Persisted
  /\ bot' = "done"
  /\ UNCHANGED <<walkVars, audioVars, endVars, caller>>

\* The process dies, with everything it was doing.
Dies ==
  /\ bot \in {"running", "ending", "unwound", "recording"} /\ faults < MaxFaults
  /\ bot' = "dead" /\ watcher' = "cancelled" /\ writer' = "none" /\ faults' = faults + 1
  /\ Silence
  /\ UNCHANGED <<flagged, verdict, row, lost, finished, timedOut, behind, caller>>

Watcher == WatcherFinalises \/ WatcherPersists \/ Look \/ Drained \/ Begun \/ HangsUp

Unwinding == Unwinds \/ BotFinalises \/ BotPersists

Conversation ==
  Connect \/ (\E over \in BOOLEAN : CallerSpeaks(over)) \/ ModelAnswers \/ AnnounceEnd

VoiceNext ==
  \/ Conversation \/ LineStarts \/ LineStops \/ LineFails \/ Watcher \/ Unwinding
  \/ CallerHangsUp \/ Dies

VoiceSpec == VoiceInit /\ [][VoiceNext]_voiceVars

\* What the event loop schedules, timers included; the caller and the model
\* owe nothing.
VoiceFairness == WF_voiceVars(AnnounceEnd) /\ WF_voiceVars(Watcher) /\ WF_voiceVars(Unwinding)

FairVoiceSpec == VoiceSpec /\ VoiceFairness

-----------------------------------------------------------------------------
(* Properties. *)

\* Every variable keeps to its values, and whoever writes an outcome has set
\* the flag and has a row to write to.
VoiceTypeOK ==
  /\ node \in Nodes /\ rejections \in 0..(MaxRetries + 1)
  /\ gate \in BOOLEAN /\ due \in BOOLEAN /\ knows \subseteq {"amount"}
  /\ reruns \in Nat /\ confirmed \in BOOLEAN /\ asked \in BOOLEAN
  /\ lines \in Seq({"turn", "closing"}) /\ playing \in {"none", "turn", "closing"}
  /\ speaking \in BOOLEAN /\ stopped \in BOOLEAN /\ finished \in BOOLEAN
  /\ ttsFailed \in BOOLEAN /\ unheard \in BOOLEAN /\ cut \in BOOLEAN /\ heard \in BOOLEAN
  /\ timedOut \in BOOLEAN /\ behind \in BOOLEAN
  /\ watcher \in {"waiting", "woken", "recording", "looking", "draining", "drained",
                  "expecting", "begun", "listening", "grace", "done", "cancelled"}
  /\ bot \in {"opening", "running", "ending", "unwound", "recording", "done", "dead"}
  /\ flagged \in BOOLEAN /\ caller \in BOOLEAN /\ verdict \in Verdicts
  /\ row \in {"none", "initiated"} \cup Verdicts /\ lost \subseteq {"database", "cancelled"}
  /\ faults \in 0..MaxFaults
  /\ writer \in {"none", "watcher", "bot"}
  /\ writer # "none" => flagged /\ row = "initiated"

\* The row tells what happened: a call one of whose lines was lost before its
\* outcome was taken is recorded as muted, whatever the graph came to, and no
\* other call is; else an intent is that of the stage the graph stands at, and
\* "unclear" says that no ending was reached.  Both writers read walker and
\* audio before they write, and both go on while they do.
RowTellsTheCall ==
  row \in Verdicts =>
    /\ row = "muted" <=> unheard
    /\ row = "unclear" => node \notin Terminals
    /\ row \notin {"muted", "unclear"} => node \in Terminals /\ row = Intent[node]

\* Once an outcome is on the row nothing overwrites it, whichever of the
\* watcher and bot() wrote it and whatever is learnt of the call afterwards.
OutcomeIsFinal == [][(row \in Verdicts) => (row' = row)]_voiceVars

\* A call that ended left its outcome on its row, unless the database failed
\* or the watcher was cancelled in the middle of writing.
OutcomeIsRecorded == bot = "done" /\ row = "initiated" => lost # {}

\* finalise: "a caller who hangs up mid-conversation still leaves a recorded
\* outcome".
HangUpIsRecorded == bot = "done" /\ row = "initiated" => "database" \in lost

\* The model hears the amount before anyone has confirmed who they are only
\* from a tool that it chose to call.
AmountFollowsIdentity == "amount" \in knows => confirmed \/ asked

\* Transitions run the model again without waiting for the caller, accepted
\* ones always and refused ones MaxRetries times in a row: between two words
\* of the caller that is never more than the stages of the call allow.
SelfTalkIsBounded ==
  reruns <= (MaxRetries + 1) * Cardinality(Nodes \ Terminals) + MaxRetries

\* The watcher hangs up on a caller only after a goodbye heard to its end, or
\* after a wait that ran out, when no earlier line was still to be heard as it
\* began to wait and the goodbye was neither talked over nor lost.
GoodbyeIsHeard ==
  watcher = "done" /\ ~timedOut /\ ~behind /\ ~cut => heard

\* Once the graph has finished the call is over sooner or later, whatever the
\* audio does.
FinishedCallsEnd == finished ~> bot \in {"done", "dead"}
=============================================================================
