----------------------------- MODULE CallHandoff -----------------------------
(***************************************************************************)
(* How the agent that talks learns which debt it calls about.  The worker  *)
(* writes the case into the body of the call; Twilio carries the body as   *)
(* strings and may fail to deliver it, LiveKit as JSON; the agent reads a  *)
(* body, or falls back on the case of a demo or on a sample.               *)
(*                                                                         *)
(* A value on the wire is <<type, value>>: a body is a function from keys  *)
(* to values, and a key that was not sent is not in its domain.            *)
(***************************************************************************)
EXTENDS Integers

CONSTANTS Debts,     \* facts of cases: id, name, language, paise, reason, halted
          DemoDebt,  \* what DUNNING_DEMO_CASE_ID points at; NoDebt if unset
          NoDebt

ASSUME HandoffAssumption ==
  /\ NoDebt \notin Debts
  /\ \A d \in Debts \cup ({DemoDebt} \ {NoDebt}) :
       d.id \in Nat /\ d.paise \in Nat /\ d.halted \in BOOLEAN

VARIABLES
  phase,   \* "idle", "refused", "ringing", "connected" or "told"
  channel, \* "twilio", "livekit" or "browser"
  debt,    \* the debt the call is for; NoDebt in a browser
  wire,    \* the body on its way; the empty body when nothing arrived
  told     \* the context the agent speaks from

handoffVars == <<phase, channel, debt, wire, told>>

Nobody == [x \in {} |-> 0]

Null == <<"null", 0>>

HandoffInit ==
  /\ phase = "idle" /\ channel = "browser" /\ debt = NoDebt
  /\ wire = Nobody /\ told = Nobody
-----------------------------------------------------------------------------
(* What is said of a debt. *)

\* spoken_amount, up to the names of the units: whole rupees, rounded up.
SpokenRupees(paise) == paise \div 100 + (IF paise % 100 = 0 THEN 0 ELSE 1)

\* Amounts that are worded in thousands or more.
Worded(rupees) == rupees >= 1000 /\ rupees % 1000 = 0

\* suggested_route: by the reason, and whether the bank has given up.
Route(reason, halted) == <<reason, halted>>

\* spoken_reason falls back on a phrase when no reason was recorded.
SpokenReason(reason) == IF reason = "none" THEN "did_not_complete" ELSE reason

\* call_body.
Body(d) ==
  [recovery_case_id |-> <<"int", d.id>>,
   customer_name |-> <<"str", IF d.name = "none" THEN "there" ELSE d.name>>,
   preferred_language |-> <<"str", d.language>>,
   amount_spoken |-> <<"str", SpokenRupees(d.paise)>>,
   amount_paise |-> <<"int", d.paise>>,
   failure_reason |-> <<"str", SpokenReason(d.reason)>>,
   subscription_halted |-> <<"bool", d.halted>>,
   suggested_route |-> <<"str", Route(d.reason, d.halted)>>]

\* stream_parameters: strings only, so what is null or false is left out.
StreamParameters(body) ==
  [k \in {j \in DOMAIN body : body[j] \notin {Null, <<"bool", FALSE>>}} |->
     <<"str", IF body[k] = <<"bool", TRUE>> THEN 1 ELSE body[k][2]>>]

Get(body, k, default) == IF k \in DOMAIN body THEN body[k] ELSE default

\* _truthy: a flag that may have crossed a wire as a string.
Truthy(v) ==
  CASE v[1] = "null" -> FALSE [] v[1] = "bool" -> v[2] [] OTHER -> v[2] # 0

MutantKeepsTheString(v) == v

\* _case_id: an integer however it arrived.
CaseId(v) == IF v = Null THEN Null ELSE <<"int", v[2]>>

\* context_from_body and call_context.
Context(body) ==
  [id |-> CaseId(Get(body, "recovery_case_id", Null)),
   name |-> Get(body, "customer_name", <<"str", "there">>)[2],
   language |-> Get(body, "preferred_language", <<"str", "hi">>)[2],
   paise |-> Get(body, "amount_paise", <<"int", 0>>)[2],
   spoken |-> IF "amount_spoken" \in DOMAIN body
                THEN body.amount_spoken[2]
                ELSE SpokenRupees(Get(body, "amount_paise", <<"int", 0>>)[2]),
   reason |-> Get(body, "failure_reason", <<"str", "did_not_complete">>)[2],
   halted |-> Truthy(Get(body, "subscription_halted", Null)),
   route |-> Get(body, "suggested_route", Null)[2]]

\* dunning_session reads the same keys from JSON, where types survive.
LiveKitContext(metadata) ==
  [Context(metadata) EXCEPT !.id = Get(metadata, "recovery_case_id", Null),
                            !.halted = Get(metadata, "subscription_halted", <<"bool", FALSE>>)[2]]

SampleBody ==
  [customer_name |-> <<"str", "Asha">>, amount_paise |-> <<"int", 49900>>,
   failure_reason |-> <<"str", "no_balance">>, preferred_language |-> <<"str", "hi">>]
-----------------------------------------------------------------------------
(* From the dispatch to the first word. *)

\* initiate of either channel; a customer without a phone, a body too long for
\* inline TwiML or a request that fails is a failed contact.
Dial(d, via) ==
  /\ phase = "idle" /\ phase' \in {"ringing", "refused"}
  /\ channel' = via /\ debt' = d /\ UNCHANGED told
  /\ wire' = CASE phase' = "refused" -> Nobody
               [] via = "twilio" -> StreamParameters(Body(d))
               [] OTHER -> Body(d)

\* A browser joins, or the console dispatches the LiveKit agent.
Visit(via) ==
  /\ phase = "idle" /\ phase' = "ringing" /\ channel' = via
  /\ debt' = NoDebt /\ wire' = Nobody /\ UNCHANGED told

\* The handshake may arrive without the parameters, or malformed.
Answered ==
  /\ phase = "ringing" /\ phase' = "connected"
  /\ wire' \in {wire} \cup (IF channel = "twilio" THEN {Nobody} ELSE {})
  /\ UNCHANGED <<channel, debt, told>>

\* _demo_body: load_call_body may find nothing or fail.
DemoBodies ==
  {SampleBody} \cup (IF DemoDebt = NoDebt THEN {} ELSE {Body(DemoDebt)})

\* bot: the body of the request, or of the handshake, or of the demo.
AgentIsTold ==
  /\ phase = "connected" /\ phase' = "told"
  /\ IF channel = "livekit"
       THEN told' = LiveKitContext(IF wire = Nobody THEN SampleBody ELSE wire)
       ELSE \E body \in (IF wire = Nobody THEN DemoBodies ELSE {wire}) :
              told' = Context(body)
  /\ UNCHANGED <<channel, debt, wire>>

HandoffNext ==
  \/ \E d \in Debts, via \in {"twilio", "livekit"} : Dial(d, via)
  \/ \E via \in {"browser", "livekit"} : Visit(via)
  \/ Answered \/ AgentIsTold
-----------------------------------------------------------------------------
\* The facts of a debt as the agent should hold them.
Facts(d) ==
  [id |-> <<"int", d.id>>, name |-> IF d.name = "none" THEN "there" ELSE d.name,
   language |-> d.language, paise |-> d.paise, spoken |-> SpokenRupees(d.paise),
   reason |-> SpokenReason(d.reason), halted |-> d.halted,
   route |-> Route(d.reason, d.halted)]

\* build_guardrail and check_output: a figure the agent says in digits, in
\* Hindi, is withheld when it is not the amount of the case to half a paisa.
RailObjects(context) ==
  /\ context.paise # 0 /\ context.language # "en" /\ ~Worded(context.spoken)
  /\ 100 * context.spoken # context.paise

\* Whichever way the call went, the agent speaks of the debt it was dialled
\* for, every fact in the form the database and the prompts need; nobody is
\* told of another debt, except when the handshake of a telephone call lost
\* the body.  And the guardrail lets the agent say the amount it was given,
\* unless that amount has paise.
CaseArrivesWhole ==
  phase = "told" =>
    /\ debt # NoDebt /\ wire # Nobody => told = Facts(debt)
    /\ debt # NoDebt /\ wire = Nobody => channel = "twilio"
    /\ told.id # Null => \E d \in (Debts \cup {DemoDebt}) \ {NoDebt} : told = Facts(d)
    /\ RailObjects(told) => told.paise % 100 # 0
=============================================================================
