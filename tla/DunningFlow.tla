----------------------------- MODULE DunningFlow -----------------------------
(***************************************************************************)
(* The one graph the program walks, DUNNING_FLOW.                          *)
(***************************************************************************)

Edge(from, label, to) == [from |-> from, label |-> label, to |-> to]

Opening == { Edge("greet", "identity_confirmed", "explain"),
             Edge("greet", "not_the_customer", "wrong_number") }

Explaining == { Edge("explain", "acknowledged", "reason_inquiry"),
                Edge("explain", "disputes_charge", "dispute") }

AskingWhy == { Edge("reason_inquiry", "reason_given", "ask_intent"),
               Edge("reason_inquiry", "financial_difficulty", "pay_later"),
               Edge("reason_inquiry", "disputes_charge", "dispute") }

AskingIntent == { Edge("ask_intent", "pay_now", "pay_now"),
                  Edge("ask_intent", "pay_later", "pay_later"),
                  Edge("ask_intent", "declined", "declined"),
                  Edge("ask_intent", "financial_difficulty", "pay_later"),
                  Edge("ask_intent", "disputes_charge", "dispute") }

FlowEdges == Opening \cup Explaining \cup AskingWhy \cup AskingIntent

\* The terminal nodes and their intents.
FlowIntent ==
  [n \in {"pay_now", "pay_later", "declined", "wrong_number", "dispute"} |->
     CASE n = "pay_now" -> "retry_now"
       [] n = "pay_later" -> "retry_later"
       [] OTHER -> n]

FlowNodes == {"greet", "explain", "reason_inquiry", "ask_intent"} \cup DOMAIN FlowIntent

\* Stages whose prompt carries {amount_spoken}.
FlowAmount == {"explain", "pay_now"}

\* SILENT_NODES: where a listening sound could pass for agreement.
FlowSilent == {"dispute", "declined", "wrong_number"}
=============================================================================
