\* One call over the whole dunning flow, no fault at all.
SPECIFICATION CallSpec
CONSTANTS
  Nodes <- FlowNodes
  Start = "greet"
  Edges <- FlowEdges
  Intent <- FlowIntent
  AmountStages <- FlowAmount
  SilentStages <- FlowSilent
  MaxRetries = 1
  MaxLines = 1
  MaxFaults = 0
  MaxPieces = 0
  Debts <- CallDebts
  DemoDebt <- CallDemoDebt
  NoDebt = NoDebt
INVARIANTS HangUpIsRecorded
CHECK_DEADLOCK FALSE
