\* One call over the whole dunning flow, one fault of any kind.
SPECIFICATION FairCallSpec
CONSTANTS
  Nodes <- FlowNodes
  Start = "greet"
  Edges <- FlowEdges
  Intent <- FlowIntent
  AmountStages <- FlowAmount
  SilentStages <- FlowSilent
  MaxRetries = 1
  MaxLines = 1
  MaxFaults = 1
  MaxPieces = 2
  Debts <- CallDebts
  DemoDebt <- CallDemoDebt
  NoDebt = NoDebt
INVARIANTS
  VoiceTypeOK
  RowTellsTheCall
  OutcomeIsRecorded
  AmountFollowsIdentity
  SelfTalkIsBounded
  GoodbyeIsHeard
  LiveKitKeepsEndings
  CaseArrivesWhole
  TurnIsWholeOrWithheld
PROPERTIES OutcomeIsFinal FinishedCallsEnd
CHECK_DEADLOCK FALSE
