\* Two attempts on one invoice, a paid recovery link, two dispatchers of which one
\* may fail; or the report on two debts, real or simulated.
SPECIFICATION CasesSpec
CONSTANTS
  invoice = invoice
  order = order
  s1 = s1
  OfOrder = {}
  Charges = {p1, p2}
  LinkPayments = {l1}
  Debts = {invoice, order}
  Subs = {s1}
  Halting = {}
  None = None
  DebtOf <- OwnDebt
  SubOf <- ItsSub
  Dispatchers = {d1, d2}
  MaxGiveUps = 1
  Cases = {c1, c2}
  Window = 1
  Days = 2
  Latest = 3
  MaxPromises = 1
  MaxPayments = 2
SYMMETRY Symmetry
INVARIANTS
  RecoveredByRealMoney
  EveryFailureIsOnFile
  OneCasePerInvoice
PROPERTIES
  ImplementsBook
  ScoresSettle
CHECK_DEADLOCK FALSE
