\* Two attempts on one invoice, a checkout, one dispatcher that may fail once:
\* events come in any order, calls end at any moment.
SPECIFICATION FairLifecycleSpec
CONSTANTS
  invoice = invoice
  order = order
  s1 = s1
  OfOrder = {o1}
  Charges = {p1, p2, o1}
  LinkPayments = {}
  Debts = {invoice, order}
  Subs = {s1}
  Halting = {s1}
  None = None
  DebtOf <- OwnDebt
  SubOf <- ItsSub
  Dispatchers = {d1}
  MaxGiveUps = 1
INVARIANTS LifecycleTypeOK
PROPERTIES PaidCasesClose
CHECK_DEADLOCK FALSE
