SPECIFICATION Spec
CONSTANTS
  Draft = {d1}
  Invoice = {i1, i2}
  Period = {p1, p2}
  Reference = {r1}
  Task = {k1}
  Promise = {q1, q2}
  Channel = {c1}
  BankTx = {t1}
  None = None
  Amount <- MCAmount
  Total <- MCTotal
  DraftPeriod <- MCDraftPeriod
  MaxPayments = 2
  MaxCrashes = 1
SYMMETRY Interchangeable
INVARIANTS BooksComplete PaidIsCovered NotifiedHasBooks RevenueBookedOnce LedgerAccepts ReconciledIsReceipt FulfilledIsPaid
PROPERTIES ClosedPeriodIsFrozen
