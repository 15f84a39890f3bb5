SPECIFICATION Spec
CONSTANTS
  Draft = {d1}
  Invoice = {i1}
  Period = {p1}
  Reference = {r1}
  Task = {k1}
  Promise = {q1}
  Channel = {c1}
  BankTx = {}
  None = None
  Amount <- MCAmount
  Total <- MCTotal
  DraftPeriod <- MCDraftPeriod
  MaxPayments = 2
  MaxCrashes = 0
INVARIANTS PaidPromiseIsKept
