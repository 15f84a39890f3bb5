SPECIFICATION FairSpec
CONSTANTS
  Draft = {d1, d2}
  Invoice = {i1, i2}
  Period = {p1}
  Reference = {r1}
  Task = {k1}
  Promise = {q1}
  Channel = {c1}
  BankTx = {t1}
  None = None
  Amount <- MCAmount
  Total <- MCTotal
  DraftPeriod <- MCDraftPeriod
  MaxPayments = 3
  MaxCrashes = 0
PROPERTIES SuspendedSettles
