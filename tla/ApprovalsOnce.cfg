SPECIFICATION Spec
CONSTANTS
  Quote = {q1}
  Question = {n1}
  PrivacyRequest = {}
  Case = {}
  CollectionTask = {k1}
  Period = {p1, p2}
  None = None
  MaxReplies = 1
  MaxInterrupts = 2
INVARIANTS InvoiceHasProvenance ExecutedIsDone HandlersComplete
PROPERTIES GovernedOnce
