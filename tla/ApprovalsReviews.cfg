SPECIFICATION Spec
CONSTANTS
  Quote = {}
  Question = {n1}
  PrivacyRequest = {r1}
  Case = {c1}
  CollectionTask = {k1}
  Period = {}
  None = None
  MaxReplies = 3
  MaxInterrupts = 1
INVARIANTS OwnerApproved RepliesAreCrashes
