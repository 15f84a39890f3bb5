SPECIFICATION Spec
CONSTANTS
  starter = starter
  crm = crm
  may = may
  None = None
  Package = {starter}
  Date = {may}
  Reduced = {starter}
  Connector = {crm}
  MaxCrashes = 0
  LastCycle = 10
  OfferTotal = 2
  RenewalFloor = 2
  Amount = {2}
  MaxQuotes = 11
  MaxExtras = 0
INVARIANTS OneOfferPerPlan EveryRenewalWasEarned
CHECK_DEADLOCK FALSE
