SPECIFICATION RenewalSpec
CONSTANTS
  starter = starter
  crm = crm
  may = may
  None = None
  Package = {starter}
  Date = {may}
  Reduced = {}
  Connector = {}
  MaxCrashes = 1
  LastCycle = 1
  OfferTotal = 2
  RenewalFloor = 1
  Amount = {1}
  MaxQuotes = 3
  MaxExtras = 1
INVARIANTS TypeOK EvidenceStaysTrue RenewalsPerReceipt OrphanQuotesAreCrashes
PROPERTIES EveryHandoffCloses
CHECK_DEADLOCK FALSE
