SPECIFICATION Spec
CONSTANTS
  t1 = t1
  apollo = apollo
  surfe = surfe
  s1 = s1
  s2 = s2
  r1 = r1
  None = None
  Tenant <- OneTenant
  Provider <- Providers
  State <- States
  Request <- Requests
  MaxGrants = 3
  MaxCrashes = 1
SYMMETRY Interchangeable
INVARIANTS OneExchangePerState UsedWhereAsked NothingUnsealed SurvivorsWereElsewhere
