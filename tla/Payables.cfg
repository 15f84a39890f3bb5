SPECIFICATION Spec
CONSTANTS
  Order <- OneOrder
  Line <- OneLine
  Item = {i1}
  Bill = {b1, b2}
  Period = {p1, p2}
  Reference = {r1}
  None = None
  LineOrder <- OrderOfOne
  LineItem <- MCLineItem
  Ordered <- OneOrdered
  Amount <- MCAmount
  Total = 2
  MaxQuantity = 1
  MaxRequests = 1
  MaxStock = 0
  MaxCrashes = 2
INVARIANTS PayablesComplete
