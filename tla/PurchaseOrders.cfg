SPECIFICATION Spec
CONSTANTS
  Order <- OneOrder
  Line <- TwoLines
  Item = {i1}
  Bill = {b1, b2}
  Period = {p1}
  Reference = {}
  None = None
  LineOrder <- OrderOfTwo
  LineItem <- MCLineItem
  Ordered <- TwoOrdered
  Amount <- MCAmount
  Total = 2
  MaxQuantity = 2
  MaxRequests = 2
  MaxStock = 1
  MaxCrashes = 0
INVARIANTS TypeOK StatusFollowsLines EvidenceAddsUp ReferencesTellApart StockIsConserved ThreeWayMatch
