--------------------------- MODULE MCPurchaseToPay ---------------------------
(* Small instances of PurchaseToPay for TLC.                                 *)
EXTENDS PurchaseToPay

(* One order: a line for one piece and a line for two pieces of one item.    *)
OneOrder    == {1}
TwoLines    == 1..2
OrderOfTwo  == <<1, 1>>
TwoOrdered  == <<1, 2>>

OneLine     == {1}
OrderOfOne  == <<1>>
OneOrdered  == <<1>>

MCLineItem == [l \in Line |-> CHOOSE i \in Item: TRUE]
MCAmount   == 1..2
=============================================================================
