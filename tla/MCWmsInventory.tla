--------------------------- MODULE MCWmsInventory ---------------------------
(* Small instance of WmsInventory: two SKUs in one warehouse, one order of *)
(* each kind, quantities that can overdraw the row or fit it exactly.      *)
EXTENDS WmsInventory

MCQty == {-2, -1, 1, 2}
MCCounted == 0..2

\* Every client names the outbound order, whatever its status; to name nothing,
\* or another order, makes no difference to any action.
MCClientRefs == {"outbound_order"} \X Outbounds
=============================================================================
