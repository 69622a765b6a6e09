----------------------------- MODULE MCBackoffice -----------------------------
(***************************************************************************)
(* What is behind the trade: natural keys, document numbers, and the rows  *)
(* of the smaller domains.  They share no rows, so one of them, the focus, *)
(* moves in a behaviour.                                                   *)
(***************************************************************************)
EXTENDS Backoffice, NaturalKeys

CONSTANTS k1, k2, k3, t1, t2, e1, e2

VARIABLE focus

\* Bounds of a behaviour of the small domains.
Bounded(rows, requests) == [rows |-> rows, requests |-> requests]

Restrained == <<focus, recordVars, keyVars, numberVars>>

MCInit ==
    /\ focus \in {"records", "keys", "numbers"}
    /\ RecordsInit /\ KeyInit /\ NumberInit
    /\ focus # "records" => scope = Bounded([listing |-> 1], 1)
    /\ focus # "keys" => key = CHOOSE k \in Tables : TRUE
    /\ focus # "numbers" => numberRule = DefineRule("never", "empty")

\* A batch job asks for the price and the title of its listings: all are in stock.
InStockForJobs ==
    "batch_job" \in DOMAIN scope.rows
    => \A i \in Ids : row'[i].kind = "listing" => row'[i].stocked

MCNext ==
    /\ UNCHANGED focus
    /\ IF focus = "records" THEN RecordsNext /\ InStockForJobs ELSE UNCHANGED recordVars
    /\ IF focus = "keys" THEN KeyNext ELSE UNCHANGED keyVars
    /\ IF focus = "numbers" THEN NumberNext ELSE UNCHANGED numberVars

MCSpec == MCInit /\ [][MCNext]_Restrained

ThreeRows == 1..3
TwoDesks == {e1, e2}
TwoTenants == {t1, t2}
ThreeKeys == {k1, k2, k3}
Units == 0..2
\* Kinds that refer to each other exist together.
KindsTogether ==
    {Bounded([fba_shipment |-> 1], 2), Bounded([fba_shipment |-> 1, box_label |-> 1], 1),
     Bounded([inbound_plan |-> 1, fba_shipment |-> 1], 1),
     Bounded([inbound_plan |-> 1], 2),
     Bounded([replenishment |-> 1], 2), Bounded([fba_exception |-> 1], 2),
     Bounded([fba_inventory |-> 1], 2), Bounded([customer |-> 2], 1),
     Bounded([customer |-> 1], 2), Bounded([review |-> 1], 2),
     Bounded([ticket |-> 1], 2), Bounded([return |-> 1], 2),
     Bounded([complaint |-> 1], 2), Bounded([reply_template |-> 1], 2),
     Bounded([store |-> 1], 2), Bounded([listing |-> 1], 1),
     Bounded([listing |-> 1, batch_job |-> 1], 1),
     Bounded([listing |-> 1, optimization |-> 1], 1),
     Bounded([alert_rule |-> 1, alert |-> 2], 2),
     Bounded([spu |-> 1, sku |-> 1], 2), Bounded([spu |-> 1, collection |-> 1], 1),
     Bounded([collection |-> 1], 2), Bounded([project |-> 1], 2),
     Bounded([issue |-> 1], 2), Bounded([upc |-> 1], 2),
     Bounded([campaign |-> 1, ad_group |-> 1], 1), Bounded([campaign |-> 1], 2),
     Bounded([keyword |-> 1, bid_adjustment |-> 1], 1),
     Bounded([subscription |-> 1, delivery |-> 1], 2),
     Bounded([cdc_event |-> 2], 1), Bounded([cdc_event |-> 1], 2),
     Bounded([suggestion |-> 1], 2), Bounded([ai_switch |-> 1], 2),
     Bounded([rollout |-> 1], 2), Bounded([pms_recommendation |-> 1], 2),
     Bounded([pms_draft |-> 1], 2), Bounded([store_auth |-> 1], 2),
     Bounded([secret |-> 1], 2), Bounded([connector |-> 1], 2),
     Bounded([import |-> 1], 2), Bounded([transfer |-> 1], 2),
     Bounded([fba_plan |-> 1], 2), Bounded([stock_alert |-> 1], 2),
     Bounded([voucher_template |-> 1], 2), Bounded([voucher_template |-> 1, voucher |-> 1], 2),
     Bounded([refund |-> 1], 2), Bounded([refund |-> 2], 1), Bounded([promotion |-> 1], 2),
     Bounded([pms_action |-> 1], 2), Bounded([review_task |-> 1], 2),
     Bounded([business_alert |-> 1, alert_instance |-> 1], 2)}
Symmetry == Permutations(TwoDesks)
=============================================================================
