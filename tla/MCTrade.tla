------------------------------ MODULE MCTrade ------------------------------
(***************************************************************************)
(* The documents of trade and money: purchase orders, sourcing, sales      *)
(* orders, shipments and the books.  They share no rows, so one of them,   *)
(* the focus, moves in a behaviour while the others keep their initial     *)
(* state.                                                                  *)
(***************************************************************************)
EXTENDS PurchaseOrders, Sourcing, SalesOrders, Shipments, Finance

CONSTANTS s1, s2, o1, x1, x2, x3, i1, i2, q1, q2, r1, r2, r3

VARIABLE focus

Restrained == <<focus, poVars, srcVars, omsVars, tmsVars, finVars>>

MCInit ==
    /\ focus \in {"purchase", "sourcing", "orders", "orders in parallel",
                  "shipments", "carrier", "finance"}
    /\ PoInit /\ SrcInit /\ OmsInit /\ TmsInit /\ FinInit

\* For the modes whose orders are handled like the standard ones, one request
\* at a time.  Of an order on which requests have overlapped only its automatic
\* approval is still promised: without one it is not followed any further.
PurchaseNext ==
    /\ \A o \in poStale : entry[o] = "auto"
    /\ PoNext
    /\ \A o \in Orders :
          po'[o].mode \notin {"standard_purchase", "consignment", "jit_dropship"}
          => NoRequest \in {poRequest'[s] : s \in PoSessions}

\* Three orders with one request at a time, or two orders that start empty and
\* one item with two requests.
InParallel ==
    /\ NoSalesOrder \in {so'[o] : o \in SalesOrderIds}
    /\ {so'[o] : o \in {x \in SalesOrderIds : so[x] = NoSalesOrder}}
          \subseteq {NoSalesOrder, NewOrder(0)}
    /\ "none" \in {item'[i] : i \in Items}
    /\ Cardinality(omsStale) < 2        \* of another order nothing is promised

\* No request relates supplier rows to inquiries: inquiries move without them.
SourcingNext ==
    /\ SrcNext
    /\ {inquiry'[i] : i \in Inquiries} # {"none"}
       => {supplier'[x].status : x \in Suppliers} = {"none"}

OrdersNext ==
    \/ focus = "orders" /\ OmsNext /\ NoOmsRequest \in {omsRequest'[s] : s \in OmsSessions}
    \/ focus = "orders in parallel" /\ OmsNext /\ InParallel

MCNext ==
    \/ focus = "purchase" /\ PurchaseNext /\ UNCHANGED <<focus, srcVars, omsVars, tmsVars, finVars>>
    \/ focus = "sourcing" /\ SourcingNext /\ UNCHANGED <<focus, poVars, omsVars, tmsVars, finVars>>
    \/ OrdersNext /\ UNCHANGED <<focus, poVars, srcVars, tmsVars, finVars>>
    \/ focus = "shipments" /\ ShipmentNext /\ UNCHANGED <<focus, poVars, srcVars, omsVars, finVars>>
    \/ focus = "carrier" /\ CarrierNext /\ UNCHANGED <<focus, poVars, srcVars, omsVars, finVars>>
    \/ focus = "finance" /\ FinNext /\ UNCHANGED <<focus, poVars, srcVars, omsVars, tmsVars>>

MCSpec == MCInit /\ [][MCNext]_Restrained

\* What was decided stands: the total that was approved, the quotes that are
\* compared, and the status of orders, shipments and the documents of the
\* books that have ended.
DecisionsStand ==
    /\ ApprovedAmountFrozen /\ QuotesFrozen /\ FinalOrdersStay
    /\ FinalShipmentsStay /\ ClosedStaysClosed

Sessions == {s1, s2}
FirstOrder == {o1}
SalesIds == {x1, x2, x3}
TwoItems == {i1, i2}
QuoteIds == {q1, q2}
ThreeRows == {r1, r2, r3}
Points == {0, 100}
Events == {"signed", "exception"}
AllOne == [m \in Modes \ {"jit_dropship"} |-> 1]
Symmetry == Permutations(Sessions) \cup Permutations(SalesIds)
=============================================================================
