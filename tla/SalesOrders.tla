---------------------------- MODULE SalesOrders ----------------------------
(***************************************************************************)
(* Sales orders of the OMS domain: SalesOrderService with its splits and   *)
(* merges, OrderMergeService, ShipmentOrchestrationService, the review in  *)
(* OrderRiskControlService and the platform synchronisation.               *)
(*                                                                         *)
(* A request loads the orders it touches, decides, and flushes at its      *)
(* commit what it changed; other requests may commit in between.  Every    *)
(* item is worth 1, so amounts are numbers of items.                       *)
(***************************************************************************)
EXTENDS Integers, FiniteSets, Rows

CONSTANTS
    SalesOrderIds,  \* ids of orders
    Items,          \* ids of the item rows that will be inserted
    OmsSessions,    \* requests that may be in flight together
    MaxOpening,     \* bound: of the total an order is created with
    NoOmsRequest    \* a session without a request

ASSUME OmsAssumption == MaxOpening \in Nat

VARIABLES
    so,         \* the order rows; status "none": no row
    item,       \* the order each item row belongs to
    booked,     \* history: opening total and accepted items of each order
    omsRequest, \* what each session loaded and is about to flush
    omsStale    \* history: orders committed from an out-of-date load

omsVars == <<so, item, booked, omsRequest, omsStale>>

-----------------------------------------------------------------------------
(* Data *)

OrderTransitions ==
    [pending    |-> {"confirmed", "cancelled"},
     confirmed  |-> {"processing", "cancelled"},
     processing |-> {"shipped", "cancelled"},
     shipped    |-> {"delivered", "returned"},
     delivered  |-> {"completed", "returned"},
     returned   |-> {"refunded"},
     refunded   |-> {},
     completed  |-> {},
     cancelled  |-> {}]

\* OrderMergeService writes a status the table does not know.
OrderStatuses == DOMAIN OrderTransitions \cup {"merged"}

Final == {"refunded", "completed", "cancelled", "merged"}

OpenForChange == {"pending", "confirmed"}

NoSalesOrder == [status |-> "none", total |-> 0, parent |-> "none"]

NewOrder(total) == [status |-> "pending", total |-> total, parent |-> "none"]

Exists(o) == so[o] # NoSalesOrder

ItemsOf(o) == {i \in Items : item[i] = o}

At(x, value) == [y \in {x} |-> value]

\* Everything a request may look at in order o.
Seen(o) == [c \in DOMAIN so[o] \cup {"items"} |-> IF c = "items" THEN ItemsOf(o) ELSE so[o][c]]

Looked(o, columns) == [c \in columns |-> Seen(o)[c]]

-----------------------------------------------------------------------------
(* Requests: per order what was read and what is set, the items that get   *)
(* another order, the item to insert, and the totals of the orders to      *)
(* insert.  Audit logs are left out.                                       *)

Request(read, set, moved, added, new) ==
    [read |-> read, set |-> set, moved |-> moved, added |-> added, new |-> new]

\* A row id that no request is about to insert.
FreshItem(i) ==
    /\ item[i] = "none"
    /\ \A s \in OmsSessions :
          omsRequest[s] # NoOmsRequest => i \notin DOMAIN omsRequest[s].added

Nothing == [x \in {} |-> x]

UpdateOrderStatus(o) ==
    {Request(At(o, Looked(o, {"status"})), At(o, [status |-> t]), Nothing, Nothing, Nothing) :
        t \in {x \in OrderStatuses : so[o].status \in DOMAIN OrderTransitions
                                     /\ x \in OrderTransitions[so[o].status]}}

\* Mutant of AddOrderItem: the total is the item's.
AddOrderItemOverwrites(o) ==
    {Request(At(o, Looked(o, {"status", "total", "items"})),
             At(o, [total |-> 1]), Nothing, At(i, o), Nothing) :
        i \in {x \in Items : FreshItem(x) /\ so[o].status \in OpenForChange}}

\* The 200 items an order may have are out of the bound's reach.
AddOrderItem(o) ==
    {Request(At(o, Looked(o, {"status", "total", "items"})),
             At(o, [total |-> so[o].total + 1]), Nothing, At(i, o), Nothing) :
        i \in {x \in Items : FreshItem(x) /\ so[o].status \in OpenForChange}}

\* The new orders get totals from the rules, whatever the order's, and none of
\* its items; the order is cancelled, without rules too.
SplitOrder(o) ==
    {Request(At(o, Looked(o, {"status"})), At(o, [status |-> "cancelled"]), Nothing, Nothing, new) :
        new \in UNION {[S -> 0..MaxOpening] :
                       S \in {T \in SUBSET SalesOrderIds :
                                 /\ so[o].status \in OpenForChange
                                 /\ \A x \in T : ~Exists(x)}}}

Combining(o, p, m) ==
    Request([x \in {o, p} |-> Looked(x, {"status"})],
            [x \in {o, p} |-> [status |-> "cancelled"]], Nothing, Nothing, At(m, 0))

\* The merged order has no amounts and no items; update_status refuses every
\* order that cannot be cancelled and every order named twice.
MergeOrders(o) ==
    {Combining(o, p, m) :
        p \in {x \in SalesOrderIds \ {o} :
                  /\ so[x].status \in {"pending", "confirmed", "processing"}
                  /\ so[o].status \in {"pending", "confirmed", "processing"}},
        m \in {x \in SalesOrderIds : ~Exists(x)}}

Merging(o, p) ==
    Request([x \in {o, p} |-> Looked(x, {"status", "parent", "items"})],
            At(p, [status |-> "merged", parent |-> o]),
            [i \in ItemsOf(p) |-> o], Nothing, Nothing)

\* Mutant of MergeInto: only the primary order's status is checked.
MergeIntoUnchecked(o) ==
    {Merging(o, p) : p \in {x \in SalesOrderIds :
                              so[o].status \in OpenForChange /\ Exists(x)}}

\* Mutant of MergeInto: the items stay where they are.
MergeIntoItemsStay(o) ==
    {[Merging(o, p) EXCEPT !.moved = Nothing] :
        p \in {x \in SalesOrderIds : so[o].status \in OpenForChange
                                     /\ so[x].status \in OpenForChange}}

\* OrderMergeService: the items move, the order's total does not; nothing
\* refuses an order named twice, which is then merged into itself.
MergeInto(o) ==
    {Merging(o, p) : p \in {x \in SalesOrderIds : so[o].status \in OpenForChange
                                                  /\ so[x].status \in OpenForChange}}

\* Straight from 'confirmed' too.
OrchestrateShipment(o) ==
    {Request(At(o, Looked(o, {"status"})), At(o, [status |-> "shipped"]),
             Nothing, Nothing, Nothing) :
        x \in {y \in {o} : so[y].status \in {"confirmed", "processing"}}}

\* approve_order reads risk_eval before it is assigned and always raises.
RejectOrder(o) ==
    {Request(At(o, Looked(o, {"status"})), At(o, [status |-> "cancelled"]),
             Nothing, Nothing, Nothing) :
        x \in {y \in {o} : so[y].status \in OpenForChange}}

OrderHandled(o) ==
    UpdateOrderStatus(o) \cup AddOrderItem(o) \cup SplitOrder(o) \cup MergeOrders(o)
    \cup MergeInto(o) \cup OrchestrateShipment(o) \cup RejectOrder(o)

-----------------------------------------------------------------------------
(* Steps *)

\* create writes the totals of its items, sync_from_platform the bare row.
CreateSalesOrder(o) ==
    /\ ~Exists(o)
    /\ \E total \in 0..MaxOpening :
          /\ so' = [so EXCEPT ![o] = NewOrder(total)]
          /\ booked' = [booked EXCEPT ![o] = total]
    /\ UNCHANGED <<item, omsRequest, omsStale>>

SyncFromPlatform(o) ==
    /\ ~Exists(o)
    /\ so' = [so EXCEPT ![o] = NewOrder(0)]
    /\ UNCHANGED <<item, booked, omsRequest, omsStale>>

LoadOrders(s, o) ==
    /\ omsRequest[s] = NoOmsRequest
    /\ Exists(o)
    /\ \E r \in OrderHandled(o) : omsRequest' = [omsRequest EXCEPT ![s] = r]
    /\ UNCHANGED <<so, item, booked, omsStale>>

CommitOrders(s) ==
    /\ omsRequest[s] # NoOmsRequest
    /\ LET r == omsRequest[s] IN
       /\ \A o \in DOMAIN r.new : ~Exists(o)      \* order numbers are unique
       /\ so' = [o \in SalesOrderIds |->
                    IF o \in DOMAIN r.new THEN NewOrder(r.new[o])
                    ELSE IF o \in DOMAIN r.set THEN Flushed(so[o], r.read[o], r.set[o])
                    ELSE so[o]]
       /\ item' = [i \in Items |-> IF i \in DOMAIN r.added THEN r.added[i]
                                   ELSE IF i \in DOMAIN r.moved THEN r.moved[i] ELSE item[i]]
       /\ booked' = [o \in SalesOrderIds |->
                       IF o \in DOMAIN r.new THEN r.new[o]
                       ELSE booked[o] + Cardinality({i \in DOMAIN r.added : r.added[i] = o})]
       /\ omsStale' = omsStale \cup {o \in DOMAIN r.read :
                          \E c \in DOMAIN r.read[o] : r.read[o][c] # Seen(o)[c]}
    /\ omsRequest' = [omsRequest EXCEPT ![s] = NoOmsRequest]

RollbackOrders(s) ==
    /\ omsRequest[s] # NoOmsRequest
    /\ omsRequest' = [omsRequest EXCEPT ![s] = NoOmsRequest]
    /\ UNCHANGED <<so, item, booked, omsStale>>

OmsInit ==
    /\ so = [o \in SalesOrderIds |-> NoSalesOrder]
    /\ item = [i \in Items |-> "none"]
    /\ booked = [o \in SalesOrderIds |-> 0]
    /\ omsRequest = [s \in OmsSessions |-> NoOmsRequest]
    /\ omsStale = {}

OmsNext ==
    \/ \E o \in SalesOrderIds :
        \/ CreateSalesOrder(o) \/ SyncFromPlatform(o)
        \/ \E s \in OmsSessions : LoadOrders(s, o)
    \/ \E s \in OmsSessions : CommitOrders(s) \/ RollbackOrders(s)

OmsSpec == OmsInit /\ [][OmsNext]_omsVars

-----------------------------------------------------------------------------
(* Properties *)

\* Rows, items and histories are well typed.
OmsTypeOK ==
    /\ so \in [SalesOrderIds -> [status : OrderStatuses, total : Nat,
                               parent : SalesOrderIds \cup {"none"}] \cup {NoSalesOrder}]
    /\ item \in [Items -> SalesOrderIds \cup {"none"}]
    /\ booked \in [SalesOrderIds -> Nat]
    /\ omsStale \subseteq SalesOrderIds

\* The total of an order is its opening total with every item that was accepted
\* on that order itself: no split, merge, review or shipment in between changes
\* it, and only two requests that overlap can lose an item's amount.  It is not
\* the sum of the items the order holds: a merge moves items to the primary
\* order and leaves the total that counts them where it was, and a split gives
\* its children totals of their own.
TotalIsBooked ==
    \A o \in SalesOrderIds \ omsStale : so[o].total = booked[o]

\* No item is left behind in an order that was merged into another one.  Its
\* total is: what the merged order's items came to stays with that order alone.
MergedIsEmpty ==
    \A o \in SalesOrderIds \ omsStale :
        so[o].status = "merged" /\ so[o].parent # o => ItemsOf(o) = {}

\* An order that is refunded, completed, cancelled or merged stays so, for the
\* services that use the transition table and those that do not.
FinalOrdersStay ==
    [][\A o \in SalesOrderIds \ omsStale' :
          so[o].status \in Final => so'[o].status = so[o].status]_omsVars

\* An order's total is what was booked on it, and the items of a merged order
\* are with an order that lives.  Items and totals need not be together.
SalesAreSound == OmsTypeOK /\ TotalIsBooked /\ MergedIsEmpty
=============================================================================
