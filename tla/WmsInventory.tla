---------------------------- MODULE WmsInventory ----------------------------
(***************************************************************************)
(* The stock ledger of the warehouse domain (erp/modules/wms): inventory   *)
(* rows, the stock movements that document them, and the inbound orders,   *)
(* outbound orders and stock counts that change them.                      *)
(*                                                                         *)
(* Every action is one HTTP request served by one database session, run    *)
(* alone.  A request that raises is rolled back by get_db_session and so   *)
(* changes nothing: it is a stuttering step and has no action here.        *)
(* WmsSessions takes the same requests apart and interleaves them.         *)
(*                                                                         *)
(* The lines of an order are a function from SKUs to quantities (one line  *)
(* per SKU); a line of quantity zero makes adjust_stock raise, so the      *)
(* quantities of a request that succeeds are never zero.                   *)
(***************************************************************************)
EXTENDS Integers, Sequences

CONSTANTS
    Warehouses,     \* warehouse_id
    Skus,           \* sku_id
    Inbounds,       \* ids of inbound orders
    Outbounds,      \* ids of outbound orders
    Counts,         \* ids of stock counts
    Qty,            \* quantities a request may carry (non-zero integers)
    Counted,        \* quantities a stock count may report
    ClientRefs,     \* what a client's stock request may name as its reference
    MaxStock,       \* bound: largest quantity on hand in one row
    MaxMoves        \* bound: largest number of movements of one row

ASSUME QtyAssumption == Qty \subseteq Int \ {0}
ASSUME CountedAssumption == Counted \subseteq Nat
ASSUME WarehouseAssumption == Warehouses # {}
ASSUME BoundAssumption == MaxStock \in Nat /\ MaxMoves \in Nat

VARIABLES
    rows,       \* the places that have an Inventory row
    stock,      \* the quantities of the row (all zero where there is none)
    moves,      \* StockMovement: the movements of each place, oldest first
    inbound,    \* InboundOrder: status and warehouse_id
    outbound,   \* OutboundOrder: status and warehouse_id
    counts      \* StockCount: status and warehouse_id

vars == <<rows, stock, moves, inbound, outbound, counts>>

-----------------------------------------------------------------------------
(* Data *)

Places == Warehouses \X Skus

Row == [qty_on_hand : Int, qty_reserved : Int, qty_available : Int]

NewRow == [qty_on_hand |-> 0, qty_reserved |-> 0, qty_available |-> 0]

Refs == ({"inbound_order"} \X Inbounds) \cup ({"outbound_order"} \X Outbounds)
          \cup ({"stock_count"} \X Counts) \cup {<<"manual", "none">>}

Manual == <<"manual", "none">>

\* reference is what reference_type and reference_id say; by is a history: the
\* order or count whose own request booked the movement, Manual for a request
\* on the stock itself, whatever that one names as its reference.  Types and
\* remarks of movements are left out.
Movement == [qty_change : Int, qty_before : Int, qty_after : Int,
             reference : Refs, by : Refs]

ASSUME ReferenceAssumption == ClientRefs \subseteq Refs

\* Before it is created an order has status "absent".
InboundStatus == {"absent", "pending", "received", "cancelled"}
OutboundStatus == {"absent", "pending", "shipped", "cancelled"}
CountStatus == {"absent", "draft", "in_progress", "completed"}

Order(Status) == [status : Status, warehouse : Warehouses]

\* A count also keeps the quantities that were reported to it (result_json).
Reports == UNION {[L -> Counted] : L \in SUBSET Skus}
Count == [status : CountStatus, warehouse : Warehouses, counted : Reports]

NoOrder == [status |-> "absent", warehouse |-> CHOOSE w \in Warehouses : TRUE]
NoCount == [status |-> "absent", warehouse |-> CHOOSE w \in Warehouses : TRUE,
            counted |-> [s \in {} |-> 0]]

-----------------------------------------------------------------------------
(* InventoryService *)

\* (Mutant of Adjustable: the check of the reserved units is dropped.)
AdjustableBelowReserved(p, q) == stock[p].qty_on_hand + q >= 0

\* adjust_stock raises unless the new quantities are both non-negative.
Adjustable(p, q) ==
    /\ stock[p].qty_on_hand + q >= 0
    /\ stock[p].qty_on_hand + q - stock[p].qty_reserved >= 0

\* The bounds of the model: room for one more movement and for q more units.
Room(p, q) ==
    /\ Len(moves[p]) < MaxMoves
    /\ stock[p].qty_on_hand + q <= MaxStock

\* The quantities after a request: what is available is always recomputed.
Quantities(on_hand, reserved) ==
    [qty_on_hand |-> on_hand, qty_reserved |-> reserved,
     qty_available |-> on_hand - reserved]

Adjusted(row, q) == Quantities(row.qty_on_hand + q, row.qty_reserved)

\* (Mutant of Moved: qty_before is read after the row was changed.)
MovedReadLate(p, q, ref, by) ==
    Append(moves[p], [qty_change |-> q,
                      qty_before |-> stock[p].qty_on_hand + q,
                      qty_after |-> stock[p].qty_on_hand + q,
                      reference |-> ref, by |-> by])

Moved(p, q, ref, by) ==
    Append(moves[p], [qty_change |-> q,
                      qty_before |-> stock[p].qty_on_hand,
                      qty_after |-> stock[p].qty_on_hand + q,
                      reference |-> ref, by |-> by])

\* The loop over the lines of a request: adjust_stock on every place of
\* `change`, a function from places to non-zero quantities; if one of them
\* raises the whole request is rolled back.
AdjustAll(change, ref, by) ==
    /\ \A p \in DOMAIN change : Adjustable(p, change[p]) /\ Room(p, change[p])
    /\ rows' = rows \cup DOMAIN change
    /\ stock' = [p \in Places |-> IF p \in DOMAIN change
                                  THEN Adjusted(stock[p], change[p])
                                  ELSE stock[p]]
    /\ moves' = [p \in Places |-> IF p \in DOMAIN change
                                  THEN Moved(p, change[p], ref, by)
                                  ELSE moves[p]]

\* The lines of a request, at the warehouse of its order.
At(w, lines) == [p \in {w} \X DOMAIN lines |-> lines[p[2]]]

Lines == UNION {[L -> {q \in Qty : q > 0}] : L \in (SUBSET Skus) \ {{}}}

\* The reference of a client's request is not compared with anything: it may
\* name an order that moved nothing.
adjust_stock(p, q, ref) ==
    /\ AdjustAll([x \in {p} |-> q], ref, Manual)
    /\ UNCHANGED <<inbound, outbound, counts>>

\* (Mutant of reserve_stock: the hold is not recorded.)
reserve_stock_unrecorded(p, q, ref) ==
    /\ q > 0
    /\ stock[p].qty_available >= q
    /\ rows' = rows \cup {p}
    /\ stock' = [stock EXCEPT ![p] = Quantities(@.qty_on_hand, @.qty_reserved + q)]
    /\ UNCHANGED <<moves, inbound, outbound, counts>>

\* reserve_stock; /inventory/freeze is one that names nothing.
reserve_stock(p, q, ref) ==
    /\ q > 0
    /\ stock[p].qty_available >= q
    /\ Room(p, 0)
    /\ rows' = rows \cup {p}
    /\ stock' = [stock EXCEPT ![p] = Quantities(@.qty_on_hand, @.qty_reserved + q)]
    /\ moves' = [moves EXCEPT ![p] = Moved(p, 0, ref, Manual)]
    /\ UNCHANGED <<inbound, outbound, counts>>

\* unreserve_stock; /inventory/unfreeze is one that names nothing.
unreserve_stock(p, q, ref) ==
    /\ q > 0
    /\ stock[p].qty_reserved >= q
    /\ Room(p, 0)
    /\ rows' = rows \cup {p}
    /\ stock' = [stock EXCEPT ![p] = Quantities(@.qty_on_hand, @.qty_reserved - q)]
    /\ moves' = [moves EXCEPT ![p] = Moved(p, 0, ref, Manual)]
    /\ UNCHANGED <<inbound, outbound, counts>>

-----------------------------------------------------------------------------
(* InboundService *)

create_inbound(i, w) ==
    /\ inbound[i].status = "absent"
    /\ inbound' = [inbound EXCEPT ![i] = [status |-> "pending", warehouse |-> w]]
    /\ UNCHANGED <<rows, stock, moves, outbound, counts>>

\* (Mutant of cancel_inbound: the status check is dropped.)
cancel_inbound_unchecked(i) ==
    /\ inbound[i].status # "absent"
    /\ inbound' = [inbound EXCEPT ![i].status = "cancelled"]
    /\ UNCHANGED <<rows, stock, moves, outbound, counts>>

cancel_inbound(i) ==
    /\ inbound[i].status = "pending"
    /\ inbound' = [inbound EXCEPT ![i].status = "cancelled"]
    /\ UNCHANGED <<rows, stock, moves, outbound, counts>>

\* receive looks the order up and never looks at its status.
receive(i, lines) ==
    /\ inbound[i].status # "absent"
    /\ AdjustAll(At(inbound[i].warehouse, lines),
                 <<"inbound_order", i>>, <<"inbound_order", i>>)
    /\ inbound' = [inbound EXCEPT ![i].status = "received"]
    /\ UNCHANGED <<outbound, counts>>

-----------------------------------------------------------------------------
(* OutboundService *)

create_outbound(o, w) ==
    /\ outbound[o].status = "absent"
    /\ outbound' = [outbound EXCEPT ![o] = [status |-> "pending", warehouse |-> w]]
    /\ UNCHANGED <<rows, stock, moves, inbound, counts>>

cancel_outbound(o) ==
    /\ outbound[o].status = "pending"
    /\ outbound' = [outbound EXCEPT ![o].status = "cancelled"]
    /\ UNCHANGED <<rows, stock, moves, inbound, counts>>

\* ship deducts from the available quantity: a reservation made for the
\* order is not consumed.  Like receive it never looks at the status.
ship(o, lines) ==
    /\ outbound[o].status # "absent"
    /\ AdjustAll(At(outbound[o].warehouse, [s \in DOMAIN lines |-> -lines[s]]),
                 <<"outbound_order", o>>, <<"outbound_order", o>>)
    /\ outbound' = [outbound EXCEPT ![o].status = "shipped"]
    /\ UNCHANGED <<inbound, counts>>

-----------------------------------------------------------------------------
(* StockCountService *)

create_count(c, w) ==
    /\ counts[c].status = "absent"
    /\ counts' = [counts EXCEPT ![c] = [status |-> "draft", warehouse |-> w,
                                        counted |-> NoCount.counted]]
    /\ UNCHANGED <<rows, stock, moves, inbound, outbound>>

\* (Mutant of start_count: a status outside COUNT_STATUS_TRANSITIONS.)
start_count_misnamed(c) ==
    /\ counts[c].status = "draft"
    /\ counts' = [counts EXCEPT ![c].status = "counting"]
    /\ UNCHANGED <<rows, stock, moves, inbound, outbound>>

start_count(c) ==
    /\ counts[c].status = "draft"
    /\ counts' = [counts EXCEPT ![c].status = "in_progress"]
    /\ UNCHANGED <<rows, stock, moves, inbound, outbound>>

\* (Mutant of Variances: the count is compared with the available quantity.)
VariancesOfAvailable(w, counted) ==
    LET off == {p \in ({w} \X DOMAIN counted) \cap rows :
                    counted[p[2]] # stock[p].qty_available}
    IN  [p \in off |-> counted[p[2]] - stock[p].qty_available]

\* The variance of each counted SKU against the row as it is now; a SKU that
\* has no row at the warehouse is not adjusted, whatever was counted.
Variances(w, counted) ==
    LET off == {p \in ({w} \X DOMAIN counted) \cap rows :
                    counted[p[2]] # stock[p].qty_on_hand}
    IN  [p \in off |-> counted[p[2]] - stock[p].qty_on_hand]

submit_count_result(c, counted) ==
    /\ counts[c].status = "in_progress"
    /\ DOMAIN counted # {}
    /\ AdjustAll(Variances(counts[c].warehouse, counted),
                 <<"stock_count", c>>, <<"stock_count", c>>)
    /\ counts' = [counts EXCEPT ![c].status = "completed", ![c].counted = counted]
    /\ UNCHANGED <<inbound, outbound>>

-----------------------------------------------------------------------------
(* Specification *)

Init ==
    /\ rows = {}
    /\ stock = [p \in Places |-> NewRow]
    /\ moves = [p \in Places |-> <<>>]
    /\ inbound = [i \in Inbounds |-> NoOrder]
    /\ outbound = [o \in Outbounds |-> NoOrder]
    /\ counts = [c \in Counts |-> NoCount]

Next ==
    \/ \E p \in Places, q \in Qty, ref \in ClientRefs :
          adjust_stock(p, q, ref) \/ reserve_stock(p, q, ref) \/ unreserve_stock(p, q, ref)
    \/ \E i \in Inbounds :
          \/ \E w \in Warehouses : create_inbound(i, w)
          \/ cancel_inbound(i)
          \/ \E lines \in Lines : receive(i, lines)
    \/ \E o \in Outbounds :
          \/ \E w \in Warehouses : create_outbound(o, w)
          \/ cancel_outbound(o)
          \/ \E lines \in Lines : ship(o, lines)
    \/ \E c \in Counts :
          \/ \E w \in Warehouses : create_count(c, w)
          \/ start_count(c)
          \/ \E counted \in Reports : submit_count_result(c, counted)

Spec == Init /\ [][Next]_vars

-----------------------------------------------------------------------------
(* Properties *)

\* Type invariant: rows, movements and orders stay within their tables.
TypeOK ==
    /\ rows \subseteq Places
    /\ stock \in [Places -> Row]
    /\ moves \in [Places -> Seq(Movement)]
    /\ inbound \in [Inbounds -> Order(InboundStatus)]
    /\ outbound \in [Outbounds -> Order(OutboundStatus)]
    /\ counts \in [Counts -> Count]

\* Nothing is oversold: in every row the reserved units are on hand, and the
\* available quantity, which adjust_stock, reserve_stock and unreserve_stock
\* each recompute, is what is on hand and not reserved.
StockBalance ==
    \A p \in Places :
        /\ stock[p].qty_reserved >= 0
        /\ stock[p].qty_reserved <= stock[p].qty_on_hand
        /\ stock[p].qty_available = stock[p].qty_on_hand - stock[p].qty_reserved

\* The movements of a place are an unbroken account of its quantity on hand:
\* the first starts from zero, each starts where the one before it ended and
\* ends where the row stood, and the last ends at the row (the code writes
\* row and movement in separate statements of the same request).
MovementChain(p) ==
    LET m == moves[p] IN
    /\ \A k \in 1..Len(m) :
          /\ m[k].qty_after = m[k].qty_before + m[k].qty_change
          /\ m[k].qty_before = (IF k = 1 THEN 0 ELSE m[k - 1].qty_after)
    /\ stock[p].qty_on_hand = (IF m = <<>> THEN 0 ELSE m[Len(m)].qty_after)

LedgerAccounts == \A p \in Places : MovementChain(p)

\* Some movement was booked by the order's own request and refers to it.
Booked(ref) ==
    \E p \in Places : \E k \in 1..Len(moves[p]) :
        moves[p][k].by = ref /\ moves[p][k].reference = ref

\* An order that has moved stock itself can never be called anything but
\* received (shipped), however often receive (ship), cancel and create are
\* called and in whatever order; and one called received (shipped) has moved
\* stock, in movements that refer to it.  What a client's own stock request
\* names as its reference says nothing of the order: any order can be named.
OrdersTellStock ==
    /\ \A i \in Inbounds :
          (inbound[i].status = "received") <=> Booked(<<"inbound_order", i>>)
    /\ \A o \in Outbounds :
          (outbound[o].status = "shipped") <=> Booked(<<"outbound_order", o>>)

\* Movements are never rewritten or removed, and the quantity on hand never
\* changes without a new movement of that place.
LedgerGrows ==
    [][\A p \in Places :
          /\ Len(moves'[p]) >= Len(moves[p])
          /\ SubSeq(moves'[p], 1, Len(moves[p])) = moves[p]
          /\ stock'[p] # stock[p] => Len(moves'[p]) > Len(moves[p])]_vars

\* The places that the step completing count c reports on.
Completes(c) == counts[c].status # "completed" /\ counts'[c].status = "completed"
Reported(c) == {counts'[c].warehouse} \X DOMAIN counts'[c].counted

\* The step that completes a count leaves every counted row at the counted
\* quantity, leaves its reservation alone and still covered, and touches no
\* other row: requests between start and submit do not make it drift.
CountSettlesRows ==
    [][\A c \in Counts : Completes(c) =>
          \A p \in rows :
             /\ p \in Reported(c) => stock'[p].qty_on_hand = counts'[c].counted[p[2]]
             /\ p \notin Reported(c) => stock'[p] = stock[p]
             /\ stock'[p].qty_reserved = stock[p].qty_reserved]_vars
=============================================================================
