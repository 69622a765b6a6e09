------------------------- MODULE WmsInventoryProofs -------------------------
(***************************************************************************)
(* TLAPS proofs about WmsInventory, for every set of warehouses, SKUs and  *)
(* orders, every quantity and every bound.                                 *)
(***************************************************************************)
EXTENDS WmsInventory, SequenceTheorems, TLAPS

StockType ==
    /\ rows \subseteq Places
    /\ stock \in [Places -> Row]
    /\ moves \in [Places -> Seq(Movement)]

OrdersType ==
    /\ inbound \in [Inbounds -> Order(InboundStatus)]
    /\ outbound \in [Outbounds -> Order(OutboundStatus)]
    /\ counts \in [Counts -> Count]

Inv == TypeOK /\ StockBalance

-----------------------------------------------------------------------------

\* Recomputed quantities are a well-typed, balanced row.
LEMMA QuantitiesType ==
    ASSUME NEW h \in Int, NEW r \in Int
    PROVE  /\ Quantities(h, r) \in Row
           /\ Quantities(h, r).qty_on_hand = h
           /\ Quantities(h, r).qty_reserved = r
           /\ Quantities(h, r).qty_available = h - r
  BY DEF Quantities, Row

\* So is the row that one line of adjust_stock writes.
LEMMA AdjustedType ==
    ASSUME NEW row \in Row, NEW q \in Int
    PROVE  /\ Adjusted(row, q) \in Row
           /\ Adjusted(row, q).qty_on_hand = row.qty_on_hand + q
           /\ Adjusted(row, q).qty_reserved = row.qty_reserved
           /\ Adjusted(row, q).qty_available
                = row.qty_on_hand + q - row.qty_reserved
  <1>1. row.qty_on_hand + q \in Int /\ row.qty_reserved \in Int
    BY DEF Row
  <1> QED
    BY <1>1 DEF Adjusted, Quantities, Row

\* What balance means for one row.
Balanced(row) ==
    /\ row.qty_reserved >= 0
    /\ row.qty_reserved <= row.qty_on_hand
    /\ row.qty_available = row.qty_on_hand - row.qty_reserved

\* One movement is well typed.
LEMMA MovedType ==
    ASSUME NEW p \in Places, NEW q \in Int, NEW ref \in Refs, NEW by \in Refs,
           StockType
    PROVE  Moved(p, q, ref, by) \in Seq(Movement)
  <1>1. stock[p].qty_on_hand \in Int
    BY DEF StockType, Row
  <1> DEFINE m == [qty_change |-> q,
                   qty_before |-> stock[p].qty_on_hand,
                   qty_after |-> stock[p].qty_on_hand + q,
                   reference |-> ref, by |-> by]
  <1>2. m \in Movement
    BY <1>1 DEF Movement
  <1>3. moves[p] \in Seq(Movement)
    BY DEF StockType
  <1>4. Append(moves[p], m) \in Seq(Movement)
    BY <1>2, <1>3
  <1> QED
    BY <1>4 DEF Moved

\* The loop over the lines of a request keeps types and balance.
LEMMA AdjustAllKeeps ==
    ASSUME NEW D \in SUBSET Places, NEW change \in [D -> Int],
           NEW ref \in Refs, NEW by \in Refs,
           StockType, StockBalance, AdjustAll(change, ref, by)
    PROVE  StockType' /\ StockBalance'
  <1>1. DOMAIN change = D
    OBVIOUS
  <1>2. rows' \subseteq Places
    BY <1>1 DEF AdjustAll, StockType
  <1>3. \A p \in Places : stock[p] \in Row
    BY DEF StockType
  <1>a. \A p \in Places : stock'[p] = IF p \in D THEN Adjusted(stock[p], change[p])
                                                ELSE stock[p]
    BY <1>1 DEF AdjustAll
  <1>b. \A p \in D : stock[p] \in Row /\ change[p] \in Int
    BY <1>3
  <1>c. \A p \in D : Adjusted(stock[p], change[p]) \in Row
    BY <1>b, AdjustedType
  <1>d. stock' = [p \in Places |-> IF p \in D THEN Adjusted(stock[p], change[p])
                                            ELSE stock[p]]
    BY <1>1 DEF AdjustAll
  <1>4. stock' \in [Places -> Row]
    BY <1>3, <1>c, <1>d
  <1>5. moves' \in [Places -> Seq(Movement)]
    BY <1>1, MovedType DEF AdjustAll, StockType
  <1>6. ASSUME NEW p \in Places PROVE Balanced(stock'[p])
    <2>1. CASE p \in D
      <3>1. Adjustable(p, change[p])
        BY <1>1, <2>1 DEF AdjustAll
      <3>2. stock'[p] = Adjusted(stock[p], change[p])
        BY <1>a, <2>1
      <3>3. stock[p].qty_reserved >= 0
        BY DEF StockBalance
      <3>4. /\ stock'[p].qty_on_hand = stock[p].qty_on_hand + change[p]
            /\ stock'[p].qty_reserved = stock[p].qty_reserved
            /\ stock'[p].qty_available
                 = stock[p].qty_on_hand + change[p] - stock[p].qty_reserved
        BY <1>b, <2>1, <3>2, AdjustedType
      <3>5. /\ stock[p].qty_on_hand \in Int /\ stock[p].qty_reserved \in Int
            /\ change[p] \in Int
        BY <1>b, <2>1 DEF Row
      <3> QED
        BY <3>1, <3>3, <3>4, <3>5 DEF Adjustable, Balanced
    <2>2. CASE p \notin D
      BY <1>a, <2>2 DEF StockBalance, Balanced
    <2> QED
      BY <2>1, <2>2
  <1>7. StockBalance'
    BY <1>6 DEF StockBalance, Balanced
  <1> QED
    BY <1>2, <1>4, <1>5, <1>7 DEF StockType

\* The lines of an order, placed at a warehouse, change places of that
\* warehouse by integers.
LEMMA AtType ==
    ASSUME NEW w \in Warehouses, NEW L \in SUBSET Skus, NEW lines \in [L -> Int]
    PROVE  At(w, lines) \in [{w} \X L -> Int] /\ ({w} \X L) \in SUBSET Places
  BY DEF At, Places

LEMMA LinesType ==
    ASSUME NEW lines \in Lines
    PROVE  \E L \in SUBSET Skus : lines \in [L -> Int]
  <1>1. PICK L \in SUBSET Skus : lines \in [L -> {q \in Qty : q > 0}]
    BY DEF Lines
  <1>2. {q \in Qty : q > 0} \subseteq Int
    BY QtyAssumption
  <1> QED
    BY <1>1, <1>2

LEMMA CountedType == Counted \subseteq Int
  <1>1. \A x \in Nat : x \in Int
    OBVIOUS
  <1> QED
    BY <1>1, CountedAssumption

LEMMA ReportsType ==
    ASSUME NEW counted \in Reports
    PROVE  \E L \in SUBSET Skus : counted \in [L -> Int]
  <1>1. PICK L \in SUBSET Skus : counted \in [L -> Counted]
    BY DEF Reports
  <1>2. \A s \in L : counted[s] \in Int
    BY <1>1, CountedType
  <1> QED
    BY <1>1, <1>2

LEMMA VariancesType ==
    ASSUME NEW w \in Warehouses, NEW counted \in Reports, StockType
    PROVE  \E D \in SUBSET Places : Variances(w, counted) \in [D -> Int]
  <1> DEFINE off == {p \in ({w} \X DOMAIN counted) \cap rows :
                        counted[p[2]] # stock[p].qty_on_hand}
  <1>1. PICK L \in SUBSET Skus : counted \in [L -> Int]
    BY ReportsType
  <1>2. off \subseteq Places
    BY DEF StockType
  <1>3. \A p \in off : counted[p[2]] - stock[p].qty_on_hand \in Int
    <2> TAKE p \in off
    <2>1. p[2] \in L
      BY <1>1
    <2>2. counted[p[2]] \in Int
      BY <1>1, <2>1
    <2>3. stock[p].qty_on_hand \in Int
      BY <1>2 DEF StockType, Row
    <2> QED
      BY <2>2, <2>3
  <1>4. Variances(w, counted) = [p \in off |-> counted[p[2]] - stock[p].qty_on_hand]
    BY DEF Variances
  <1>5. Variances(w, counted) \in [off -> Int]
    BY <1>3, <1>4
  <1> QED
    BY <1>2, <1>5

LEMMA TypeSplit == TypeOK <=> StockType /\ OrdersType
  BY DEF TypeOK, StockType, OrdersType

-----------------------------------------------------------------------------

LEMMA NoCountType == NoCount.counted \in Reports
  <1>1. NoCount.counted \in [{} -> Counted]
    BY DEF NoCount
  <1> QED
    BY <1>1 DEF Reports

LEMMA InitInv == Init => Inv
  <1> SUFFICES ASSUME Init PROVE Inv
    OBVIOUS
  <1>1. NoOrder.warehouse \in Warehouses /\ NoCount.warehouse \in Warehouses
    BY WarehouseAssumption DEF NoOrder, NoCount
  <1>2. NoOrder \in Order(InboundStatus) /\ NoOrder \in Order(OutboundStatus)
    BY <1>1 DEF NoOrder, Order, InboundStatus, OutboundStatus
  <1>3. NoCount \in Count
    BY <1>1, NoCountType DEF NoCount, Count, CountStatus
  <1>4. NewRow \in Row
    BY DEF NewRow, Row
  <1>5. TypeOK
    BY <1>2, <1>3, <1>4 DEF Init, TypeOK
  <1>6. StockBalance
    BY DEF Init, StockBalance, NewRow
  <1> QED
    BY <1>5, <1>6 DEF Inv

LEMMA StockStep ==
    ASSUME Inv, NEW p \in Places, NEW q \in Qty, NEW ref \in ClientRefs,
           adjust_stock(p, q, ref) \/ reserve_stock(p, q, ref) \/ unreserve_stock(p, q, ref)
    PROVE  StockType' /\ StockBalance' /\ OrdersType'
  <1>1. StockType /\ OrdersType /\ StockBalance
    BY TypeSplit DEF Inv
  <1>2. q \in Int
    BY QtyAssumption
  <1>3. Manual \in Refs /\ ref \in Refs
    BY ReferenceAssumption DEF Manual, Refs
  <1>5. OrdersType'
    BY <1>1 DEF adjust_stock, reserve_stock, unreserve_stock, OrdersType
  <1>6. CASE adjust_stock(p, q, ref)
    <2>1. [x \in {p} |-> q] \in [{p} -> Int] /\ {p} \in SUBSET Places
      BY <1>2
    <2>2. AdjustAll([x \in {p} |-> q], ref, Manual)
      BY <1>6 DEF adjust_stock
    <2> QED
      BY <1>1, <1>3, <1>5, <2>1, <2>2, AdjustAllKeeps
  <1>7. /\ stock[p].qty_on_hand \in Int /\ stock[p].qty_reserved \in Int
        /\ stock[p].qty_reserved >= 0
        /\ stock[p].qty_reserved <= stock[p].qty_on_hand
        /\ stock[p].qty_available = stock[p].qty_on_hand - stock[p].qty_reserved
    BY <1>1 DEF StockType, StockBalance, Row
  <1> DEFINE h == stock[p].qty_on_hand
  <1>8. ASSUME NEW r \in Int, r >= 0, r <= h,
               rows' = rows \cup {p},
               stock' = [stock EXCEPT ![p] = Quantities(h, r)],
               moves' = [moves EXCEPT ![p] = Moved(p, 0, ref, Manual)]
        PROVE  StockType' /\ StockBalance'
    <2>1. rows' \subseteq Places
      BY <1>1, <1>8 DEF StockType
    <2>2. Moved(p, 0, ref, Manual) \in Seq(Movement)
      BY <1>1, <1>3, MovedType
    <2>3. moves' \in [Places -> Seq(Movement)]
      BY <1>1, <1>8, <2>2 DEF StockType
    <2>4. Quantities(h, r) \in Row /\ Balanced(Quantities(h, r))
      <3>1. h \in Int
        BY <1>7
      <3> HIDE DEF h
      <3>2. /\ Quantities(h, r) \in Row
            /\ Quantities(h, r).qty_on_hand = h
            /\ Quantities(h, r).qty_reserved = r
            /\ Quantities(h, r).qty_available = h - r
        BY <3>1, QuantitiesType
      <3> QED
        BY <1>8, <3>2 DEF Balanced
    <2>5. stock \in [Places -> Row]
      BY <1>1 DEF StockType
    <2>6. stock' \in [Places -> Row]
      BY <1>8, <2>4, <2>5
    <2>7. ASSUME NEW x \in Places PROVE Balanced(stock'[x])
      <3>1. CASE x = p
        BY <1>8, <2>4, <2>5, <3>1
      <3>2. CASE x # p
        BY <1>1, <1>8, <2>5, <3>2 DEF StockBalance, Balanced
      <3> QED
        BY <3>1, <3>2
    <2>8. StockBalance'
      BY <2>7 DEF StockBalance, Balanced
    <2> QED
      BY <2>1, <2>3, <2>6, <2>8 DEF StockType
  <1>9. stock \in [Places -> Row]
    BY <1>1 DEF StockType
  <1>10. CASE reserve_stock(p, q, ref)
    <2> DEFINE r == stock[p].qty_reserved + q
    <2>1. r \in Int /\ r >= 0 /\ r <= h
      BY <1>2, <1>7, <1>10 DEF reserve_stock
    <2>2. /\ rows' = rows \cup {p}
          /\ stock' = [stock EXCEPT ![p] = Quantities(h, r)]
          /\ moves' = [moves EXCEPT ![p] = Moved(p, 0, ref, Manual)]
      BY <1>9, <1>10 DEF reserve_stock
    <2> HIDE DEF r
    <2>3. StockType' /\ StockBalance'
      BY <2>1, <2>2, <1>8
    <2> QED
      BY <1>5, <2>3
  <1>11. CASE unreserve_stock(p, q, ref)
    <2> DEFINE r == stock[p].qty_reserved - q
    <2>1. r \in Int /\ r >= 0 /\ r <= h
      BY <1>2, <1>7, <1>11 DEF unreserve_stock
    <2>2. /\ rows' = rows \cup {p}
          /\ stock' = [stock EXCEPT ![p] = Quantities(h, r)]
          /\ moves' = [moves EXCEPT ![p] = Moved(p, 0, ref, Manual)]
      BY <1>9, <1>11 DEF unreserve_stock
    <2> HIDE DEF r
    <2>3. StockType' /\ StockBalance'
      BY <2>1, <2>2, <1>8
    <2> QED
      BY <1>5, <2>3
  <1> QED
    BY <1>6, <1>10, <1>11

LEMMA InboundStep ==
    ASSUME Inv, NEW i \in Inbounds,
           \/ \E w \in Warehouses : create_inbound(i, w)
           \/ cancel_inbound(i)
           \/ \E lines \in Lines : receive(i, lines)
    PROVE  StockType' /\ StockBalance' /\ OrdersType'
  <1>1. StockType /\ OrdersType /\ StockBalance
    BY TypeSplit DEF Inv
  <1>2. CASE \E w \in Warehouses : create_inbound(i, w)
    BY <1>1, <1>2 DEF create_inbound, StockType, StockBalance, OrdersType, Order,
                      InboundStatus
  <1>3. CASE cancel_inbound(i)
    BY <1>1, <1>3 DEF cancel_inbound, StockType, StockBalance, OrdersType, Order,
                      InboundStatus
  <1>4. ASSUME NEW lines \in Lines, receive(i, lines)
        PROVE  StockType' /\ StockBalance' /\ OrdersType'
    <2>1. PICK L \in SUBSET Skus : lines \in [L -> Int]
      BY LinesType
    <2> DEFINE w == inbound[i].warehouse
    <2>2. w \in Warehouses
      BY <1>1 DEF OrdersType, Order
    <2>3. At(w, lines) \in [{w} \X L -> Int] /\ ({w} \X L) \in SUBSET Places
      BY <2>1, <2>2, AtType
    <2>4. <<"inbound_order", i>> \in Refs
      BY DEF Refs
    <2>5. AdjustAll(At(w, lines), <<"inbound_order", i>>, <<"inbound_order", i>>)
      BY <1>4 DEF receive
    <2>6. StockType' /\ StockBalance'
      BY <1>1, <2>3, <2>4, <2>5, AdjustAllKeeps
    <2>7. OrdersType'
      BY <1>1, <1>4 DEF receive, OrdersType, Order, InboundStatus
    <2> QED
      BY <2>6, <2>7
  <1> QED
    BY <1>2, <1>3, <1>4

LEMMA OutboundStep ==
    ASSUME Inv, NEW o \in Outbounds,
           \/ \E w \in Warehouses : create_outbound(o, w)
           \/ cancel_outbound(o)
           \/ \E lines \in Lines : ship(o, lines)
    PROVE  StockType' /\ StockBalance' /\ OrdersType'
  <1>1. StockType /\ OrdersType /\ StockBalance
    BY TypeSplit DEF Inv
  <1>2. CASE \E w \in Warehouses : create_outbound(o, w)
    BY <1>1, <1>2 DEF create_outbound, StockType, StockBalance, OrdersType, Order,
                      OutboundStatus
  <1>3. CASE cancel_outbound(o)
    BY <1>1, <1>3 DEF cancel_outbound, StockType, StockBalance, OrdersType, Order,
                      OutboundStatus
  <1>4. ASSUME NEW lines \in Lines, ship(o, lines)
        PROVE  StockType' /\ StockBalance' /\ OrdersType'
    <2>1. PICK L \in SUBSET Skus : lines \in [L -> Int]
      BY LinesType
    <2> DEFINE w == outbound[o].warehouse
               neg == [s \in DOMAIN lines |-> -lines[s]]
    <2>2. w \in Warehouses
      BY <1>1 DEF OrdersType, Order
    <2>3. neg \in [L -> Int]
      BY <2>1
    <2>4. AdjustAll(At(w, neg), <<"outbound_order", o>>, <<"outbound_order", o>>)
      BY <1>4 DEF ship
    <2> HIDE DEF neg
    <2>5. At(w, neg) \in [{w} \X L -> Int] /\ ({w} \X L) \in SUBSET Places
      BY <2>2, <2>3, AtType
    <2>6. <<"outbound_order", o>> \in Refs
      BY DEF Refs
    <2>7. StockType' /\ StockBalance'
      BY <1>1, <2>4, <2>5, <2>6, AdjustAllKeeps
    <2>8. OrdersType'
      BY <1>1, <1>4 DEF ship, OrdersType, Order, OutboundStatus
    <2> QED
      BY <2>7, <2>8
  <1> QED
    BY <1>2, <1>3, <1>4

LEMMA CountStep ==
    ASSUME Inv, NEW c \in Counts,
           \/ \E w \in Warehouses : create_count(c, w)
           \/ start_count(c)
           \/ \E counted \in Reports : submit_count_result(c, counted)
    PROVE  StockType' /\ StockBalance' /\ OrdersType'
  <1>1. StockType /\ OrdersType /\ StockBalance
    BY TypeSplit DEF Inv
  <1>2. CASE \E w \in Warehouses : create_count(c, w)
    BY <1>1, <1>2, NoCountType DEF create_count, StockType, StockBalance,
                                   OrdersType, Count, CountStatus
  <1>3. CASE start_count(c)
    BY <1>1, <1>3 DEF start_count, StockType, StockBalance, OrdersType, Count,
                      CountStatus
  <1>4. ASSUME NEW counted \in Reports, submit_count_result(c, counted)
        PROVE  StockType' /\ StockBalance' /\ OrdersType'
    <2> DEFINE v == Variances(counts[c].warehouse, counted)
    <2>1. counts[c].warehouse \in Warehouses
      BY <1>1 DEF OrdersType, Count
    <2>2. PICK D \in SUBSET Places : v \in [D -> Int]
      BY <1>1, <2>1, VariancesType
    <2>3. <<"stock_count", c>> \in Refs
      BY DEF Refs
    <2>4. AdjustAll(v, <<"stock_count", c>>, <<"stock_count", c>>)
      BY <1>4 DEF submit_count_result
    <2> HIDE DEF v
    <2>5. StockType' /\ StockBalance'
      BY <1>1, <2>2, <2>3, <2>4, AdjustAllKeeps
    <2>6. OrdersType'
      BY <1>1, <1>4 DEF submit_count_result, OrdersType, Count, CountStatus
    <2> QED
      BY <2>5, <2>6
  <1> QED
    BY <1>2, <1>3, <1>4

LEMMA NextInv == Inv /\ [Next]_vars => Inv'
  <1> SUFFICES ASSUME Inv, [Next]_vars PROVE Inv'
    OBVIOUS
  <1>2. CASE UNCHANGED vars
    BY <1>2 DEF vars, Inv, TypeOK, StockBalance
  <1>3. CASE Next
    <2>1. StockType' /\ StockBalance' /\ OrdersType'
      BY <1>3, StockStep, InboundStep, OutboundStep, CountStep DEF Next
    <2> QED
      BY <2>1 DEF Inv, TypeOK, StockType, OrdersType
  <1> QED
    BY <1>2, <1>3

\* Type correctness of the ledger, for every instance.
THEOREM TypeCorrect == Spec => []TypeOK
  <1>1. Inv => TypeOK
    BY DEF Inv
  <1> QED
    BY InitInv, NextInv, <1>1, PTL DEF Spec

\* Serial requests never oversell, however they are ordered: the reserved
\* units of every row are on hand and qty_available is exact.
THEOREM BalanceHolds == Spec => []StockBalance
  <1>1. Inv => StockBalance
    BY DEF Inv
  <1> QED
    BY InitInv, NextInv, <1>1, PTL DEF Spec

-----------------------------------------------------------------------------
(* What a request does to the movements: those of the places in D are each *)
(* extended by one movement booked by ref, which names ref too unless it   *)
(* is a client's; the others are kept.                                     *)

Kept(p) == stock'[p] = stock[p] /\ moves'[p] = moves[p]

Extended(p, ref) ==
    \E q \in Int, named \in Refs :
        /\ moves'[p] = Moved(p, q, named, ref)
        /\ ref # Manual => named = ref
        /\ stock'[p].qty_on_hand = stock[p].qty_on_hand + q

Books(D, ref) ==
    \A p \in Places : (p \in D => Extended(p, ref)) /\ (p \notin D => Kept(p))

LEMMA AdjustAllBooks ==
    ASSUME NEW D \in SUBSET Places, NEW change \in [D -> Int],
           NEW named \in Refs, NEW ref \in Refs, ref # Manual => named = ref,
           StockType, AdjustAll(change, named, ref)
    PROVE  Books(D, ref)
  <1> SUFFICES ASSUME NEW p \in Places
               PROVE  (p \in D => Extended(p, ref)) /\ (p \notin D => Kept(p))
    BY DEF Books
  <1>1. /\ DOMAIN change = D
        /\ stock'[p] = IF p \in D THEN Adjusted(stock[p], change[p]) ELSE stock[p]
        /\ moves'[p] = IF p \in D THEN Moved(p, change[p], named, ref) ELSE moves[p]
    BY DEF AdjustAll
  <1>2. ASSUME p \in D PROVE Extended(p, ref)
    <2>1. stock[p] \in Row /\ change[p] \in Int
      BY <1>2 DEF StockType
    <2>2. stock'[p].qty_on_hand = stock[p].qty_on_hand + change[p]
      BY <1>1, <1>2, <2>1, AdjustedType
    <2> QED
      BY <1>1, <1>2, <2>1, <2>2 DEF Extended
  <1> QED
    BY <1>1, <1>2 DEF Kept

LEMMA StockBooks ==
    ASSUME Inv, NEW p \in Places, NEW q \in Qty, NEW ref \in ClientRefs,
           adjust_stock(p, q, ref) \/ reserve_stock(p, q, ref) \/ unreserve_stock(p, q, ref)
    PROVE  Books({p}, Manual)
  <1>1. StockType /\ q \in Int /\ Manual \in Refs /\ ref \in Refs
    BY TypeSplit, QtyAssumption, ReferenceAssumption DEF Inv, Manual, Refs
  <1>2. CASE adjust_stock(p, q, ref)
    <2>1. [x \in {p} |-> q] \in [{p} -> Int] /\ {p} \in SUBSET Places
      BY <1>1
    <2> QED
      BY <1>1, <1>2, <2>1, AdjustAllBooks DEF adjust_stock
  <1>3. ASSUME NEW r \in Int,
               stock' = [stock EXCEPT ![p] = Quantities(stock[p].qty_on_hand, r)],
               moves' = [moves EXCEPT ![p] = Moved(p, 0, ref, Manual)]
        PROVE  Books({p}, Manual)
    <2>1. stock[p].qty_on_hand \in Int
      BY <1>1 DEF StockType, Row
    <2>2. Quantities(stock[p].qty_on_hand, r).qty_on_hand = stock[p].qty_on_hand + 0
      BY <2>1 DEF Quantities
    <2>3. /\ moves'[p] = Moved(p, 0, ref, Manual)
          /\ stock'[p].qty_on_hand = stock[p].qty_on_hand + 0
      BY <1>1, <1>3, <2>2 DEF StockType
    <2>4. Extended(p, Manual)
      BY <1>1, <2>3 DEF Extended
    <2>5. \A x \in Places : x # p => Kept(x)
      BY <1>1, <1>3 DEF StockType, Kept
    <2> QED
      BY <2>4, <2>5 DEF Books
  <1>4. stock[p].qty_reserved \in Int
    BY <1>1 DEF StockType, Row
  <1>5. stock[p].qty_reserved + q \in Int /\ stock[p].qty_reserved - q \in Int
    BY <1>1, <1>4
  <1>6. CASE reserve_stock(p, q, ref)
    BY <1>1, <1>3, <1>5, <1>6 DEF reserve_stock, StockType
  <1>7. CASE unreserve_stock(p, q, ref)
    BY <1>1, <1>3, <1>5, <1>7 DEF unreserve_stock, StockType
  <1> QED
    BY <1>2, <1>6, <1>7

\* A request with a line has a place.
LEMMA LinesPlaces ==
    ASSUME NEW w \in Warehouses, NEW L \in SUBSET Skus, L # {}
    PROVE  {w} \X L # {}
  <1>1. PICK s \in L : TRUE
    OBVIOUS
  <1>2. <<w, s>> \in {w} \X L
    OBVIOUS
  <1> QED
    BY <1>2

LEMMA LinesNonempty ==
    ASSUME NEW lines \in Lines
    PROVE  \E L \in SUBSET Skus : L # {} /\ lines \in [L -> Int]
  <1>1. PICK L \in (SUBSET Skus) \ {{}} : lines \in [L -> {q \in Qty : q > 0}]
    BY DEF Lines
  <1>2. {q \in Qty : q > 0} \subseteq Int
    BY QtyAssumption
  <1> QED
    BY <1>1, <1>2

LEMMA ReceiveBooks ==
    ASSUME Inv, NEW i \in Inbounds, NEW lines \in Lines, receive(i, lines)
    PROVE  \E D \in SUBSET Places : D # {} /\ Books(D, <<"inbound_order", i>>)
  <1>1. StockType /\ inbound[i].warehouse \in Warehouses
    BY DEF Inv, TypeOK, StockType, Order
  <1>2. PICK L \in SUBSET Skus : L # {} /\ lines \in [L -> Int]
    BY LinesNonempty
  <1> DEFINE w == inbound[i].warehouse
  <1>3. At(w, lines) \in [{w} \X L -> Int] /\ ({w} \X L) \in SUBSET Places
    BY <1>1, <1>2, AtType
  <1>4. Books({w} \X L, <<"inbound_order", i>>)
    BY <1>1, <1>3, AdjustAllBooks DEF receive, Refs
  <1> QED
    BY <1>1, <1>2, <1>3, <1>4, LinesPlaces

LEMMA ShipBooks ==
    ASSUME Inv, NEW o \in Outbounds, NEW lines \in Lines, ship(o, lines)
    PROVE  \E D \in SUBSET Places : D # {} /\ Books(D, <<"outbound_order", o>>)
  <1>1. StockType /\ outbound[o].warehouse \in Warehouses
    BY DEF Inv, TypeOK, StockType, Order
  <1>2. PICK L \in SUBSET Skus : L # {} /\ lines \in [L -> Int]
    BY LinesNonempty
  <1> DEFINE w == outbound[o].warehouse
             neg == [s \in DOMAIN lines |-> -lines[s]]
  <1>3. neg \in [L -> Int]
    BY <1>2
  <1>4. AdjustAll(At(w, neg), <<"outbound_order", o>>, <<"outbound_order", o>>)
    BY DEF ship
  <1> HIDE DEF neg
  <1>5. At(w, neg) \in [{w} \X L -> Int] /\ ({w} \X L) \in SUBSET Places
    BY <1>1, <1>3, AtType
  <1>6. Books({w} \X L, <<"outbound_order", o>>)
    BY <1>1, <1>4, <1>5, AdjustAllBooks DEF Refs
  <1> QED
    BY <1>1, <1>2, <1>5, <1>6, LinesPlaces

LEMMA SubmitBooks ==
    ASSUME Inv, NEW c \in Counts, NEW counted \in Reports,
           submit_count_result(c, counted)
    PROVE  \E D \in SUBSET Places : Books(D, <<"stock_count", c>>)
  <1>1. StockType /\ counts[c].warehouse \in Warehouses
    BY DEF Inv, TypeOK, StockType, Count
  <1> DEFINE v == Variances(counts[c].warehouse, counted)
  <1>2. PICK D \in SUBSET Places : v \in [D -> Int]
    BY <1>1, VariancesType
  <1>3. AdjustAll(v, <<"stock_count", c>>, <<"stock_count", c>>)
    BY DEF submit_count_result
  <1> HIDE DEF v
  <1> QED
    BY <1>1, <1>2, <1>3, AdjustAllBooks DEF Refs

LEMMA NothingBooks ==
    ASSUME UNCHANGED <<stock, moves>>
    PROVE  Books({}, Manual)
  BY DEF Books, Kept

\* Every step extends the movements of some places by one each.
LEMMA StepBooks ==
    ASSUME Inv, [Next]_vars
    PROVE  \E D \in SUBSET Places, by \in Refs : Books(D, by)
  <1>0. Manual \in Refs
    BY DEF Manual, Refs
  <1>1. CASE UNCHANGED <<stock, moves>>
    BY <1>0, <1>1, NothingBooks
  <1>2. ASSUME NEW p \in Places, NEW q \in Qty, NEW ref \in ClientRefs,
               adjust_stock(p, q, ref) \/ reserve_stock(p, q, ref)
               \/ unreserve_stock(p, q, ref)
        PROVE  \E D \in SUBSET Places, by \in Refs : Books(D, by)
    <2>1. Books({p}, Manual)
      BY <1>2, StockBooks
    <2> QED
      BY <1>0, <2>1
  <1>3. ASSUME NEW i \in Inbounds, NEW lines \in Lines, receive(i, lines)
        PROVE  \E D \in SUBSET Places, by \in Refs : Books(D, by)
    <2>1. <<"inbound_order", i>> \in Refs
      BY DEF Refs
    <2> QED
      BY <1>3, <2>1, ReceiveBooks
  <1>4. ASSUME NEW o \in Outbounds, NEW lines \in Lines, ship(o, lines)
        PROVE  \E D \in SUBSET Places, by \in Refs : Books(D, by)
    <2>1. <<"outbound_order", o>> \in Refs
      BY DEF Refs
    <2> QED
      BY <1>4, <2>1, ShipBooks
  <1>5. ASSUME NEW c \in Counts, NEW counted \in Reports,
               submit_count_result(c, counted)
        PROVE  \E D \in SUBSET Places, by \in Refs : Books(D, by)
    <2>1. <<"stock_count", c>> \in Refs
      BY DEF Refs
    <2> QED
      BY <1>5, <2>1, SubmitBooks
  <1> QED
    BY <1>1, <1>2, <1>3, <1>4, <1>5
       DEF Next, vars, create_inbound, cancel_inbound, create_outbound, cancel_outbound,
           create_count, start_count

-----------------------------------------------------------------------------
(* The movements account for the quantity on hand *)

\* One more movement of a place.
LEMMA ExtendedChain ==
    ASSUME StockType, NEW p \in Places, NEW ref \in Refs, Extended(p, ref)
    PROVE  /\ Len(moves'[p]) = Len(moves[p]) + 1
           /\ \A k \in 1..Len(moves[p]) : moves'[p][k] = moves[p][k]
           /\ moves'[p][Len(moves[p]) + 1].by = ref
           /\ ref # Manual => moves'[p][Len(moves[p]) + 1].reference = ref
           /\ SubSeq(moves'[p], 1, Len(moves[p])) = moves[p]
           /\ MovementChain(p) => MovementChain(p)'
  <1> DEFINE m == moves[p]
             n == Len(m)
  <1>1. m \in Seq(Movement) /\ n \in Nat
    BY DEF StockType
  <1>2. PICK q \in Int, named \in Refs :
          /\ moves'[p] = Moved(p, q, named, ref)
          /\ ref # Manual => named = ref
          /\ stock'[p].qty_on_hand = stock[p].qty_on_hand + q
    BY DEF Extended
  <1> DEFINE h == stock[p].qty_on_hand
             e == [qty_change |-> q, qty_before |-> h, qty_after |-> h + q,
                   reference |-> named, by |-> ref]
  <1>3. h \in Int
    BY DEF StockType, Row
  <1>4. e \in Movement
    BY <1>2, <1>3 DEF Movement
  <1>5. moves'[p] = Append(m, e)
    BY <1>2 DEF Moved
  <1>6. /\ e.qty_before = h /\ e.qty_after = h + q /\ e.qty_change = q
        /\ e.by = ref /\ (ref # Manual => e.reference = ref)
    BY <1>2
  <1> HIDE DEF e, m
  <1>7. /\ Append(m, e) \in Seq(Movement)
        /\ Len(Append(m, e)) = n + 1
        /\ \A k \in 1..n : Append(m, e)[k] = m[k]
        /\ Append(m, e)[n + 1] = e
    BY <1>1, <1>4
  <1>8. SubSeq(Append(m, e), 1, n) = m
    <2>1. Append(m, e) = m \o <<e>>
      BY <1>1, <1>4
    <2>2. SubSeq(m \o <<e>>, 1, n) = SubSeq(m, 1, n)
      BY <1>1, <1>4, SubSeqOfConcat1
    <2>3. SubSeq(m, 1, n) = m
      BY <1>1, SubSeqFull
    <2> QED
      BY <2>1, <2>2, <2>3
  <1>9. ASSUME MovementChain(p) PROVE MovementChain(p)'
    <2>1. /\ \A k \in 1..n : /\ m[k].qty_after = m[k].qty_before + m[k].qty_change
                             /\ m[k].qty_before = IF k = 1 THEN 0 ELSE m[k - 1].qty_after
          /\ h = IF m = <<>> THEN 0 ELSE m[n].qty_after
      BY <1>9 DEF MovementChain, m
    <2>2. m = <<>> <=> n = 0
      BY <1>1
    <2> DEFINE a == moves'[p]
    <2>3. ASSUME NEW k \in 1..(n + 1)
          PROVE  /\ a[k].qty_after = a[k].qty_before + a[k].qty_change
                 /\ a[k].qty_before = IF k = 1 THEN 0 ELSE a[k - 1].qty_after
      <3>1. CASE k \in 1..n
        <4>1. a[k] = m[k] /\ (k # 1 => a[k - 1] = m[k - 1])
          BY <1>1, <1>5, <1>7, <3>1
        <4> QED
          BY <2>1, <3>1, <4>1
      <3>2. CASE k = n + 1
        <4>1. a[k] = e /\ (k # 1 => n \in 1..n /\ a[k - 1] = m[n])
          BY <1>1, <1>5, <1>7, <3>2
        <4> QED
          BY <1>1, <1>3, <1>6, <2>1, <2>2, <3>2, <4>1
      <3> QED
        BY <1>1, <3>1, <3>2
    <2>4. a # <<>> /\ Len(a) = n + 1 /\ a[n + 1] = e
      BY <1>1, <1>5, <1>7
    <2>5. stock'[p].qty_on_hand = a[Len(a)].qty_after
      BY <1>2, <1>6, <2>4
    <2> QED
      BY <2>3, <2>4, <2>5 DEF MovementChain
  <1> QED
    BY <1>5, <1>6, <1>7, <1>8, <1>9 DEF m

LEMMA InitLedger == Init => LedgerAccounts
  BY DEF Init, LedgerAccounts, MovementChain, NewRow

LEMMA NextLedger == Inv /\ LedgerAccounts /\ [Next]_vars => LedgerAccounts'
  <1> SUFFICES ASSUME Inv, LedgerAccounts, [Next]_vars, NEW p \in Places
               PROVE  MovementChain(p)'
    BY DEF LedgerAccounts
  <1>1. StockType /\ MovementChain(p)
    BY DEF Inv, TypeOK, StockType, LedgerAccounts
  <1>2. PICK D \in SUBSET Places, ref \in Refs : Books(D, ref)
    BY StepBooks
  <1>3. Extended(p, ref) \/ Kept(p)
    BY <1>2 DEF Books
  <1>4. CASE Kept(p)
    BY <1>1, <1>4 DEF Kept, MovementChain
  <1> QED
    BY <1>1, <1>3, <1>4, ExtendedChain

\* The stock movements are an unbroken account of every row's quantity on hand,
\* which the services write in statements of their own.
THEOREM LedgerHolds == Spec => []LedgerAccounts
  <1>1. Init => Inv /\ LedgerAccounts
    BY InitInv, InitLedger
  <1>2. (Inv /\ LedgerAccounts) /\ [Next]_vars => (Inv /\ LedgerAccounts)'
    BY NextInv, NextLedger
  <1> QED
    BY <1>1, <1>2, PTL DEF Spec

\* No request rewrites or removes a movement, or changes a row without one.
THEOREM LedgerOnlyGrows == Spec => LedgerGrows
  <1> DEFINE Grows(p) ==
        /\ Len(moves'[p]) >= Len(moves[p])
        /\ SubSeq(moves'[p], 1, Len(moves[p])) = moves[p]
        /\ stock'[p] # stock[p] => Len(moves'[p]) > Len(moves[p])
  <1>1. Inv /\ [Next]_vars => [\A p \in Places : Grows(p)]_vars
    <2> SUFFICES ASSUME Inv, [Next]_vars, NEW p \in Places PROVE Grows(p)
      OBVIOUS
    <2>1. StockType /\ moves[p] \in Seq(Movement)
      BY DEF Inv, TypeOK, StockType
    <2>2. PICK D \in SUBSET Places, ref \in Refs : Books(D, ref)
      BY StepBooks
    <2>3. Extended(p, ref) \/ Kept(p)
      BY <2>2 DEF Books
    <2>4. CASE Kept(p)
      BY <2>1, <2>4, SubSeqFull DEF Kept
    <2>5. CASE Extended(p, ref)
      BY <2>1, <2>5, ExtendedChain
    <2> QED
      BY <2>3, <2>4, <2>5
  <1> QED
    BY <1>1, InitInv, NextInv, PTL DEF Spec, LedgerGrows

-----------------------------------------------------------------------------
(* The status of an order tells whether it has moved stock *)

LEMMA BookedAfter ==
    ASSUME StockType, NEW D \in SUBSET Places, NEW ref \in Refs, Books(D, ref),
           NEW r \in Refs, r # Manual
    PROVE  Booked(r)' <=> Booked(r) \/ (r = ref /\ D # {})
  <1>1. ASSUME NEW p \in Places
        PROVE  (\E k \in 1..Len(moves'[p]) : moves'[p][k].by = r /\ moves'[p][k].reference = r)
                 <=> (\E k \in 1..Len(moves[p]) : moves[p][k].by = r /\ moves[p][k].reference = r)
                        \/ (r = ref /\ p \in D)
    <2>1. Len(moves[p]) \in Nat
      BY DEF StockType
    <2>2. CASE p \in D
      <3>1. Extended(p, ref)
        BY <2>2 DEF Books
      <3>2. /\ Len(moves'[p]) = Len(moves[p]) + 1
            /\ \A k \in 1..Len(moves[p]) : moves'[p][k] = moves[p][k]
            /\ moves'[p][Len(moves[p]) + 1].by = ref
            /\ ref # Manual => moves'[p][Len(moves[p]) + 1].reference = ref
        BY <3>1, ExtendedChain
      <3>3. 1..(Len(moves[p]) + 1) = 1..Len(moves[p]) \cup {Len(moves[p]) + 1}
        BY <2>1
      <3> QED
        BY <2>2, <3>2, <3>3
    <2>3. CASE p \notin D
      BY <2>3 DEF Books, Kept
    <2> QED
      BY <2>2, <2>3
  <1> QED
    BY <1>1 DEF Booked

InboundRef(i) == <<"inbound_order", i>>
OutboundRef(o) == <<"outbound_order", o>>

InboundTells(i) == (inbound[i].status = "received") <=> Booked(InboundRef(i))
OutboundTells(o) == (outbound[o].status = "shipped") <=> Booked(OutboundRef(o))

LEMMA TellsSplit ==
    OrdersTellStock <=> /\ \A i \in Inbounds : InboundTells(i)
                        /\ \A o \in Outbounds : OutboundTells(o)
  BY DEF OrdersTellStock, InboundTells, OutboundTells, InboundRef, OutboundRef

LEMMA InboundTellsNext ==
    ASSUME Inv, OrdersTellStock, [Next]_vars, NEW i \in Inbounds
    PROVE  InboundTells(i)'
  <1>1. /\ StockType /\ inbound \in [Inbounds -> Order(InboundStatus)]
        /\ \A j \in Inbounds : InboundTells(j)
    BY TellsSplit DEF Inv, TypeOK, StockType
  <1>2. \A j \in Inbounds : InboundRef(j) \in Refs /\ InboundRef(j) # Manual
    BY DEF InboundRef, Refs, Manual
  <1>3. CASE UNCHANGED <<inbound, stock, moves>>
    BY <1>1, <1>3 DEF InboundTells, Booked
  <1>4. ASSUME NEW D \in SUBSET Places, NEW ref \in Refs, Books(D, ref),
               ref # InboundRef(i), UNCHANGED inbound
        PROVE  InboundTells(i)'
    BY <1>1, <1>2, <1>4, BookedAfter DEF InboundTells
  <1>5. ASSUME NEW p \in Places, NEW q \in Qty, NEW ref \in ClientRefs,
               adjust_stock(p, q, ref) \/ reserve_stock(p, q, ref)
               \/ unreserve_stock(p, q, ref)
        PROVE  InboundTells(i)'
    <2>1. Books({p}, Manual) /\ {p} \in SUBSET Places
      BY <1>5, StockBooks
    <2>2. Manual \in Refs /\ Manual # InboundRef(i)
      BY DEF Manual, Refs, InboundRef
    <2>3. UNCHANGED inbound
      BY <1>5 DEF adjust_stock, reserve_stock, unreserve_stock
    <2> QED
      BY <1>4, <2>1, <2>2, <2>3
  <1>6. ASSUME NEW j \in Inbounds, NEW w \in Warehouses, create_inbound(j, w)
        PROVE  InboundTells(i)'
    BY <1>1, <1>6 DEF create_inbound, InboundTells, Booked
  <1>7. ASSUME NEW j \in Inbounds, cancel_inbound(j)
        PROVE  InboundTells(i)'
    BY <1>1, <1>7 DEF cancel_inbound, InboundTells, Booked, Order
  <1>8. ASSUME NEW j \in Inbounds, NEW lines \in Lines, receive(j, lines)
        PROVE  InboundTells(i)'
    <2>1. PICK D \in SUBSET Places : D # {} /\ Books(D, InboundRef(j))
      BY <1>8, ReceiveBooks DEF InboundRef
    <2>2. Booked(InboundRef(i))' <=> Booked(InboundRef(i)) \/ i = j
      <3>1. (InboundRef(i) = InboundRef(j)) <=> (i = j)
        BY DEF InboundRef
      <3> QED
        BY <1>1, <1>2, <2>1, <3>1, BookedAfter
    <2>3. inbound'[i].status = IF i = j THEN "received" ELSE inbound[i].status
      BY <1>1, <1>8 DEF receive, Order
    <2> QED
      BY <1>1, <2>2, <2>3 DEF InboundTells
  <1>9. ASSUME NEW o \in Outbounds, NEW lines \in Lines, ship(o, lines)
        PROVE  InboundTells(i)'
    <2>1. PICK D \in SUBSET Places : Books(D, <<"outbound_order", o>>)
      BY <1>9, ShipBooks
    <2>2. <<"outbound_order", o>> \in Refs /\ <<"outbound_order", o>> # InboundRef(i)
      BY DEF Refs, InboundRef
    <2>3. UNCHANGED inbound
      BY <1>9 DEF ship
    <2> QED
      BY <1>4, <2>1, <2>2, <2>3
  <1>10. ASSUME NEW c \in Counts, NEW counted \in Reports, submit_count_result(c, counted)
         PROVE  InboundTells(i)'
    <2>1. PICK D \in SUBSET Places : Books(D, <<"stock_count", c>>)
      BY <1>10, SubmitBooks
    <2>2. <<"stock_count", c>> \in Refs /\ <<"stock_count", c>> # InboundRef(i)
      BY DEF Refs, InboundRef
    <2>3. UNCHANGED inbound
      BY <1>10 DEF submit_count_result
    <2> QED
      BY <1>4, <2>1, <2>2, <2>3
  <1> QED
    BY <1>3, <1>5, <1>6, <1>7, <1>8, <1>9, <1>10
       DEF Next, vars, create_outbound, cancel_outbound, create_count, start_count

LEMMA OutboundTellsNext ==
    ASSUME Inv, OrdersTellStock, [Next]_vars, NEW o \in Outbounds
    PROVE  OutboundTells(o)'
  <1>1. /\ StockType /\ outbound \in [Outbounds -> Order(OutboundStatus)]
        /\ \A p \in Outbounds : OutboundTells(p)
    BY TellsSplit DEF Inv, TypeOK, StockType
  <1>2. \A p \in Outbounds : OutboundRef(p) \in Refs /\ OutboundRef(p) # Manual
    BY DEF OutboundRef, Refs, Manual
  <1>3. CASE UNCHANGED <<outbound, stock, moves>>
    BY <1>1, <1>3 DEF OutboundTells, Booked
  <1>4. ASSUME NEW D \in SUBSET Places, NEW ref \in Refs, Books(D, ref),
               ref # OutboundRef(o), UNCHANGED outbound
        PROVE  OutboundTells(o)'
    BY <1>1, <1>2, <1>4, BookedAfter DEF OutboundTells
  <1>5. ASSUME NEW x \in Places, NEW q \in Qty, NEW ref \in ClientRefs,
               adjust_stock(x, q, ref) \/ reserve_stock(x, q, ref)
               \/ unreserve_stock(x, q, ref)
        PROVE  OutboundTells(o)'
    <2>1. Books({x}, Manual) /\ {x} \in SUBSET Places
      BY <1>5, StockBooks
    <2>2. Manual \in Refs /\ Manual # OutboundRef(o)
      BY DEF Manual, Refs, OutboundRef
    <2>3. UNCHANGED outbound
      BY <1>5 DEF adjust_stock, reserve_stock, unreserve_stock
    <2> QED
      BY <1>4, <2>1, <2>2, <2>3
  <1>6. ASSUME NEW p \in Outbounds, NEW w \in Warehouses, create_outbound(p, w)
        PROVE  OutboundTells(o)'
    BY <1>1, <1>6 DEF create_outbound, OutboundTells, Booked
  <1>7. ASSUME NEW p \in Outbounds, cancel_outbound(p)
        PROVE  OutboundTells(o)'
    BY <1>1, <1>7 DEF cancel_outbound, OutboundTells, Booked, Order
  <1>8. ASSUME NEW p \in Outbounds, NEW lines \in Lines, ship(p, lines)
        PROVE  OutboundTells(o)'
    <2>1. PICK D \in SUBSET Places : D # {} /\ Books(D, OutboundRef(p))
      BY <1>8, ShipBooks DEF OutboundRef
    <2>2. Booked(OutboundRef(o))' <=> Booked(OutboundRef(o)) \/ o = p
      <3>1. (OutboundRef(o) = OutboundRef(p)) <=> (o = p)
        BY DEF OutboundRef
      <3> QED
        BY <1>1, <1>2, <2>1, <3>1, BookedAfter
    <2>3. outbound'[o].status = IF o = p THEN "shipped" ELSE outbound[o].status
      BY <1>1, <1>8 DEF ship, Order
    <2> QED
      BY <1>1, <2>2, <2>3 DEF OutboundTells
  <1>9. ASSUME NEW i \in Inbounds, NEW lines \in Lines, receive(i, lines)
        PROVE  OutboundTells(o)'
    <2>1. PICK D \in SUBSET Places : Books(D, <<"inbound_order", i>>)
      BY <1>9, ReceiveBooks
    <2>2. <<"inbound_order", i>> \in Refs /\ <<"inbound_order", i>> # OutboundRef(o)
      BY DEF Refs, OutboundRef
    <2>3. UNCHANGED outbound
      BY <1>9 DEF receive
    <2> QED
      BY <1>4, <2>1, <2>2, <2>3
  <1>10. ASSUME NEW c \in Counts, NEW counted \in Reports, submit_count_result(c, counted)
         PROVE  OutboundTells(o)'
    <2>1. PICK D \in SUBSET Places : Books(D, <<"stock_count", c>>)
      BY <1>10, SubmitBooks
    <2>2. <<"stock_count", c>> \in Refs /\ <<"stock_count", c>> # OutboundRef(o)
      BY DEF Refs, OutboundRef
    <2>3. UNCHANGED outbound
      BY <1>10 DEF submit_count_result
    <2> QED
      BY <1>4, <2>1, <2>2, <2>3
  <1> QED
    BY <1>3, <1>5, <1>6, <1>7, <1>8, <1>9, <1>10
       DEF Next, vars, create_inbound, cancel_inbound, create_count, start_count

\* An order is called received (shipped) exactly when it has moved stock itself,
\* in a movement that refers to it, although receive and ship never look at its
\* status and a client's stock request may name any order.
THEOREM OrdersHold == Spec => []OrdersTellStock
  <1>1. Init => Inv /\ OrdersTellStock
    <2>1. ASSUME Init PROVE OrdersTellStock
      <3>1. \A p \in Places : 1..Len(moves[p]) = {}
        BY <2>1 DEF Init
      <3>2. \A ref : ~Booked(ref)
        BY <3>1 DEF Booked
      <3>3. NoOrder.status = "absent"
        BY DEF NoOrder
      <3> QED
        BY <2>1, <3>2, <3>3 DEF Init, OrdersTellStock
    <2> QED
      BY <2>1, InitInv
  <1>2. (Inv /\ OrdersTellStock) /\ [Next]_vars => (Inv /\ OrdersTellStock)'
    <2>1. ASSUME Inv, OrdersTellStock, [Next]_vars PROVE OrdersTellStock'
      <3>1. /\ \A i \in Inbounds : InboundTells(i)'
            /\ \A o \in Outbounds : OutboundTells(o)'
        BY <2>1, InboundTellsNext, OutboundTellsNext
      <3> QED
        BY <3>1 DEF OrdersTellStock, InboundTells, OutboundTells, InboundRef, OutboundRef
    <2> QED
      BY <2>1, NextInv
  <1> QED
    BY <1>1, <1>2, PTL DEF Spec

-----------------------------------------------------------------------------
(* A completed count *)

Settles(c) ==
    \A p \in rows :
        /\ p \in Reported(c) => stock'[p].qty_on_hand = counts'[c].counted[p[2]]
        /\ p \notin Reported(c) => stock'[p] = stock[p]
        /\ stock'[p].qty_reserved = stock[p].qty_reserved

LEMMA SubmitSettles ==
    ASSUME Inv, NEW c \in Counts, NEW counted \in Reports, submit_count_result(c, counted)
    PROVE  /\ Settles(c)
           /\ \A d \in Counts : Completes(d) => d = c
  <1>1. StockType /\ counts \in [Counts -> Count]
    BY DEF Inv, TypeOK, StockType
  <1> DEFINE w == counts[c].warehouse
             off == {p \in ({w} \X DOMAIN counted) \cap rows :
                        counted[p[2]] # stock[p].qty_on_hand}
             v == Variances(w, counted)
  <1>2. v = [p \in off |-> counted[p[2]] - stock[p].qty_on_hand]
    BY DEF Variances
  <1>3. AdjustAll(v, <<"stock_count", c>>, <<"stock_count", c>>)
    BY DEF submit_count_result
  <1>4. counts' = [counts EXCEPT ![c].status = "completed", ![c].counted = counted]
    BY DEF submit_count_result
  <1>5. counts'[c].counted = counted /\ counts'[c].warehouse = w
    BY <1>1, <1>4 DEF Count
  <1>6. \A d \in Counts : d # c => counts'[d] = counts[d]
    BY <1>1, <1>4
  <1>7. ASSUME NEW p \in rows
        PROVE  /\ p \in Reported(c) => stock'[p].qty_on_hand = counts'[c].counted[p[2]]
               /\ p \notin Reported(c) => stock'[p] = stock[p]
               /\ stock'[p].qty_reserved = stock[p].qty_reserved
    <2>1. p \in Places /\ stock[p] \in Row
      BY <1>1 DEF StockType
    <2>2. stock'[p] = IF p \in off THEN Adjusted(stock[p], v[p]) ELSE stock[p]
      BY <1>2, <1>3, <2>1 DEF AdjustAll
    <2>3. Reported(c) = {w} \X DOMAIN counted
      BY <1>5 DEF Reported
    <2>4. CASE p \in off
      <3>1. PICK L \in SUBSET Skus : counted \in [L -> Int]
        BY ReportsType
      <3>2. p[2] \in L
        BY <2>4, <3>1
      <3>3. counted[p[2]] \in Int /\ stock[p].qty_on_hand \in Int
        BY <2>1, <3>1, <3>2 DEF Row
      <3>4. v[p] = counted[p[2]] - stock[p].qty_on_hand /\ v[p] \in Int
        BY <1>2, <2>4, <3>3
      <3>5. /\ stock'[p].qty_on_hand = stock[p].qty_on_hand + v[p]
            /\ stock'[p].qty_reserved = stock[p].qty_reserved
        BY <2>1, <2>2, <2>4, <3>4, AdjustedType
      <3>6. stock'[p].qty_on_hand = counted[p[2]]
        BY <3>3, <3>4, <3>5
      <3> QED
        BY <1>5, <2>3, <2>4, <3>5, <3>6
    <2>5. CASE p \notin off
      BY <1>5, <2>2, <2>3, <2>5
    <2> QED
      BY <2>4, <2>5
  <1>8. \A d \in Counts : Completes(d) => d = c
    BY <1>6 DEF Completes
  <1> QED
    BY <1>7, <1>8 DEF Settles

LEMMA NextSettles ==
    ASSUME Inv, [Next]_vars, NEW c \in Counts, Completes(c)
    PROVE  Settles(c)
  <1>1. counts \in [Counts -> Count]
    BY DEF Inv, TypeOK
  <1>2. ~UNCHANGED counts
    BY DEF Completes
  <1>3. ASSUME NEW d \in Counts, NEW w \in Warehouses, create_count(d, w)
        PROVE  FALSE
    BY <1>1, <1>3 DEF create_count, Completes
  <1>4. ASSUME NEW d \in Counts, start_count(d)
        PROVE  FALSE
    BY <1>1, <1>4 DEF start_count, Completes, Count
  <1>5. PICK d \in Counts, counted \in Reports : submit_count_result(d, counted)
    BY <1>2, <1>3, <1>4
       DEF Next, vars, adjust_stock, reserve_stock, unreserve_stock, create_inbound,
           cancel_inbound, receive, create_outbound, cancel_outbound, ship
  <1> QED
    BY <1>5, SubmitSettles

\* The step that completes a count leaves the counted rows at the counted
\* quantities and their reservations, and every other row, alone.
THEOREM CountsSettle == Spec => CountSettlesRows
  <1>1. Inv /\ [Next]_vars
          => [\A c \in Counts : Completes(c) =>
                \A p \in rows :
                   /\ p \in Reported(c) => stock'[p].qty_on_hand = counts'[c].counted[p[2]]
                   /\ p \notin Reported(c) => stock'[p] = stock[p]
                   /\ stock'[p].qty_reserved = stock[p].qty_reserved]_vars
    BY NextSettles DEF Settles
  <1> QED
    BY <1>1, InitInv, NextInv, PTL DEF Spec, CountSettlesRows
=============================================================================
