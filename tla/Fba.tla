-------------------------------- MODULE Fba --------------------------------
(***************************************************************************)
(* FBA: shipments and their box labels, stock at Amazon, replenishment and *)
(* inbound plans, exceptions.  Each kind of row has services that move its *)
(* status along a table and others that set it directly.                   *)
(***************************************************************************)
EXTENDS Records

CONSTANT FbaUnits    \* bound: units a request may name

ASSUME FbaAssumption == FbaUnits \subseteq Nat

FbaShipmentTable ==
    [draft            |-> {"submitted", "cancelled"},
     submitted        |-> {"in_review", "cancelled"},
     in_review        |-> {"working", "cancelled"},
     working          |-> {"shipped", "cancelled"},
     shipped          |-> {"received", "partial_received", "cancelled"},
     partial_received |-> {"received", "cancelled"},
     received         |-> {"closed"},
     closed           |-> {},
     cancelled        |-> {}]

BoxLabelTable ==
    [created  |-> {"printed", "voided"}, printed |-> {"attached", "voided"},
     attached |-> {}, voided |-> {}]

ReplenishmentTable ==
    [pending     |-> {"approved", "rejected", "cancelled"},
     approved    |-> {"in_progress", "cancelled"},
     in_progress |-> {"completed", "cancelled"},
     completed   |-> {}, rejected |-> {}, cancelled |-> {}]

InboundPlanTable ==
    [draft       |-> {"submitted", "cancelled"},
     submitted   |-> {"confirmed", "cancelled"},
     confirmed   |-> {"in_progress", "cancelled"},
     in_progress |-> {"shipped", "cancelled"},
     shipped     |-> {"completed", "cancelled"},
     completed   |-> {}, cancelled |-> {}]

ExceptionTable ==
    [open          |-> {"investigating", "escalated", "closed"},
     investigating |-> {"resolved", "escalated", "closed"},
     escalated     |-> {"investigating", "resolved", "closed"},
     resolved      |-> {"closed"},
     closed        |-> {}]

-----------------------------------------------------------------------------
(* Shipments; plan: the inbound plan it was split from, or 0 *)

FbaShipmentRow(plan) ==
    [kind |-> "fba_shipment", status |-> "draft", shipped_at |-> FALSE,
     received_at |-> FALSE, tracked |-> FALSE, plan |-> plan, deleted |-> FALSE]

FbaShipmentCreate == Inserts(FbaShipmentRow(0))

\* Deleted shipments are not found.
OpensShipment(d, i) == Opens(d, i, "fba_shipment") /\ ~row[i].deleted

FbaShipmentUpdateStatus(d, i) ==
    /\ OpensShipment(d, i)
    /\ \E t \in FbaShipmentTable[row[i].status] :
          Sets(d, i, {"status", "deleted"},
               CASE t = "shipped"  -> [status |-> t, shipped_at |-> TRUE]
                 [] t = "received" -> [status |-> t, received_at |-> TRUE]
                 [] OTHER          -> [status |-> t])

FbaUpdateTracking(d, i) ==
    /\ OpensShipment(d, i)
    /\ row[i].status \in {"working", "shipped"}
    /\ Sets(d, i, {"status", "deleted"}, [tracked |-> TRUE])

\* Mutant of FbaReceivePartial: goods may arrive before the shipment was shipped.
FbaReceivePartialEarly(d, i) ==
    /\ OpensShipment(d, i)
    /\ row[i].status \in {"working", "shipped", "partial_received"}
    /\ Sets(d, i, {"deleted"}, [status |-> "partial_received"])

\* The received units are checked and stored nowhere.
FbaReceivePartial(d, i) ==
    /\ OpensShipment(d, i)
    /\ row[i].status \in {"shipped", "partial_received"}
    /\ Sets(d, i, {"deleted"}, [status |-> "partial_received"])

\* What it changes (name, destination, ...) is not modelled.
FbaShipmentUpdate(d, i) ==
    /\ OpensShipment(d, i)
    /\ row[i].status \in {"working", "cancelled"}
    /\ Sets(d, i, {"status", "deleted"}, None)

FbaShipmentDelete(d, i) ==
    /\ OpensShipment(d, i)
    /\ row[i].status \in {"working", "cancelled"}
    /\ Sets(d, i, {"status"}, [deleted |-> TRUE])

-----------------------------------------------------------------------------
(* Box labels *)

\* Mutant of BoxLabelCreate: whatever the shipment's status.
BoxLabelCreateAnytime(d, i) ==
    /\ OpensShipment(d, i)
    /\ Adds(d, i, {"status", "deleted"},
            [kind |-> "box_label", status |-> "created", printed_at |-> FALSE,
             of |-> i])

BoxLabelCreate(d, i) ==
    /\ OpensShipment(d, i)
    /\ row[i].status \notin {"cancelled", "closed"}
    /\ Adds(d, i, {"status", "deleted"},
            [kind |-> "box_label", status |-> "created", printed_at |-> FALSE,
             of |-> i])

\* Printing and voiding are routed; nothing looks at the shipment any more.
BoxLabelUpdateStatus(d, i) ==
    /\ Opens(d, i, "box_label")
    /\ \E t \in BoxLabelTable[row[i].status] :
          Sets(d, i, {"status"}, IF t = "printed" THEN [status |-> t, printed_at |-> TRUE]
                                                  ELSE [status |-> t])

-----------------------------------------------------------------------------
(* Stock at Amazon: one of its quantity columns *)

FbaInventoryCreate ==
    \E q \in FbaUnits : Inserts([kind |-> "fba_inventory", count |-> q])

UpdateQuantities(d, i) ==
    /\ Opens(d, i, "fba_inventory")
    /\ \E q \in FbaUnits : Counts(d, i, {}, [count |-> q], q - row[i].count)

\* Mutant of AdjustQuantity: the delta replaces the quantity.
AdjustQuantityReplaces(d, i) ==
    /\ Opens(d, i, "fba_inventory")
    /\ \E delta \in {-1, 1} :
          /\ row[i].count + delta \in FbaUnits
          /\ Counts(d, i, {}, [count |-> IF delta < 0 THEN 0 ELSE delta], delta)

AdjustQuantity(d, i) ==
    /\ Opens(d, i, "fba_inventory")
    /\ \E delta \in {-1, 1} :
          /\ row[i].count + delta \in FbaUnits     \* not negative; bounded above
          /\ Counts(d, i, {}, [count |-> row[i].count + delta], delta)

-----------------------------------------------------------------------------
(* Replenishment and inbound plans *)

ReplenishmentCreate ==
    Inserts([kind |-> "replenishment", status |-> "pending", approved_at |-> FALSE,
                linked |-> FALSE])

ReplenishmentApprove(d, i) ==
    /\ Opens(d, i, "replenishment")
    /\ "approved" \in ReplenishmentTable[row[i].status]
    /\ Sets(d, i, {}, [status |-> "approved", approved_at |-> TRUE])

ReplenishmentReject(d, i) ==
    /\ Opens(d, i, "replenishment")
    /\ "rejected" \in ReplenishmentTable[row[i].status]
    /\ Sets(d, i, {}, [status |-> "rejected"])

\* Mutant of LinkShipment: a plan that waits for its approval is linked too.
LinkShipmentPending(d, i) ==
    /\ Opens(d, i, "replenishment")
    /\ row[i].status \in {"pending", "approved", "in_progress"}
    /\ Sets(d, i, {}, [status |-> "in_progress", linked |-> TRUE])

LinkShipment(d, i) ==
    /\ Opens(d, i, "replenishment")
    /\ row[i].status \in {"approved", "in_progress"}
    /\ Sets(d, i, {}, [status |-> "in_progress", linked |-> TRUE])

InboundPlanCreate ==
    \E u \in FbaUnits :
        Inserts([kind |-> "inbound_plan", status |-> "draft", submitted_at |-> FALSE,
                    completed_at |-> FALSE, total_units |-> u])

\* Submitting by update_status skips the validation of submit().
InboundPlanUpdateStatus(d, i) ==
    /\ Opens(d, i, "inbound_plan")
    /\ \E t \in InboundPlanTable[row[i].status] :
          Sets(d, i, {"status"},
               CASE t = "submitted" -> [status |-> t, submitted_at |-> TRUE]
                 [] t = "completed" -> [status |-> t, completed_at |-> TRUE]
                 [] OTHER           -> [status |-> t])

\* In any status of the plan and as often as it is called; a plan of one item
\* gives one shipment.
SplitPlan(d, i) ==
    /\ Opens(d, i, "inbound_plan")
    /\ row[i].total_units > 0
    /\ Adds(d, i, {"total_units"}, FbaShipmentRow(i))

-----------------------------------------------------------------------------
(* Exceptions *)

ExceptionCreate ==
    Inserts([kind |-> "fba_exception", status |-> "open", resolved_at |-> FALSE,
                assigned |-> FALSE])

ExceptionUpdateStatus(d, i) ==
    /\ Opens(d, i, "fba_exception")
    /\ \E t \in ExceptionTable[row[i].status] :
          Sets(d, i, {"status"}, IF t = "resolved" THEN [status |-> t, resolved_at |-> TRUE]
                                                   ELSE [status |-> t])

ExceptionAssign(d, i) ==
    /\ Opens(d, i, "fba_exception")
    /\ Sets(d, i, {"status"},
            IF row[i].status = "open" THEN [assigned |-> TRUE, status |-> "investigating"]
                                      ELSE [assigned |-> TRUE])

ExceptionResolve(d, i) ==
    /\ Opens(d, i, "fba_exception")
    /\ row[i].status \in {"investigating", "escalated"}
    /\ Sets(d, i, {}, [status |-> "resolved", resolved_at |-> TRUE])

\* Mutant of ExceptionEscalate: from every status.
ExceptionEscalateAny(d, i) ==
    /\ Opens(d, i, "fba_exception")
    /\ Sets(d, i, {}, [status |-> "escalated"])

ExceptionEscalate(d, i) ==
    /\ Opens(d, i, "fba_exception")
    /\ row[i].status \in {"open", "investigating"}
    /\ Sets(d, i, {}, [status |-> "escalated"])

FbaNext ==
    \/ FbaShipmentCreate \/ FbaInventoryCreate \/ ReplenishmentCreate
    \/ InboundPlanCreate \/ ExceptionCreate
    \/ \E d \in Desks, i \in Ids :
        \/ FbaShipmentUpdateStatus(d, i) \/ FbaUpdateTracking(d, i)
        \/ FbaReceivePartial(d, i) \/ FbaShipmentUpdate(d, i) \/ FbaShipmentDelete(d, i)
        \/ BoxLabelUpdateStatus(d, i) \/ UpdateQuantities(d, i) \/ AdjustQuantity(d, i)
        \/ ReplenishmentApprove(d, i) \/ ReplenishmentReject(d, i) \/ LinkShipment(d, i)
        \/ InboundPlanUpdateStatus(d, i)
        \/ ExceptionUpdateStatus(d, i) \/ ExceptionAssign(d, i)
        \/ ExceptionResolve(d, i) \/ ExceptionEscalate(d, i)
        \/ BoxLabelCreate(d, i) \/ SplitPlan(d, i)

-----------------------------------------------------------------------------
(* Properties *)

\* The statuses that no service of the kind leaves.
FbaFinal(r) ==
    CASE r.kind = "fba_shipment"  -> r.status \in {"closed", "cancelled"}
      [] r.kind = "box_label"     -> r.status \in {"attached", "voided"}
      [] r.kind = "replenishment" -> r.status \in {"completed", "rejected", "cancelled"}
      [] r.kind = "inbound_plan"  -> r.status \in {"completed", "cancelled"}
      [] r.kind = "fba_exception" -> r.status = "closed"
      [] OTHER                    -> FALSE

\* The dates a status goes with.
FbaDated(r) ==
    CASE r.kind = "fba_shipment" ->
            /\ r.status \in {"shipped", "partial_received", "received", "closed"} => r.shipped_at
            /\ r.status \in {"received", "closed"} => r.received_at
      [] r.kind = "box_label"     -> r.status \in {"printed", "attached"} => r.printed_at
      [] r.kind = "replenishment" -> r.status \in {"approved", "in_progress"} => r.approved_at
      [] r.kind = "inbound_plan"  ->
            /\ r.status \notin {"draft", "cancelled"} => r.submitted_at
            /\ r.status = "completed" => r.completed_at
      [] r.kind = "fba_exception" -> r.status = "resolved" => r.resolved_at
      [] OTHER                    -> TRUE
=============================================================================
