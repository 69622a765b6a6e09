-------------------------------- MODULE Crm --------------------------------
(***************************************************************************)
(* CRM: customers and their figures, reviews, service tickets, returns,    *)
(* complaints, reply templates.                                            *)
(***************************************************************************)
EXTENDS Records

CONSTANT MaxOrders    \* bound: orders that a customer's figures may count

ASSUME CrmAssumption == MaxOrders \in 0..4

TicketTable ==
    [open             |-> {"in_progress", "pending_customer", "cancelled"},
     in_progress      |-> {"pending_customer", "resolved", "escalated", "cancelled"},
     pending_customer |-> {"in_progress", "resolved", "cancelled"},
     escalated        |-> {"in_progress", "resolved", "cancelled"},
     resolved         |-> {"closed", "reopened"},
     closed           |-> {"reopened"},
     reopened         |-> {"in_progress", "cancelled"},
     cancelled        |-> {}]

ReviewTable ==
    [pending      |-> {"acknowledged", "ignored"},
     acknowledged |-> {"replied", "escalated"},
     escalated    |-> {"replied"},
     replied      |-> {"followed_up", "closed"},
     followed_up  |-> {"closed"},
     ignored      |-> {}, closed |-> {}]

\* Mutant of ReturnTable: an approved return is refunded at once.
ReturnTableShort ==
    [requested       |-> {"approved", "rejected", "cancelled"},
     approved        |-> {"return_shipping", "refunding", "cancelled"},
     return_shipping |-> {"received", "cancelled"},
     received        |-> {"inspecting"},
     inspecting      |-> {"refunding", "rejected_return"},
     refunding       |-> {"refunded"},
     refunded        |-> {}, rejected |-> {}, rejected_return |-> {}, cancelled |-> {}]

ReturnTable ==
    [requested       |-> {"approved", "rejected", "cancelled"},
     approved        |-> {"return_shipping", "cancelled"},
     return_shipping |-> {"received", "cancelled"},
     received        |-> {"inspecting"},
     inspecting      |-> {"refunding", "rejected_return"},
     refunding       |-> {"refunded"},
     refunded        |-> {}, rejected |-> {}, rejected_return |-> {}, cancelled |-> {}]

ComplaintTable ==
    [submitted     |-> {"investigating", "cancelled"},
     investigating |-> {"resolved", "escalated", "cancelled"},
     escalated     |-> {"investigating", "resolved", "cancelled"},
     resolved      |-> {"closed", "reopened"},
     closed        |-> {"reopened"},
     reopened      |-> {"investigating", "cancelled"},
     cancelled     |-> {}]

-----------------------------------------------------------------------------
(* Customers.  average stands for avg_order_value by the total and the     *)
(* number of orders it was computed from.                                  *)

CustomerCreate ==
    Inserts([kind |-> "customer", count |-> 0, amount |-> 0, average |-> <<0, 0>>,
                segment |-> "normal", deleted |-> FALSE])

OpensCustomer(d, i) == Opens(d, i, "customer") /\ ~row[i].deleted

\* The row's figures after one more order.
WithOrder(r, amount) ==
    [count |-> r.count + 1, amount |-> r.amount + amount,
     average |-> <<r.amount + amount, r.count + 1>>]

\* Mutant of UpdateStats: the average is computed before the order is added.
UpdateStatsOldAverage(d, i) ==
    /\ OpensCustomer(d, i) /\ row[i].count < MaxOrders
    /\ \E a \in {0, 1} :
          Counts(d, i, {"deleted"},
                 [WithOrder(row[i], a) EXCEPT !.average = <<row[i].amount, row[i].count>>], 1)

UpdateStats(d, i) ==
    /\ OpensCustomer(d, i) /\ row[i].count < MaxOrders
    /\ \E a \in {0, 1} : Counts(d, i, {"deleted"}, WithOrder(row[i], a), 1)

\* SEGMENT_RULES within the bound: one order makes a customer 'new', two
\* 'regular'; five and ten are out of reach.
CalculateSegment(r) ==
    IF r.count = 0 THEN "normal" ELSE IF r.count = 1 THEN "new" ELSE "regular"

\* One customer, or every customer of the tenant.
ClassifySegments(d, S) ==
    /\ Idle(d)
    /\ S # {} /\ S \subseteq RowsOf("customer")
    /\ Takes(d, [i \in S |-> {"count", "amount", "segment"}],
             [i \in S |-> [segment |-> CalculateSegment(row[i])]], NoRow, None)

CustomerDelete(d, i) ==
    /\ OpensCustomer(d, i)
    /\ Sets(d, i, {}, [deleted |-> TRUE])

-----------------------------------------------------------------------------
(* Reviews *)

ReviewCreate == Inserts([kind |-> "review", status |-> "pending", replied_at |-> FALSE])

\* 'replied' may be set without a reply.
ReviewUpdateStatus(d, i) ==
    /\ Opens(d, i, "review")
    /\ Follows(d, i, "status", ReviewTable, DOMAIN ReviewTable)

ReviewReply(d, i) ==
    /\ Opens(d, i, "review")
    /\ row[i].status \in {"pending", "acknowledged", "escalated"}
    /\ Sets(d, i, {}, [status |-> "replied", replied_at |-> TRUE])

-----------------------------------------------------------------------------
(* Tickets *)

TicketCreate ==
    Inserts([kind |-> "ticket", status |-> "open", first_response_at |-> FALSE,
                resolved_at |-> FALSE, closed_at |-> FALSE])

TicketUpdateStatus(d, i) ==
    /\ Opens(d, i, "ticket")
    /\ \E t \in TicketTable[row[i].status] :
          Sets(d, i, {"status"},
               CASE t = "in_progress" -> [status |-> t, first_response_at |-> TRUE]
                 [] t = "resolved"    -> [status |-> t, resolved_at |-> TRUE]
                 [] t = "closed"      -> [status |-> t, closed_at |-> TRUE]
                 [] OTHER             -> [status |-> t])

TicketAssign(d, i) ==
    /\ Opens(d, i, "ticket")
    /\ row[i].status \in {"open", "escalated"}
    /\ Sets(d, i, {}, [status |-> "in_progress", first_response_at |-> TRUE])

TicketResolve(d, i) ==
    /\ Opens(d, i, "ticket")
    /\ row[i].status \in {"in_progress", "pending_customer", "escalated"}
    /\ Sets(d, i, {}, [status |-> "resolved", resolved_at |-> TRUE])

-----------------------------------------------------------------------------
(* Returns *)

ReturnCreate ==
    Inserts([kind |-> "return", status |-> "requested", received_at |-> FALSE,
                refunded_at |-> FALSE])

ReturnUpdateStatus(d, i) ==
    /\ Opens(d, i, "return")
    /\ \E t \in ReturnTable[row[i].status] :
          Sets(d, i, {"status"},
               CASE t = "received" -> [status |-> t, received_at |-> TRUE]
                 [] t = "refunded" -> [status |-> t, refunded_at |-> TRUE]
                 [] OTHER          -> [status |-> t])

-----------------------------------------------------------------------------
(* Complaints.  A severe complaint, or one about the product, is escalated *)
(* when it is filed.                                                       *)

ComplaintCreate ==
    \E escalated \in BOOLEAN :
        Inserts([kind |-> "complaint", status |-> IF escalated THEN "escalated" ELSE "submitted",
                    resolved_at |-> FALSE, closed_at |-> FALSE])

ComplaintUpdateStatus(d, i) ==
    /\ Opens(d, i, "complaint")
    /\ \E t \in ComplaintTable[row[i].status] :
          Sets(d, i, {"status"},
               CASE t = "resolved" -> [status |-> t, resolved_at |-> TRUE]
                 [] t = "closed"   -> [status |-> t, closed_at |-> TRUE]
                 [] OTHER          -> [status |-> t])

ComplaintResolve(d, i) ==
    /\ Opens(d, i, "complaint")
    /\ row[i].status \in {"investigating", "escalated"}
    /\ Sets(d, i, {}, [status |-> "resolved", resolved_at |-> TRUE])

ComplaintEscalate(d, i) ==
    /\ Opens(d, i, "complaint")
    /\ row[i].status \in {"investigating", "submitted"}
    /\ Sets(d, i, {}, [status |-> "escalated"])

\* Rendering a reply template counts its use.
TemplateCreate == Inserts([kind |-> "reply_template", count |-> 0])

TemplateRender(d, i) ==
    /\ Opens(d, i, "reply_template")
    /\ row[i].count < MaxOrders
    /\ Counts(d, i, {}, [count |-> row[i].count + 1], 1)

CrmNext ==
    \/ CustomerCreate \/ ReviewCreate \/ TicketCreate \/ ReturnCreate
    \/ ComplaintCreate \/ TemplateCreate
    \/ \E d \in Desks, i \in Ids :
        \/ UpdateStats(d, i) \/ CustomerDelete(d, i)
        \/ ReviewUpdateStatus(d, i) \/ ReviewReply(d, i)
        \/ TicketUpdateStatus(d, i) \/ TicketAssign(d, i) \/ TicketResolve(d, i)
        \/ ReturnUpdateStatus(d, i)
        \/ ComplaintUpdateStatus(d, i) \/ ComplaintResolve(d, i) \/ ComplaintEscalate(d, i)
        \/ TemplateRender(d, i)
    \/ \E d \in Desks, S \in SUBSET Ids : ClassifySegments(d, S)

-----------------------------------------------------------------------------
(* Properties *)

\* A closed ticket or complaint may be reopened.
CrmFinal(r) ==
    CASE r.kind = "review"    -> r.status \in {"ignored", "closed"}
      [] r.kind = "return"    -> r.status \in {"refunded", "rejected", "rejected_return", "cancelled"}
      [] r.kind \in {"ticket", "complaint"} -> r.status = "cancelled"
      [] OTHER                -> FALSE

CrmDated(r) ==
    CASE r.kind = "ticket" ->
            /\ r.status = "in_progress" => r.first_response_at
            /\ r.status \in {"resolved", "closed", "reopened"} => r.resolved_at
            /\ r.status = "closed" => r.closed_at
      [] r.kind = "return" ->
            /\ r.status \in {"received", "inspecting", "refunding", "refunded",
                             "rejected_return"} => r.received_at
            /\ r.status = "refunded" => r.refunded_at
      [] r.kind = "complaint" ->
            /\ r.status \in {"resolved", "closed", "reopened"} => r.resolved_at
            /\ r.status = "closed" => r.closed_at
      [] OTHER -> TRUE

\* The average order value of a customer is that of the present totals, unless
\* two orders were counted together.
AveragesAgree ==
    \A i \in RowsOf("customer") \ mixed :
        row[i].average = <<row[i].amount, row[i].count>>
=============================================================================
