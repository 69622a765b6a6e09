------------------------------ MODULE Paperwork ------------------------------
(***************************************************************************)
(* Vouchers and the templates they are made from (FMS), refunds and        *)
(* promotions (OMS), the pending actions of the PMS, the review of         *)
(* contents (middleware); WMS transfer orders, the replenishment plans of  *)
(* the WMS for FBA, alerts on stock, and BI's alerts on metrics.  No       *)
(* transfer moves stock: the ledger of WmsInventory is not touched.        *)
(***************************************************************************)
EXTENDS Records

CONSTANTS
    MaxVersions,   \* bound: updates of a template
    MaxTriggers    \* bound: times an alert rule is triggered

\* A template's count is its version, less 1.
CreateTemplate == Inserts([kind |-> "voucher_template", active |-> TRUE, count |-> 0])

UpdateTemplate(d, i) ==
    /\ Opens(d, i, "voucher_template") /\ row[i].count < MaxVersions
    /\ Counts(d, i, {}, [count |-> row[i].count + 1], 1)

DeactivateTemplate(d, i) == Opens(d, i, "voucher_template") /\ Sets(d, i, {}, [active |-> FALSE])

\* Debit and credit are not compared.
GenerateVoucher(d, i) ==
    /\ Opens(d, i, "voucher_template") /\ row[i].active
    /\ Adds(d, i, {"active"},
            [kind |-> "voucher", status |-> "draft", posted_at |-> FALSE, pushed_at |-> FALSE,
             of |-> i])

PostVoucher(d, i) ==
    /\ Opens(d, i, "voucher") /\ row[i].status = "draft"
    /\ Sets(d, i, {"status"}, [status |-> "posted", posted_at |-> TRUE])

\* A voucher that was pushed to another system, too.
CancelVoucher(d, i) ==
    /\ Opens(d, i, "voucher") /\ row[i].status # "posted"
    /\ Sets(d, i, {"status"}, [status |-> "cancelled"])

PushToExternal(d, i) ==
    /\ Opens(d, i, "voucher") /\ row[i].status = "posted"
    /\ Sets(d, i, {"status"}, [status |-> "pushed", pushed_at |-> TRUE])

CreateRefund == Inserts([kind |-> "refund", status |-> "pending", processed_at |-> FALSE])

RefundMoves ==
    [pending    |-> {"approved", "rejected", "cancelled"},
     approved   |-> {"processing", "cancelled"},
     processing |-> {"completed", "failed"},
     completed  |-> {},
     failed     |-> {"processing"},
     rejected   |-> {},
     cancelled  |-> {}]

UpdateRefundStatus(d, i) ==
    /\ Opens(d, i, "refund")
    /\ \E t \in RefundMoves[row[i].status] :
          Sets(d, i, {}, [status |-> t, processed_at |-> t = "completed"])

\* One request for several refunds: those that cannot follow are left out.
BatchApproveRefunds(d) ==
    /\ Idle(d)
    /\ \E refunds \in SUBSET RowsOf("refund") \ {{}}, t \in {"approved", "rejected"} :
          LET able == {i \in refunds : t \in RefundMoves[row[i].status]}
          IN Takes(d, [i \in refunds |-> {"status"}],
                   [i \in able |-> [status |-> t]], NoRow, None)

CreatePromotion == Inserts([kind |-> "promotion", status |-> "draft", deleted |-> FALSE])

PromotionMoves ==
    [draft     |-> {"scheduled", "cancelled"},
     scheduled |-> {"active", "cancelled"},
     active    |-> {"paused", "completed", "cancelled"},
     paused    |-> {"active", "cancelled"},
     completed |-> {},
     cancelled |-> {}]

UpdatePromotionStatus(d, i) ==
    /\ Opens(d, i, "promotion") /\ ~row[i].deleted
    /\ \E t \in PromotionMoves[row[i].status] : Sets(d, i, {"deleted"}, [status |-> t])

DeletePromotion(d, i) ==
    /\ Opens(d, i, "promotion") /\ ~row[i].deleted /\ row[i].status # "active"
    /\ Sets(d, i, {"status"}, [deleted |-> TRUE])

\* Without an idempotency key.
CreateAction == Inserts([kind |-> "pms_action", status |-> "pending"])

\* approve, reject, mark_executed, mark_failed and, when it is old enough,
\* expire_stale_actions.
ActionMoves ==
    [pending  |-> {"approved", "rejected", "expired"},
     approved |-> {"executed", "failed"},
     executed |-> {"failed"}]

MoveAction(d, i) ==
    /\ Opens(d, i, "pms_action")
    /\ Follows(d, i, "status", ActionMoves, {"approved", "rejected", "expired", "executed", "failed"})

\* Contents for which there is no reviewer pass, unless a manual review is
\* asked for.
SubmitReview ==
    \E auto \in {"pass", "warning", "reject", "pending"}, manual \in BOOLEAN :
        Inserts([kind |-> "review_task", reviewed_at |-> FALSE,
                 status |-> IF auto \in {"warning", "reject"} \/ manual
                            THEN "pending_manual" ELSE "auto_passed"])

ManualReview(d, i) ==
    /\ Opens(d, i, "review_task") /\ row[i].status = "pending_manual"
    /\ \E result \in {"approved", "rejected"} :
          Sets(d, i, {"status"}, [status |-> result, reviewed_at |-> TRUE])

PaperworkNext ==
    \/ CreateTemplate \/ CreateAction \/ SubmitReview \/ CreateRefund \/ CreatePromotion
    \/ \E d \in Desks : BatchApproveRefunds(d)
    \/ \E d \in Desks, i \in Ids :
        \/ UpdateTemplate(d, i) \/ DeactivateTemplate(d, i) \/ GenerateVoucher(d, i)
        \/ PostVoucher(d, i) \/ CancelVoucher(d, i) \/ PushToExternal(d, i)
        \/ UpdateRefundStatus(d, i) \/ UpdatePromotionStatus(d, i) \/ DeletePromotion(d, i)
        \/ MoveAction(d, i) \/ ManualReview(d, i)

-----------------------------------------------------------------------------
(* Transfers and alerts *)

CreateTransfer ==
    Inserts([kind |-> "transfer", status |-> "draft", shipped_at |-> FALSE,
             received_at |-> FALSE])

MovesTransfer(d, i, from, set) ==
    /\ Opens(d, i, "transfer")
    /\ row[i].status \in from
    /\ Sets(d, i, {"status"}, set)

SubmitTransfer(d, i) == MovesTransfer(d, i, {"draft"}, [status |-> "submitted"])

ShipTransfer(d, i) ==
    MovesTransfer(d, i, {"submitted"}, [status |-> "in_transit", shipped_at |-> TRUE])

\* Mutant of ReceiveTransfer: before the transfer was shipped.
ReceiveTransferEarly(d, i) ==
    MovesTransfer(d, i, {"submitted", "in_transit"}, [status |-> "received", received_at |-> TRUE])

ReceiveTransfer(d, i) ==
    MovesTransfer(d, i, {"in_transit"}, [status |-> "received", received_at |-> TRUE])

\* Mutant of CancelTransfer: whatever the status.
CancelTransferAny(d, i) ==
    /\ Opens(d, i, "transfer")
    /\ Sets(d, i, {"status"}, [status |-> "cancelled"])

\* On its way, too.
CancelTransfer(d, i) ==
    /\ Opens(d, i, "transfer")
    /\ row[i].status \notin {"received", "cancelled"}
    /\ Sets(d, i, {"status"}, [status |-> "cancelled"])

\* Refused when nothing is to be replenished: a plan has a suggested quantity.
GenerateReplenishmentPlan ==
    \E suggested \in 1..2 :
        Inserts([kind |-> "fba_plan", status |-> "draft", suggested |-> suggested,
                 approved |-> 0])

SubmitPlan(d, i) ==
    /\ Opens(d, i, "fba_plan")
    /\ row[i].status = "draft"
    /\ Sets(d, i, {}, [status |-> "submitted"])

\* Approving a quantity of 0 approves the suggested one.
ApprovePlan(d, i) ==
    /\ Opens(d, i, "fba_plan")
    /\ row[i].status = "submitted"
    /\ \E qty \in 0..2 :
          Sets(d, i, {"suggested"},
               [status |-> "approved", approved |-> IF qty = 0 THEN row[i].suggested ELSE qty])

\* The statuses of the instances of an alert are assigned without a check.
StockAlertAcknowledge(d, i) ==
    Opens(d, i, "stock_alert") /\ Sets(d, i, {}, [status |-> "acknowledged"])

StockAlertResolve(d, i) ==
    Opens(d, i, "stock_alert") /\ Sets(d, i, {}, [status |-> "resolved", resolved_at |-> TRUE])

\* One rule on one SKU, whose cooldown may have passed.
EvaluateAlerts ==
    Inserts([kind |-> "stock_alert", status |-> "pending", resolved_at |-> FALSE])

CreateAlertRule == Inserts([kind |-> "business_alert", count |-> 0])

\* Whether the cooldown since the last trigger has passed is open.
TriggerBusinessAlert(d, i) ==
    /\ Opens(d, i, "business_alert") /\ row[i].count < MaxTriggers
    /\ \E j \in Ids : Free(j, "alert_instance")
    /\ Takes(d, Only(i, {"count"}), Only(i, [count |-> row[i].count + 1]),
             [kind |-> "alert_instance", status |-> "open", resolved_at |-> FALSE, of |-> i],
             Only(i, 1))

InstanceAcknowledge(d, i) ==
    Opens(d, i, "alert_instance") /\ Sets(d, i, {}, [status |-> "acknowledged"])

InstanceResolve(d, i) ==
    Opens(d, i, "alert_instance") /\ Sets(d, i, {}, [status |-> "resolved", resolved_at |-> TRUE])

TransfersNext ==
    \/ CreateTransfer \/ GenerateReplenishmentPlan \/ EvaluateAlerts \/ CreateAlertRule
    \/ \E d \in Desks, i \in Ids :
        \/ SubmitTransfer(d, i) \/ ShipTransfer(d, i) \/ ReceiveTransfer(d, i)
        \/ CancelTransfer(d, i) \/ SubmitPlan(d, i) \/ ApprovePlan(d, i)
        \/ StockAlertAcknowledge(d, i) \/ StockAlertResolve(d, i)
        \/ TriggerBusinessAlert(d, i) \/ InstanceAcknowledge(d, i) \/ InstanceResolve(d, i)

-----------------------------------------------------------------------------
(* Properties *)

PaperworkFinal(r) ==
    CASE r.kind = "voucher"     -> r.status = "cancelled"
      [] r.kind = "pms_action"  -> r.status \in {"rejected", "expired", "failed"}
      [] r.kind = "review_task" -> r.status # "pending_manual"
      [] r.kind = "refund"      -> r.status \in {"completed", "rejected", "cancelled"}
      [] r.kind = "promotion"   -> r.deleted \/ r.status \in {"completed", "cancelled"}
      [] OTHER                  -> FALSE

\* A voucher that was posted is cancelled only after it was pushed.
PaperworkDated(r) ==
    CASE r.kind = "voucher" ->
            /\ r.status \in {"posted", "pushed"} => r.posted_at
            /\ r.status = "pushed" => r.pushed_at
            /\ r.status = "cancelled" => r.posted_at = r.pushed_at
      [] r.kind = "review_task" -> (r.status \in {"approved", "rejected"}) = r.reviewed_at
      [] r.kind = "refund"    -> (r.status = "completed") = r.processed_at
      [] r.kind = "promotion" -> r.deleted => r.status # "active"
      [] OTHER -> TRUE

TransfersFinal(r) ==
    CASE r.kind = "transfer" -> r.status \in {"received", "cancelled"}
      [] r.kind = "fba_plan" -> r.status = "approved"
      [] OTHER               -> FALSE

TransfersDated(r) ==
    CASE r.kind = "transfer" ->
            /\ r.status \in {"in_transit", "received"} => r.shipped_at
            /\ (r.status = "received") = r.received_at
      [] r.kind = "fba_plan" -> (r.status = "approved") = (r.approved > 0)
      [] r.kind \in {"stock_alert", "alert_instance"} -> r.status = "resolved" => r.resolved_at
      [] OTHER -> TRUE
=============================================================================
