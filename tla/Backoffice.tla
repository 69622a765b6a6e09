------------------------------ MODULE Backoffice ------------------------------
(***************************************************************************)
(* The domains whose services work on single rows, together: FBA, CRM,     *)
(* SOM, PDM, ADS, transfers, alerts, paperwork, and the exchange with      *)
(* other systems.  scope says which rows a behaviour has.  Their tables    *)
(* are record sets: for each kind of row the columns that the services     *)
(* read and assign, with the values they may hold (a date is whether it is *)
(* set).  The statistics taken from them are sets of the rows they count;  *)
(* those that sum or group columns the model abstracts from are left out.  *)
(***************************************************************************)
EXTENDS Fba, Crm, Som, Pdm, Ads, Paperwork, Integration

RecordsNext ==
    \/ FbaNext \/ CrmNext \/ SomNext \/ PdmNext \/ AdsNext
    \/ TransfersNext \/ PaperworkNext \/ IntegrationNext
    \/ \E d \in Desks : CommitWork(d) \/ RollbackWork(d)

RecordsSpec == RecordsInit /\ [][RecordsNext]_recordVars

-----------------------------------------------------------------------------
(* FBA *)

FbaShipments ==
    [kind : {"fba_shipment"}, status : DOMAIN FbaShipmentTable, shipped_at : BOOLEAN,
     received_at : BOOLEAN, tracked : BOOLEAN, plan : Ids \cup {0}, deleted : BOOLEAN]

BoxLabels ==
    [kind : {"box_label"}, status : DOMAIN BoxLabelTable, printed_at : BOOLEAN, of : Ids]

FbaInventories == [kind : {"fba_inventory"}, count : Nat]

Replenishments ==
    [kind : {"replenishment"}, status : DOMAIN ReplenishmentTable, approved_at : BOOLEAN,
     linked : BOOLEAN]

InboundPlans ==
    [kind : {"inbound_plan"}, status : DOMAIN InboundPlanTable, submitted_at : BOOLEAN,
     completed_at : BOOLEAN, total_units : Nat]

FbaExceptions ==
    [kind : {"fba_exception"}, status : DOMAIN ExceptionTable, resolved_at : BOOLEAN,
     assigned : BOOLEAN]

-----------------------------------------------------------------------------
(* CRM *)

Customers ==
    [kind : {"customer"}, count : Nat, amount : Nat, average : Nat \X Nat,
     segment : {"normal", "new", "regular"}, deleted : BOOLEAN]

Reviews == [kind : {"review"}, status : DOMAIN ReviewTable, replied_at : BOOLEAN]

Tickets ==
    [kind : {"ticket"}, status : DOMAIN TicketTable, first_response_at : BOOLEAN,
     resolved_at : BOOLEAN, closed_at : BOOLEAN]

Returns ==
    [kind : {"return"}, status : DOMAIN ReturnTable, received_at : BOOLEAN,
     refunded_at : BOOLEAN]

Complaints ==
    [kind : {"complaint"}, status : DOMAIN ComplaintTable, resolved_at : BOOLEAN,
     closed_at : BOOLEAN]

ReplyTemplates == [kind : {"reply_template"}, count : Nat]

-----------------------------------------------------------------------------
(* SOM *)

Stores ==
    [kind : {"store"}, auth_status : DOMAIN StoreAuthTable, token : BOOLEAN, deleted : BOOLEAN]

Listings ==
    [kind : {"listing"}, status : DOMAIN ListingTable, listing_status : DOMAIN PlatformTable,
     price : {"none", "set", "cut"}, titled : BOOLEAN, stocked : BOOLEAN, deleted : BOOLEAN]

BatchJobs ==
    [kind : {"batch_job"}, publish : BOOLEAN, on : SUBSET (Ids \cup {0}),
     status : {"pending", "completed", "partial", "failed", "cancelled"}]

Optimizations ==
    [kind : {"optimization"}, status : DOMAIN OptimizationTable, listing : Ids]

AlertRules == [kind : {"alert_rule"}, status : {"active", "disabled", "deleted"}]

Alerts == [kind : {"alert"}, status : DOMAIN AlertTable, rule : Ids]

-----------------------------------------------------------------------------
(* PDM and ADS *)

Spus ==
    [kind : {"spu"}, status : DOMAIN SpuTable, categorised : BOOLEAN, pictured : BOOLEAN]

Skus == [kind : {"sku"}, status : {"active", "discontinued"}, deleted : BOOLEAN, of : Ids]

Projects == [kind : {"project"}, status : DOMAIN ProjectTable]

Collections ==
    [kind : {"collection"}, status : DOMAIN CollectionTable, pictured : BOOLEAN]

Issues == [kind : {"issue"}, status : IssueStatuses, resolved_at : BOOLEAN]

Upcs ==
    [kind : {"upc"}, status : {"available", "allocated"}, sku : {"none", "A", "B"},
     allocated_at : BOOLEAN]

Campaigns ==
    [kind : {"campaign"}, status : DOMAIN CampaignTable, funded : BOOLEAN,
     started : BOOLEAN, deleted : BOOLEAN]

AdGroups == [kind : {"ad_group"}, status : DOMAIN AdGroupTable, of : Ids]

Keywords ==
    [kind : {"keyword"}, status : {"enabled", "paused", "archived"}, bounded : BOOLEAN]

BidAdjustments == [kind : {"bid_adjustment"}, applied : BOOLEAN]

-----------------------------------------------------------------------------
(* Transfers, alerts, paperwork *)

Transfers ==
    [kind : {"transfer"}, status : {"draft", "submitted", "in_transit", "received", "cancelled"},
     shipped_at : BOOLEAN, received_at : BOOLEAN]

FbaPlans ==
    [kind : {"fba_plan"}, status : {"draft", "submitted", "approved"}, suggested : Nat,
     approved : Nat]

StockAlerts ==
    [kind : {"stock_alert"}, status : {"pending", "acknowledged", "resolved"},
     resolved_at : BOOLEAN]

BusinessAlerts == [kind : {"business_alert"}, count : Nat]

AlertInstances ==
    [kind : {"alert_instance"}, status : {"open", "acknowledged", "resolved"},
     resolved_at : BOOLEAN, of : Ids]

VoucherTemplates == [kind : {"voucher_template"}, active : BOOLEAN, count : Nat]

Vouchers ==
    [kind : {"voucher"}, status : {"draft", "posted", "pushed", "cancelled"},
     posted_at : BOOLEAN, pushed_at : BOOLEAN, of : Ids]

Refunds == [kind : {"refund"}, status : DOMAIN RefundMoves, processed_at : BOOLEAN]

Promotions == [kind : {"promotion"}, status : DOMAIN PromotionMoves, deleted : BOOLEAN]

PmsActions ==
    [kind : {"pms_action"},
     status : {"pending", "approved", "rejected", "expired", "executed", "failed"}]

ReviewTasks ==
    [kind : {"review_task"}, status : {"pending_manual", "auto_passed", "approved", "rejected"},
     reviewed_at : BOOLEAN]

-----------------------------------------------------------------------------
(* Integration *)

Subscriptions ==
    [kind : {"subscription"}, status : {"active", "inactive", "error"}, failures : Nat,
     gone : BOOLEAN]

Deliveries ==
    [kind : {"delivery"}, status : {"pending", "success", "retrying", "abandoned"}, count : Nat,
     of : Ids]

CdcRecords ==
    [kind : {"cdc_event"}, status : {"pending", "processed", "skipped", "retrying", "failed"},
     retries : 0..MaxRetries, processed_at : BOOLEAN]

Suggestions ==
    [kind : {"suggestion"},
     status : {"pending", "accepted", "completed", "failed", "rejected", "rolled_back"}]

AiSwitches == [kind : {"ai_switch"}, count : Nat]

Rollouts ==
    [kind : {"rollout"}, percent : {0, 50, 100}, rolled_back : BOOLEAN, count : Nat]

PmsRecommendations ==
    [kind : {"pms_recommendation"},
     status : {"pending", "accepted", "rejected", "executed", "rolled_back"},
     executed_at : BOOLEAN]

PmsDrafts == [kind : {"pms_draft"}, status : {"draft", "accepted"}]

StoreAuths ==
    [kind : {"store_auth"}, status : {"pending", "authorized", "token_expired", "revoked"},
     active : BOOLEAN, token : BOOLEAN]

Secrets == [kind : {"secret"}, active : BOOLEAN, count : Nat]

Connectors ==
    [kind : {"connector"}, status : {"draft", "active", "inactive", "error"},
     is_active : BOOLEAN]

Imports ==
    [kind : {"import"}, started_at : BOOLEAN, completed_at : BOOLEAN,
     status : {"pending", "importing", "completed", "completed_with_errors", "failed",
               "cancelled"}]

-----------------------------------------------------------------------------

\* The table that rows of a kind are in.
TableOfKind ==
    [fba_shipment |-> FbaShipments, box_label |-> BoxLabels, fba_inventory |-> FbaInventories,
     replenishment |-> Replenishments, inbound_plan |-> InboundPlans,
     fba_exception |-> FbaExceptions, customer |-> Customers, review |-> Reviews,
     ticket |-> Tickets, return |-> Returns, complaint |-> Complaints,
     reply_template |-> ReplyTemplates, store |-> Stores, listing |-> Listings,
     batch_job |-> BatchJobs, optimization |-> Optimizations, alert_rule |-> AlertRules,
     alert |-> Alerts, spu |-> Spus, sku |-> Skus, project |-> Projects,
     collection |-> Collections, issue |-> Issues, upc |-> Upcs, campaign |-> Campaigns,
     ad_group |-> AdGroups, keyword |-> Keywords, bid_adjustment |-> BidAdjustments,
     transfer |-> Transfers, fba_plan |-> FbaPlans, stock_alert |-> StockAlerts,
     business_alert |-> BusinessAlerts, alert_instance |-> AlertInstances,
     voucher_template |-> VoucherTemplates, voucher |-> Vouchers, refund |-> Refunds,
     promotion |-> Promotions, pms_action |-> PmsActions, review_task |-> ReviewTasks,
     subscription |-> Subscriptions, delivery |-> Deliveries, cdc_event |-> CdcRecords,
     suggestion |-> Suggestions, ai_switch |-> AiSwitches, rollout |-> Rollouts,
     pms_recommendation |-> PmsRecommendations, pms_draft |-> PmsDrafts,
     store_auth |-> StoreAuths, secret |-> Secrets, connector |-> Connectors,
     import |-> Imports]

With(kind, statuses) == {i \in RowsOf(kind) : row[i].status \in statuses}

Undeleted(kind) == {i \in RowsOf(kind) : ~row[i].deleted}

-----------------------------------------------------------------------------
(* FBA, SOM, ADS, PDM *)

FbaStatistics ==
    [total_shipments             |-> Undeleted("fba_shipment"),
     active_shipments            |-> Undeleted("fba_shipment") \cap
                                     With("fba_shipment", {"working", "shipped", "in_review", "submitted"}),
     total_inventory_items       |-> RowsOf("fba_inventory"),
     low_stock_items             |-> {i \in RowsOf("fba_inventory") : row[i].count <= 10},
     total_replenishment_plans   |-> RowsOf("replenishment"),
     pending_replenishment_plans |-> With("replenishment", {"pending"}),
     total_inbound_plans         |-> RowsOf("inbound_plan")]

\* averaged: the exceptions of which avg_resolution_hours is the mean.
ExceptionStatistics ==
    [total_exceptions |-> RowsOf("fba_exception"),
     open_count       |-> With("fba_exception", {"open", "investigating"}),
     averaged         |-> {i \in RowsOf("fba_exception") : row[i].resolved_at}]

StoreStatistics ==
    [total_stores      |-> Undeleted("store"),
     authorized_stores |-> {i \in Undeleted("store") : row[i].auth_status = "authorized"}]

ListingStatistics ==
    [total_listings |-> Undeleted("listing"),
     by_status      |-> [t \in DOMAIN ListingTable |-> Undeleted("listing") \cap With("listing", {t})]]

AlertSummary ==
    [firing |-> With("alert", {"firing"}), acknowledged |-> With("alert", {"acknowledged"})]

AdsStatistics ==
    [total_campaigns  |-> Undeleted("campaign"),
     active_campaigns |-> Undeleted("campaign") \cap With("campaign", {"active"}),
     paused_campaigns |-> Undeleted("campaign") \cap With("campaign", {"paused"}),
     total_keywords   |-> RowsOf("keyword"),
     active_keywords  |-> With("keyword", {"enabled"}),
     total_ad_groups  |-> RowsOf("ad_group")]

\* Deleted variants are counted; a product and a project are counted as active
\* in a status that their lifecycles do not have.
PdmStatistics ==
    [total_spus             |-> RowsOf("spu"),
     active_spus            |-> With("spu", {"active"}),
     total_skus             |-> RowsOf("sku"),
     active_skus            |-> With("sku", {"active"}),
     total_product_projects |-> RowsOf("project"),
     active_projects        |-> With("project", {"active"}),
     available_upc_count    |-> With("upc", {"available"}),
     spus_by_status         |-> [t \in DOMAIN SpuTable |-> With("spu", {t})]]

-----------------------------------------------------------------------------
(* CRM and the dashboard's view of it, OMS refunds, captured changes *)

\* Deleted customers are counted.  overdue_tickets: those that are when their
\* time is up.  No return is ever 'completed', no complaint 'open'.
CrmStatistics ==
    [total_customers      |-> RowsOf("customer"),
     active_customers     |-> Undeleted("customer"),
     customers_by_segment |-> [s \in {"normal", "new", "regular"} |->
                                 {i \in RowsOf("customer") : row[i].segment = s}],
     open_tickets         |-> With("ticket", {"open", "in_progress", "pending_customer", "escalated"}),
     overdue_tickets      |-> RowsOf("ticket") \ With("ticket", {"resolved", "closed", "cancelled"}),
     pending_returns      |-> With("return", {"requested", "approved"}),
     total_refund_amount  |-> With("return", {"refunded", "completed"}),
     unreplied_reviews    |-> {i \in With("review", {"pending"}) : ~row[i].replied_at},
     open_complaints      |-> With("complaint", {"open", "investigating", "escalated"})]

CsKpis == With("ticket", {"open", "in_progress", "pending_customer", "escalated"})

\* The first 20; more are out of the bound's reach.
CsTodos == With("ticket", {"open", "escalated"})

RefundStatistics ==
    [total_refunds |-> RowsOf("refund"),
     by_status     |-> [t \in DOMAIN RefundMoves |-> With("refund", {t})]]

CdcEventStats ==
    [t \in {"pending", "processed", "skipped", "retrying", "failed"} |-> With("cdc_event", {t})]

-----------------------------------------------------------------------------
(* Properties *)

\* Every row is one of its table: no service assigns a status that the services
\* of its kind do not know, or a counter below zero; and what a request is to
\* write are columns of the row.
RowTypeOK ==
    /\ \A i \in Ids : row[i] # NoRow => row[i] \in TableOfKind[row[i].kind]
    /\ \A d \in Desks : work[d] # NoWork =>
          \A i \in DOMAIN work[d].set : DOMAIN work[d].set[i] \subseteq DOMAIN row[i]
    /\ gained \in [Ids -> Int]
    /\ mixed \subseteq Ids

Final(r) ==
    \/ FbaFinal(r) \/ CrmFinal(r) \/ SomFinal(r) \/ PdmFinal(r) \/ AdsFinal(r)
    \/ TransfersFinal(r) \/ PaperworkFinal(r) \/ IntegrationFinal(r)

\* A row in a final status keeps it, whichever of its services is called: not
\* only update_status with its table but also the shortcuts that assign a
\* status themselves (reply, assign, resolve, escalate, receive_partial,
\* execute_job, ...).  Only a request that loaded the row before it became
\* final takes it out again.
FinalRecordsStay ==
    [][\A i \in Ids \ mixed' :
          Final(row[i]) => row'[i].status = row[i].status]_recordVars

\* The dates by which the reports measure (shipped, received, resolved,
\* refunded, ...) are set in every status that presupposes them, on whichever
\* way the row got there; and so are attempts left, tokens and percentages.
DatesTellStatus ==
    \A i \in Ids \ mixed :
        /\ FbaDated(row[i]) /\ CrmDated(row[i]) /\ PdmDated(row[i])
        /\ TransfersDated(row[i]) /\ PaperworkDated(row[i]) /\ IntegrationDated(row[i])

\* A column that requests add to (stock at Amazon, a customer's orders, uses of
\* a template, attempts of a delivery, executions of a day, versions of a
\* voucher template) is the sum of what was added, unless two of the additions
\* overlapped: the code loads, adds and writes back.
AccumulatorsCount ==
    \A i \in Ids \ mixed :
        row[i] # NoRow /\ "count" \in DOMAIN row[i] => row[i].count = gained[i]

\* What a detail may no longer be added to.
ClosedToDetails(r) ==
    CASE r.kind = "fba_shipment" -> r.status \in {"cancelled", "closed"}
      [] r.kind = "spu"          -> r.status \in {"cancelled", "discontinued"}
      [] r.kind = "campaign"     -> r.deleted
      [] r.kind = "voucher_template" -> ~r.active

\* A box label, a SKU, an ad group, a voucher is added only to a shipment, a
\* product, a campaign, a template that still lives, unless that ends while the detail is created.
DetailsOfTheLiving ==
    [][\A j \in Ids :
          row[j] = NoRow /\ row'[j].kind \in {"box_label", "sku", "ad_group", "voucher"}
          => row'[j].of \in mixed' \/ ~ClosedToDetails(row[row'[j].of])]_recordVars

\* What has ended stays ended in the small domains, and gets no new details.
FinishedStays == FinalRecordsStay /\ DetailsOfTheLiving

\* Counters and the averages computed from them.
CountersAreSound == AccumulatorsCount /\ AveragesAgree

\* What is offered on a platform or in the catalogue may be offered.
CatalogueIsSound == OfferedIsSound /\ OnSaleIsComplete /\ BarCodesNameTheirSku

\* What somebody still has to do something about.
Unsettled(r) ==
    CASE r.kind \in {"ticket", "complaint"} -> r.status \notin {"resolved", "closed", "cancelled"}
      [] r.kind = "return"        -> ~CrmFinal(r)
      [] r.kind = "fba_exception" -> r.status \notin {"resolved", "closed"}
      [] r.kind = "fba_shipment"  ->
            ~r.deleted /\ r.status \notin {"draft", "received", "closed", "cancelled"}
      [] r.kind = "replenishment" -> r.status = "pending"
      [] r.kind = "alert"         -> r.status # "resolved"
      [] OTHER                    -> FALSE

\* Of these, what no figure counts: what was reopened or was just filed, returns
\* on their way back, exceptions that were escalated, shipments that have
\* arrived in part.
Overlooked(r) ==
    \/ r.kind \in {"ticket", "complaint"} /\ r.status \in {"reopened", "submitted"}
    \/ r.kind = "return" /\ r.status \notin {"requested", "approved"}
    \/ r.kind = "fba_exception" /\ r.status = "escalated"
    \/ r.kind = "fba_shipment" /\ r.status = "partial_received"

Backlog ==
    FbaStatistics.active_shipments \cup FbaStatistics.pending_replenishment_plans
    \cup ExceptionStatistics.open_count \cup AlertSummary.firing \cup AlertSummary.acknowledged
    \cup CrmStatistics.open_tickets \cup CrmStatistics.pending_returns
    \cup CrmStatistics.open_complaints

\* However a row got where it is, the figures of what is open count it exactly
\* while it is unsettled, but for what Overlooked names; and the dashboard and
\* CRM count the same tickets, the dashboard's list being part of them.
BacklogIsCounted ==
    /\ Backlog = {i \in Ids : row[i] # NoRow /\ Unsettled(row[i]) /\ ~Overlooked(row[i])}
    /\ CsKpis = CrmStatistics.open_tickets
    /\ CsTodos \subseteq CsKpis
    /\ CrmStatistics.overdue_tickets = CsKpis \cup With("ticket", {"reopened"})

\* What one figure reports as over, another one does not report as open: an
\* exception whose resolution is averaged, a shipment that was received, a
\* return that was refunded never comes back, on any way, unless requests
\* overlapped.
SettledIsNotOpen ==
    \A i \in Ids \ mixed :
        /\ i \in ExceptionStatistics.averaged => i \notin ExceptionStatistics.open_count
        /\ i \in FbaStatistics.active_shipments => ~row[i].received_at
        /\ i \in CrmStatistics.pending_returns => ~row[i].refunded_at /\ ~row[i].received_at

\* Statuses and counters are those of the tables, the dates go with them, and
\* the reports tell the same.
RecordsAreSound == RowTypeOK /\ DatesTellStatus /\ BacklogIsCounted /\ SettledIsNotOpen
=============================================================================
