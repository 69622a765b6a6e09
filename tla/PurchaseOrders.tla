--------------------------- MODULE PurchaseOrders ---------------------------
(***************************************************************************)
(* Purchase orders of the SCM domain: PurchaseOrderService,                *)
(* PurchaseReceivingService, PurchasePaymentService, PurchaseModeService   *)
(* and the supplier's side, SupplierCollaborationService.                  *)
(*                                                                         *)
(* A request loads the order, checks and computes in Python, and flushes   *)
(* the columns it changed at its commit; any number of other requests may  *)
(* commit in between.  An order is stale once a request committed on it    *)
(* that had loaded an earlier version: no version column would let it.     *)
(***************************************************************************)
EXTENDS Integers, FiniteSets, Rows

CONSTANTS
    Orders,         \* ids of purchase orders
    PoSessions,     \* requests that may be in flight together
    Threshold,      \* approval_threshold of the modes that need approval
    MaxAmount,      \* bound: of an order's total, payments and receipts
    NoRequest       \* a session without a request

Modes == {"standard_purchase", "consignment", "jit_dropship",
          "vmi_subcontracting", "centralized"}

ASSUME PoAssumption ==
    /\ MaxAmount \in Nat
    /\ Threshold \in [Modes \ {"jit_dropship"} -> Nat]

VARIABLES
    po,         \* the purchase_order rows; status "none": not created yet
    ordered,    \* sum of the quantities of the order's item rows
    entry,      \* history: created approved (auto) or to be approved (manual)
    accepted,   \* history: sum of the committed payments and consumptions
    poRequest,  \* what each session loaded and is about to flush
    poStale     \* history: orders committed from an out-of-date load

poVars == <<po, ordered, entry, accepted, poRequest, poStale>>

-----------------------------------------------------------------------------
(* Rows and requests *)

PoTransitions ==
    [draft            |-> {"pending_approval", "cancelled"},
     pending_approval |-> {"approved", "rejected"},
     approved         |-> {"ordered", "cancelled"},
     ordered          |-> {"partial_received", "received", "cancelled"},
     partial_received |-> {"received", "cancelled"},
     received         |-> {"completed"},
     completed        |-> {},
     rejected         |-> {},
     cancelled        |-> {}]

\* The supplier's portal writes two statuses that the table does not know.
PoStatuses == DOMAIN PoTransitions \cup {"confirmed", "shipped"}

Editable == {"draft", "pending_approval"}

Amount == 0..MaxAmount

PoRow == [status : PoStatuses \cup {"none"}, live : BOOLEAN,
          mode : Modes, total : Amount, paid : Amount]

NoOrder == [status |-> "none", live |-> FALSE, mode |-> "standard_purchase",
            total |-> 0, paid |-> 0]

\* A request on its way: the columns it assigned, the quantity of the item row
\* it inserted and the money it says was paid.
Change(set, items, money) == [set |-> set, items |-> items, money |-> money]

Assign(set) == Change(set, 0, 0)

-----------------------------------------------------------------------------
(* Handlers: the changes a request that loaded row r may be about to flush, *)
(* one per input; a request that raises has none                           *)

UpdateStatus(r) ==
    {Assign([status |-> s]) :
        s \in {t \in DOMAIN PoTransitions :
                  /\ r.status \in DOMAIN PoTransitions
                  /\ t \in PoTransitions[r.status]}}

\* Mutant of AddItem: items may be added until the goods arrive.
AddItemLate(r) ==
    {Change([total |-> r.total + q], q, 0) :
        q \in {n \in Amount \ {0} : r.status \in Editable \cup {"approved", "ordered"}
                                    /\ r.total + n <= MaxAmount}}

AddItem(r) ==
    {Change([total |-> r.total + q], q, 0) :
        q \in {n \in Amount \ {0} : r.status \in Editable /\ r.total + n <= MaxAmount}}

\* Only this receipt is compared with the order: nothing adds receipts up.
ConfirmReceipt(r, o) ==
    {Assign([status |-> IF q >= ordered[o] THEN "received" ELSE "partial_received"]) :
        q \in {n \in Amount : r.status \in {"ordered", "partial_received"}}}

\* Mutant of RecordPayment: the new payment alone is compared with the total.
RecordPaymentNotSummed(r) ==
    {Change([paid |-> r.paid + m], 0, m) :
        m \in {n \in Amount \ {0} :
                  /\ r.status \in {"received", "partial_received", "completed"}
                  /\ n <= r.total /\ r.paid + n <= MaxAmount}}

\* Mutant of RecordPayment: the column is set to the payment.
RecordPaymentOverwrites(r) ==
    {Change([paid |-> m], 0, m) :
        m \in {n \in Amount \ {0} :
                  /\ r.status \in {"received", "partial_received", "completed"}
                  /\ r.paid + n <= r.total}}

RecordPayment(r) ==
    {Change([paid |-> r.paid + m], 0, m) :
        m \in {n \in Amount \ {0} :
                  /\ r.status \in {"received", "partial_received", "completed"}
                  /\ r.paid + n <= r.total}}

\* Settled by consumption: neither the status nor the total is looked at.
ProcessConsignmentConsumption(r) ==
    {Change([paid |-> r.paid + m], 0, m) :
        m \in {n \in Amount : r.mode = "consignment" /\ r.paid + n <= MaxAmount}}

ProcessJitShipment(r) ==
    {c \in {Assign([status |-> "ordered"])} : r.mode = "jit_dropship"}

SoftDelete(r) ==
    {c \in {Assign([live |-> FALSE])} : r.status \in {"draft", "cancelled"}}

\* The portal checks neither the status nor deleted_at.
ConfirmPurchaseOrder(r) ==
    {Assign([status |-> s]) : s \in {"confirmed", "rejected"}}

NotifyShipment(r) == {Assign([status |-> "shipped"])}

Handled(r, o) ==
    ConfirmPurchaseOrder(r) \cup NotifyShipment(r) \cup
    IF r.live
    THEN UpdateStatus(r) \cup AddItem(r) \cup ConfirmReceipt(r, o)
         \cup RecordPayment(r) \cup ProcessConsignmentConsumption(r)
         \cup ProcessJitShipment(r) \cup SoftDelete(r)
    ELSE {}

-----------------------------------------------------------------------------
(* Steps *)

\* The row of a new order appears with its INSERT: nobody can have loaded it.
Insert(o, by, status, mode, total) ==
    /\ po[o].status = "none"
    /\ po' = [po EXCEPT ![o] = [status |-> status, live |-> TRUE, mode |-> mode,
                                total |-> total, paid |-> 0]]
    /\ entry' = [entry EXCEPT ![o] = by]
    /\ UNCHANGED <<ordered, accepted, poRequest, poStale>>

CreateOrder(o) == Insert(o, "manual", "draft", "standard_purchase", 0)

\* A processing order is a purchase order with a total and no items.
CreateProcessingOrder(o) ==
    \E total \in Amount : Insert(o, "manual", "draft", "standard_purchase", total)

\* Mutant of ModeStatus: the comparison is the wrong way round.
ModeStatusReversed(mode, total) ==
    IF mode # "jit_dropship" /\ total <= Threshold[mode]
    THEN "pending_approval" ELSE "approved"

ModeStatus(mode, total) ==
    IF mode # "jit_dropship" /\ total > Threshold[mode]
    THEN "pending_approval" ELSE "approved"

CreatePoWithMode(o) ==
    \E mode \in Modes, total \in Amount :
        LET status == ModeStatus(mode, total) IN
        Insert(o, IF status = "approved" THEN "auto" ELSE "manual", status, mode, total)

ProcessVmiReplenishment(o) ==
    Insert(o, "auto", "approved", "vmi_subcontracting", 0)

ProcessCentralizedOrder(o) ==
    \E total \in Amount : Insert(o, "manual", "pending_approval", "centralized", total)

Load(s, o) ==
    /\ poRequest[s] = NoRequest
    /\ po[o].status # "none"
    /\ \E change \in Handled(po[o], o) :
          poRequest' = [poRequest EXCEPT ![s] =
                           [order |-> o, read |-> po[o], change |-> change]]
    /\ UNCHANGED <<po, ordered, entry, accepted, poStale>>

CommitOrder(s) ==
    /\ poRequest[s] # NoRequest
    /\ LET r == poRequest[s]
           o == r.order
       IN
       /\ accepted[o] + r.change.money <= MaxAmount
       /\ po' = [po EXCEPT ![o] = Flushed(@, r.read, r.change.set)]
       /\ ordered' = [ordered EXCEPT ![o] = @ + r.change.items]
       /\ accepted' = [accepted EXCEPT ![o] = @ + r.change.money]
       /\ poStale' = IF po[o] = r.read THEN poStale ELSE poStale \cup {o}
    /\ poRequest' = [poRequest EXCEPT ![s] = NoRequest]
    /\ UNCHANGED entry

RollbackOrder(s) ==
    /\ poRequest[s] # NoRequest
    /\ poRequest' = [poRequest EXCEPT ![s] = NoRequest]
    /\ UNCHANGED <<po, ordered, entry, accepted, poStale>>

PoInit ==
    /\ po = [o \in Orders |-> NoOrder]
    /\ ordered = [o \in Orders |-> 0]
    /\ entry = [o \in Orders |-> "none"]
    /\ accepted = [o \in Orders |-> 0]
    /\ poRequest = [s \in PoSessions |-> NoRequest]
    /\ poStale = {}

PoNext ==
    \/ \E o \in Orders :
        \/ CreateOrder(o) \/ CreateProcessingOrder(o) \/ CreatePoWithMode(o)
        \/ ProcessVmiReplenishment(o) \/ ProcessCentralizedOrder(o)
        \/ \E s \in PoSessions : Load(s, o)
    \/ \E s \in PoSessions : CommitOrder(s) \/ RollbackOrder(s)

PoSpec == PoInit /\ [][PoNext]_poVars

-----------------------------------------------------------------------------
(* Properties *)

\* Rows, histories and requests in flight are well typed.
PoTypeOK ==
    /\ po \in [Orders -> PoRow]
    /\ ordered \in [Orders -> Nat]
    /\ entry \in [Orders -> {"none", "manual", "auto"}]
    /\ accepted \in [Orders -> Amount]
    /\ \A s \in PoSessions : poRequest[s] # NoRequest =>
          /\ poRequest[s].order \in Orders
          /\ poRequest[s].read \in PoRow
          /\ Flushed(poRequest[s].read, poRequest[s].read, poRequest[s].change.set) \in PoRow
    /\ poStale \subseteq Orders

\* paid_amount is the sum of the payments the services accepted, as long as no
\* request committed on the order from an out-of-date load.
PaidIsAccepted ==
    \A o \in Orders \ poStale : po[o].paid = accepted[o]

\* No order is paid beyond its total, consignment (settled by consumption)
\* excepted: record_payment compares with a total that nothing may change any
\* more, whatever order items, receipts and payments come in.
NeverOverpaid ==
    \A o \in Orders \ poStale :
        po[o].mode # "consignment" => po[o].paid <= po[o].total

\* An order its purchase mode approved without anybody's decision stays within
\* the threshold of the mode for ever, under every interleaving: no path leads
\* from 'approved' back to a status in which items are added.
AutoApprovedWithinThreshold ==
    \A o \in Orders :
        entry[o] = "auto" /\ po[o].mode # "jit_dropship"
        => po[o].total <= Threshold[po[o].mode]

\* What was approved is what is bought: once an order left 'draft' and
\* 'pending_approval' its total is frozen, unless an item was being added while
\* the order was approved.
ApprovedAmountFrozen ==
    [][\A o \in Orders :
          po[o].status \notin Editable \cup {"none"} /\ o \notin poStale'
          => po'[o].total = po[o].total]_poVars

\* What the buyer's money depends on.
PurchasesAreSound ==
    PoTypeOK /\ PaidIsAccepted /\ NeverOverpaid /\ AutoApprovedWithinThreshold
=============================================================================
