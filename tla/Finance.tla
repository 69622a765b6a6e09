------------------------------ MODULE Finance ------------------------------
(***************************************************************************)
(* Financial documents of the FMS domain.  Eight kinds of document share   *)
(* the cost_event table, payment records and payment requests share        *)
(* payment_record, settlements have a table of their own.  A service finds *)
(* a row by its id alone and looks only at its status: whichever document  *)
(* the row is, the service's own transition table decides.                 *)
(*                                                                         *)
(* A request loads the row, decides, and flushes at its commit the columns *)
(* it changed; other requests may commit in between.                       *)
(***************************************************************************)
EXTENDS Integers, FiniteSets, Rows

CONSTANTS
    Docs,           \* ids of rows, unique over the three tables
    FinSessions,    \* requests that may be in flight together
    MaxFigure,      \* bound: of amounts, exchange rates, sales and fees
    NoFinRequest    \* a session without a request

ASSUME FinAssumption == MaxFigure \in Nat \ {0}

VARIABLES
    doc,            \* the rows; kind "none": not created yet
    computed,       \* history: docs whose derived column the code has computed
    cleared,        \* history: docs that were approved or issued at some commit
    finRequest,     \* what each session loaded and is about to flush
    finStale        \* history: docs committed from an out-of-date load

finVars == <<doc, computed, cleared, finRequest, finStale>>

-----------------------------------------------------------------------------
(* Tables and their lifecycles *)

CostEventTransitions ==
    [draft |-> {"confirmed", "cancelled"}, confirmed |-> {"settled"}]

SettlementTransitions ==
    [pending |-> {"confirmed", "cancelled"}, confirmed |-> {"settled"}]

PaymentTransitions ==
    [pending    |-> {"processing", "cancelled"},
     processing |-> {"completed", "failed"},
     failed     |-> {"pending"}]

PaymentRequestTransitions ==
    [pending  |-> {"approved", "rejected", "cancelled"},
     approved |-> {"paid", "cancelled"}]

WriteOffTransitions ==
    [pending  |-> {"approved", "rejected", "cancelled"}, approved |-> {"completed"}]

ReconciliationTransitions ==
    [pending  |-> {"reconciled", "disputed", "cancelled"},
     disputed |-> {"reconciled", "cancelled"}]

InvoiceTransitions ==
    [draft   |-> {"issued", "cancelled"},
     issued  |-> {"paid", "voided", "overdue"},
     overdue |-> {"paid", "voided"}]

\* Mutant of ExpenseTransitions: small expenses are paid without approval.
ExpensePaidDirectly ==
    [pending  |-> {"approved", "rejected", "cancelled", "paid"},
     approved |-> {"paid", "cancelled"}]

ExpenseTransitions ==
    [pending  |-> {"approved", "rejected", "cancelled"},
     approved |-> {"paid", "cancelled"}]

ForexTransitions == [pending |-> {"completed", "cancelled"}]

\* Mutant of PlatformBillTransitions: a reconciled bill may be disputed again.
PlatformBillReopens ==
    [pending    |-> {"reconciled", "disputed"},
     disputed   |-> {"reconciled"},
     reconciled |-> {"disputed"}]

PlatformBillTransitions ==
    [pending |-> {"reconciled", "disputed"}, disputed |-> {"reconciled"}]

Kinds == {"cost_event", "writeoff", "reconciliation", "invoice", "expense", "forex",
          "platform_bill", "journal", "settlement", "payment", "payment_request"}

TableOf(kind) ==
    CASE kind = "settlement" -> "platform_settlement"
      [] kind \in {"payment", "payment_request"} -> "payment_record"
      [] OTHER -> "cost_event"

\* A journal entry has no lifecycle of its own.
Lifecycle(kind) ==
    CASE kind = "cost_event" -> CostEventTransitions
      [] kind = "writeoff" -> WriteOffTransitions
      [] kind = "reconciliation" -> ReconciliationTransitions
      [] kind = "invoice" -> InvoiceTransitions
      [] kind = "expense" -> ExpenseTransitions
      [] kind = "forex" -> ForexTransitions
      [] kind = "platform_bill" -> PlatformBillTransitions
      [] kind = "settlement" -> SettlementTransitions
      [] kind = "payment" -> PaymentTransitions
      [] kind = "payment_request" -> PaymentRequestTransitions
      [] OTHER -> [confirmed |-> {}]

\* A status a table does not list leads nowhere.
After(table, status) == IF status \in DOMAIN table THEN table[status] ELSE {}

StatusesOf(table) == DOMAIN table \cup UNION {table[s] : s \in DOMAIN table}

FinStatuses == UNION {StatusesOf(Lifecycle(k)) : k \in Kinds}

\* The statuses no lifecycle leaves, by table.
Closed(table) ==
    CASE table = "cost_event" -> {"settled", "cancelled", "rejected", "completed",
                                  "reconciled", "paid", "voided"}
      [] table = "platform_settlement" -> {"settled", "cancelled", "reconciled"}
      [] table = "payment_record" -> {"completed", "cancelled", "approved", "rejected"}

-----------------------------------------------------------------------------
(* Figures: x and y are amount and exchange rate of a cost event, sales and *)
(* refunds with fees of a settlement; derived is amount_cny or net_amount   *)

FinInput == 1..MaxFigure

CalculateAmountCny(amount, rate) == amount * rate

CalculateNetAmount(sales, fees) == sales - fees

Derived(kind, x, y) ==
    IF TableOf(kind) = "platform_settlement"
    THEN CalculateNetAmount(x, y) ELSE CalculateAmountCny(x, y)

NoDoc == [kind |-> "none", status |-> "none", x |-> 1, y |-> 1, derived |-> 0]

-----------------------------------------------------------------------------
(* Handlers: the columns a request read and the ones it sets *)

\* A service that moves the status of row r along its own table.
Moves(r, table, targets) ==
    {[read |-> [status |-> r.status], set |-> [status |-> t]] :
        t \in After(table, r.status) \cap targets}

CostEventUpdateStatus(r) ==
    Moves(r, CostEventTransitions, StatusesOf(CostEventTransitions))

SettlementUpdateStatus(r) ==
    Moves(r, SettlementTransitions, StatusesOf(SettlementTransitions))

PaymentUpdateStatus(r) ==
    Moves(r, PaymentTransitions, StatusesOf(PaymentTransitions))

WriteOffMoves(r) == Moves(r, WriteOffTransitions, {"approved", "completed", "rejected"})

ReconciliationMoves(r) ==
    Moves(r, ReconciliationTransitions, {"reconciled", "disputed", "cancelled"})

InvoiceMoves(r) == Moves(r, InvoiceTransitions, {"issued", "paid", "cancelled", "overdue"})

ExpenseMoves(r) == Moves(r, ExpenseTransitions, {"approved", "rejected", "paid"})

ForexMoves(r) == Moves(r, ForexTransitions, {"completed", "cancelled"})

PlatformBillMoves(r) == Moves(r, PlatformBillTransitions, {"reconciled", "disputed"})

CanApprove(flow, level) == level >= 1 /\ Cardinality(flow) + 1 = level

IsFullyApproved(flow, levels) == Cardinality(flow) >= levels

\* approval_flow is no attribute of a payment record: every approval finds it
\* empty, and what it appends is kept nowhere.
PaymentRequestApprove(r) ==
    {[read |-> [status |-> r.status],
      set |-> [status |-> IF IsFullyApproved({level}, levels) THEN "approved" ELSE r.status]] :
        level \in {l \in 0..2 : r.status = "pending" /\ CanApprove({}, l)}, levels \in 0..2}

PaymentRequestReject(r) == Moves(r, PaymentRequestTransitions, {"rejected"})

\* The order that should match is never found (SalesOrder is not imported), so
\* only a settlement without a net amount counts as matched.
ReconcileSettlement(r) ==
    {[read |-> [status |-> r.status], set |-> [status |-> s]] :
        s \in {t \in {"reconciled"} : r.derived = 0 /\ r.status = "pending"}}

\* Mutant of UpdateFigures: a new exchange rate alone does not trigger it.
UpdateFiguresAmountOnly(r) ==
    {[read |-> [x |-> r.x, y |-> r.y, derived |-> r.derived],
      set |-> [x |-> x, y |-> y,
               derived |-> IF x # r.x THEN Derived(r.kind, x, y) ELSE r.derived]] :
        x \in FinInput, y \in FinInput}

\* CostEventService.update and PlatformSettlementService.update: in any status,
\* for whatever document the row is.
UpdateFigures(r) ==
    {[read |-> [x |-> r.x, y |-> r.y, derived |-> r.derived],
      set |-> [x |-> x, y |-> y, derived |-> Derived(r.kind, x, y)]] :
        x \in FinInput, y \in FinInput}

FinHandled(r) ==
    CASE TableOf(r.kind) = "cost_event" ->
            CostEventUpdateStatus(r) \cup WriteOffMoves(r) \cup ReconciliationMoves(r)
            \cup InvoiceMoves(r) \cup ExpenseMoves(r) \cup ForexMoves(r)
            \cup PlatformBillMoves(r) \cup UpdateFigures(r)
      [] TableOf(r.kind) = "platform_settlement" ->
            SettlementUpdateStatus(r) \cup ReconcileSettlement(r) \cup UpdateFigures(r)
      [] TableOf(r.kind) = "payment_record" ->
            PaymentUpdateStatus(r) \cup PaymentRequestApprove(r) \cup PaymentRequestReject(r)

-----------------------------------------------------------------------------
(* Steps *)

InsertDoc(d, kind, status, x, y, derived) ==
    /\ doc[d] = NoDoc
    /\ doc' = [doc EXCEPT ![d] = [kind |-> kind, status |-> status,
                                  x |-> x, y |-> y, derived |-> derived]]
    /\ UNCHANGED <<computed, cleared, finRequest, finStale>>

CreateCostEvent(d) ==
    \E amount, rate \in FinInput :
        /\ doc[d] = NoDoc
        /\ doc' = [doc EXCEPT ![d] = [kind |-> "cost_event", status |-> "confirmed",
              x |-> amount, y |-> rate, derived |-> CalculateAmountCny(amount, rate)]]
        /\ computed' = computed \cup {d}
        /\ UNCHANGED <<cleared, finRequest, finStale>>

\* amount_cny of the other documents stays 0 until somebody updates them.
CreateWriteOff(d) == \E a \in FinInput : InsertDoc(d, "writeoff", "pending", a, 1, 0)

CreateReconciliation(d) == \E a \in FinInput : InsertDoc(d, "reconciliation", "pending", a, 1, 0)

CreateInvoice(d) == \E a \in FinInput : InsertDoc(d, "invoice", "draft", a, 1, 0)

CreateExpense(d) == \E a \in FinInput : InsertDoc(d, "expense", "pending", a, 1, 0)

\* Only a conversion into CNY has an amount in CNY.
CreateForex(d) ==
    \E a, rate \in FinInput, toCny \in BOOLEAN :
        InsertDoc(d, "forex", "pending", a, rate, IF toCny THEN a * rate ELSE 0)

CreatePlatformBill(d) == \E a \in FinInput : InsertDoc(d, "platform_bill", "pending", a, 1, 0)

CreateJournalEntry(d) == \E a \in FinInput : InsertDoc(d, "journal", "confirmed", a, 1, 0)

\* The net amount of a new settlement is whatever the request says.
CreateSettlement(d) ==
    \E sales, fees \in FinInput, net \in 0..MaxFigure :
        InsertDoc(d, "settlement", "pending", sales, fees, net)

CreatePayment(d) == InsertDoc(d, "payment", "pending", 1, 1, 0)

CreatePaymentRequest(d) == InsertDoc(d, "payment_request", "pending", 1, 1, 0)

LoadDoc(s, d) ==
    /\ finRequest[s] = NoFinRequest
    /\ doc[d] # NoDoc
    /\ \E change \in FinHandled(doc[d]) :
          finRequest' = [finRequest EXCEPT ![s] =
                            [doc |-> d, read |-> change.read, set |-> change.set]]
    /\ UNCHANGED <<doc, computed, cleared, finStale>>

CommitDoc(s) ==
    /\ finRequest[s] # NoFinRequest
    /\ LET r == finRequest[s]
           d == r.doc
       IN
       /\ doc' = [doc EXCEPT ![d] = Flushed(@, r.read, r.set)]
       /\ computed' = IF "derived" \in DOMAIN r.set THEN computed \cup {d} ELSE computed
       /\ cleared' = IF doc'[d].status \in {"approved", "issued"}
                     THEN cleared \cup {d} ELSE cleared
       /\ finStale' = IF \A c \in DOMAIN r.read : doc[d][c] = r.read[c]
                      THEN finStale ELSE finStale \cup {d}
    /\ finRequest' = [finRequest EXCEPT ![s] = NoFinRequest]

RollbackDoc(s) ==
    /\ finRequest[s] # NoFinRequest
    /\ finRequest' = [finRequest EXCEPT ![s] = NoFinRequest]
    /\ UNCHANGED <<doc, computed, cleared, finStale>>

FinInit ==
    /\ doc = [d \in Docs |-> NoDoc]
    /\ computed = {} /\ cleared = {} /\ finStale = {}
    /\ finRequest = [s \in FinSessions |-> NoFinRequest]

FinNext ==
    \/ \E d \in Docs :
        \/ CreateCostEvent(d) \/ CreateWriteOff(d) \/ CreateReconciliation(d)
        \/ CreateInvoice(d) \/ CreateExpense(d) \/ CreateForex(d)
        \/ CreatePlatformBill(d) \/ CreateJournalEntry(d) \/ CreateSettlement(d)
        \/ CreatePayment(d) \/ CreatePaymentRequest(d)
        \/ \E s \in FinSessions : LoadDoc(s, d)
    \/ \E s \in FinSessions : CommitDoc(s) \/ RollbackDoc(s)

FinSpec == FinInit /\ [][FinNext]_finVars

-----------------------------------------------------------------------------
(* Properties *)

\* Rows and requests in flight are well typed.
FinTypeOK ==
    /\ \A d \in Docs : doc[d] # NoDoc =>
          /\ doc[d].kind \in Kinds /\ doc[d].status \in FinStatuses
          /\ doc[d].x \in FinInput /\ doc[d].y \in FinInput /\ doc[d].derived \in Int
    /\ computed \subseteq Docs /\ cleared \subseteq Docs /\ finStale \subseteq Docs
    /\ \A s \in FinSessions : finRequest[s] # NoFinRequest => finRequest[s].doc \in Docs

\* What is settled, paid, rejected, cancelled or reconciled is not reopened by
\* any of the services that share the row, unless two requests overlap: the
\* lifecycles, each written for its own kind, have no way back in common.
ClosedStaysClosed ==
    [][\A d \in Docs \ finStale' :
          doc[d] # NoDoc /\ doc[d].status \in Closed(TableOf(doc[d].kind))
          => doc'[d].status = doc[d].status]_finVars

\* No document is paid that was not approved or issued before, by whichever
\* services its row went through.
PaidWasCleared ==
    \A d \in Docs \ finStale : doc[d].status = "paid" => d \in cleared

\* amount_cny and net_amount, once computed, agree with the columns they are
\* computed from: two updates must overlap for the sums over them to be wrong.
FiguresAgree ==
    \A d \in computed \ finStale :
        doc[d].derived = Derived(doc[d].kind, doc[d].x, doc[d].y)

\* What the books depend on.
FinanceIsSound == FinTypeOK /\ PaidWasCleared /\ FiguresAgree
=============================================================================
