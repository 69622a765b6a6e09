------------------------------ MODULE Sourcing ------------------------------
(***************************************************************************)
(* Suppliers, their evaluations, and inquiries with the suppliers' quotes: *)
(* SupplierService, SupplierEvaluationService and InquiryService of the    *)
(* SCM domain.                                                             *)
(*                                                                         *)
(* The requests that change an inquiry load it, decide, and flush at their *)
(* commit; the supplier requests are one step each.                        *)
(***************************************************************************)
EXTENDS Integers, FiniteSets, Rows

CONSTANTS
    Suppliers,      \* supplier ids
    Inquiries,      \* inquiry ids
    Quotes,         \* ids of the quotes that will be inserted
    SrcSessions,    \* requests on inquiries that may be in flight together
    Scores,         \* bound: the scores (0..100) evaluations use
    NoInquiryRequest \* a session without a request

ASSUME SrcAssumption == Scores \subseteq 0..100 /\ "none" \notin Inquiries \cup Quotes

VARIABLES
    supplier,   \* the supplier rows
    inquiry,    \* status of each inquiry row
    quote,      \* the inquiry_quote rows
    srcRequest, \* what each session loaded and is about to flush
    srcStale    \* history: inquiries committed from an out-of-date load

srcVars == <<supplier, inquiry, quote, srcRequest, srcStale>>

-----------------------------------------------------------------------------
(* Data *)

CooperationLevels == {"trial", "normal", "strategic"}

\* The levels an evaluation gives, only one of them a cooperation level.
RatingLevels == {"strategic", "preferred", "qualified", "probationary"}

SupplierRow ==
    [status : {"none", "active", "disabled"}, live : BOOLEAN,
     level : CooperationLevels \cup RatingLevels,
     quality : 0..100, delivery : 0..100]

InquiryTransitions ==
    [draft      |-> {"published", "cancelled"},
     published  |-> {"quoting", "cancelled"},
     quoting    |-> {"evaluating", "cancelled"},
     evaluating |-> {"awarded", "cancelled"},
     awarded    |-> {"completed"},
     completed  |-> {},
     cancelled  |-> {}]

InquiryStatuses == DOMAIN InquiryTransitions

QuoteRow == [inquiry : Inquiries, supplier : Suppliers, winner : BOOLEAN]

NoQuote == [inquiry |-> "none"]

QuotesOf(i) == {q \in Quotes : quote[q].inquiry = i}

Winners(i) == {q \in QuotesOf(i) : quote[q].winner}

-----------------------------------------------------------------------------
(* Suppliers *)

\* Tenths of a point: 0.4 quality, 0.3 delivery, 0.2 price, 0.1 service.
CalculateRating(quality, delivery, price, service) ==
    4 * quality + 3 * delivery + 2 * price + service

GetCooperationLevel(rating) ==
    CASE rating >= 900 -> "strategic"
      [] rating >= 750 /\ rating < 900 -> "preferred"
      [] rating >= 600 /\ rating < 750 -> "qualified"
      [] rating < 600 -> "probationary"

Usable(x) == supplier[x].status # "none" /\ supplier[x].live

CreateSupplier(x) ==
    /\ supplier[x].status = "none"
    /\ supplier' = [supplier EXCEPT ![x] =
          [status |-> "active", live |-> TRUE, level |-> "normal", quality |-> 0, delivery |-> 0]]
    /\ UNCHANGED <<inquiry, quote, srcRequest, srcStale>>

\* PUT /suppliers/{id}: the request model lets two statuses and three levels
\* through; the scores are not among its fields.
UpdateSupplier(x) ==
    /\ Usable(x)
    /\ \/ \E status \in {"active", "disabled"} :
            supplier' = [supplier EXCEPT ![x].status = status]
       \/ \E level \in CooperationLevels :
            supplier' = [supplier EXCEPT ![x].level = level]
    /\ UNCHANGED <<inquiry, quote, srcRequest, srcStale>>

DeleteSupplier(x) ==
    /\ Usable(x)
    /\ supplier' = [supplier EXCEPT ![x].live = FALSE, ![x].status = "disabled"]
    /\ UNCHANGED <<inquiry, quote, srcRequest, srcStale>>

\* SupplierEvaluationService.create; batch_evaluate is a sequence of these, each
\* failing one (unknown supplier) being skipped.
Evaluate(x) ==
    /\ Usable(x)
    /\ \E quality, delivery, price, service \in Scores :
          supplier' = [supplier EXCEPT
                ![x].quality = quality, ![x].delivery = delivery,
                ![x].level = GetCooperationLevel(
                                CalculateRating(quality, delivery, price, service))]
    /\ UNCHANGED <<inquiry, quote, srcRequest, srcStale>>

-----------------------------------------------------------------------------
(* Inquiries: what a request that loaded inquiry i with a status is about  *)
(* to flush: the inquiry's new status, and the quote row it touches        *)

Flush(i, status, q, row) == [inquiry |-> i, read |-> inquiry[i], status |-> status,
                             quote |-> q, row |-> row]

\* Sessions with a request in flight.
Busy == {s \in SrcSessions : srcRequest[s] # NoInquiryRequest}

CreateInquiry(i) ==
    /\ inquiry[i] = "none"
    /\ inquiry' = [inquiry EXCEPT ![i] = "draft"]
    /\ UNCHANGED <<supplier, quote, srcRequest, srcStale>>

Begin(s, flush) ==
    /\ srcRequest[s] = NoInquiryRequest
    /\ srcRequest' = [srcRequest EXCEPT ![s] = flush]
    /\ UNCHANGED <<supplier, inquiry, quote, srcStale>>

UpdateInquiryStatus(s, i) ==
    /\ inquiry[i] # "none"
    /\ \E status \in InquiryTransitions[inquiry[i]] :
          Begin(s, Flush(i, status, "none", NoQuote))

\* Mutant of AddQuote: an inquiry under evaluation still takes quotes.
AddQuoteLate(s, i) ==
    /\ inquiry[i] \in {"published", "quoting", "evaluating"}
    /\ \E q \in Quotes, x \in Suppliers :
          /\ quote[q] = NoQuote
          /\ \A t \in Busy : srcRequest[t].quote # q
          /\ Begin(s, Flush(i, IF inquiry[i] = "published" THEN "quoting" ELSE inquiry[i],
                            q, [inquiry |-> i, supplier |-> x, winner |-> FALSE]))

\* The supplier of a quote is not looked up; the inquiry's deadline is not either.
AddQuote(s, i) ==
    /\ inquiry[i] \in {"published", "quoting"}
    /\ \E q \in Quotes, x \in Suppliers :
          /\ quote[q] = NoQuote
          /\ \A t \in Busy : srcRequest[t].quote # q
          /\ Begin(s, Flush(i, IF inquiry[i] = "published" THEN "quoting" ELSE inquiry[i],
                            q, [inquiry |-> i, supplier |-> x, winner |-> FALSE]))

\* Mutant of AwardQuote: the status is not checked.
AwardQuoteAgain(s, i) ==
    /\ inquiry[i] \in {"evaluating", "awarded"}
    /\ \E q \in QuotesOf(i) :
          Begin(s, Flush(i, "awarded", q, [quote[q] EXCEPT !.winner = TRUE]))

AwardQuote(s, i) ==
    /\ inquiry[i] = "evaluating"
    /\ \E q \in QuotesOf(i) :
          Begin(s, Flush(i, "awarded", q, [quote[q] EXCEPT !.winner = TRUE]))

CommitInquiry(s) ==
    /\ srcRequest[s] # NoInquiryRequest
    /\ LET f == srcRequest[s] IN
       /\ inquiry' = [inquiry EXCEPT ![f.inquiry] = IF f.status # f.read THEN f.status ELSE @]
       /\ quote' = [q \in Quotes |-> IF q = f.quote THEN f.row ELSE quote[q]]
       /\ srcStale' = IF inquiry[f.inquiry] = f.read THEN srcStale
                      ELSE srcStale \cup {f.inquiry}
    /\ srcRequest' = [srcRequest EXCEPT ![s] = NoInquiryRequest]
    /\ UNCHANGED supplier

RollbackInquiry(s) ==
    /\ srcRequest[s] # NoInquiryRequest
    /\ srcRequest' = [srcRequest EXCEPT ![s] = NoInquiryRequest]
    /\ UNCHANGED <<supplier, inquiry, quote, srcStale>>

SrcInit ==
    /\ supplier = [x \in Suppliers |-> [status |-> "none", live |-> TRUE, level |-> "normal",
                                        quality |-> 0, delivery |-> 0]]
    /\ inquiry = [i \in Inquiries |-> "none"]
    /\ quote = [q \in Quotes |-> NoQuote]
    /\ srcRequest = [s \in SrcSessions |-> NoInquiryRequest]
    /\ srcStale = {}

SrcNext ==
    \/ \E x \in Suppliers :
          CreateSupplier(x) \/ UpdateSupplier(x) \/ DeleteSupplier(x) \/ Evaluate(x)
    \/ \E i \in Inquiries :
        \/ CreateInquiry(i)
        \/ \E s \in SrcSessions :
              UpdateInquiryStatus(s, i) \/ AddQuote(s, i) \/ AwardQuote(s, i)
    \/ \E s \in SrcSessions : CommitInquiry(s) \/ RollbackInquiry(s)

SrcSpec == SrcInit /\ [][SrcNext]_srcVars

-----------------------------------------------------------------------------
(* Properties *)

\* Rows and requests in flight are well typed.
SrcTypeOK ==
    /\ supplier \in [Suppliers -> SupplierRow]
    /\ inquiry \in [Inquiries -> InquiryStatuses \cup {"none"}]
    /\ quote \in [Quotes -> QuoteRow \cup {NoQuote}]
    /\ srcStale \subseteq Inquiries

\* An inquiry is awarded to one quote at most, and a quote has won only an
\* inquiry whose award is decided: two buyers who award two quotes together are
\* the only way to two winners.
OneWinner ==
    SrcTypeOK /\ \A i \in Inquiries \ srcStale :
        /\ Cardinality(Winners(i)) <= 1
        /\ Winners(i) # {} => inquiry[i] \in {"awarded", "completed"}

\* The quotes that are compared are all there are: from the start of the
\* evaluation on, an inquiry gets no more quotes.
QuotesFrozen ==
    [][\A i \in Inquiries :
          inquiry[i] \notin {"none", "draft", "published", "quoting"} /\ i \notin srcStale'
          => {q \in Quotes : quote'[q].inquiry = i} = QuotesOf(i)]_srcVars
=============================================================================
