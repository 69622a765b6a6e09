------------------------------ MODULE TradeProofs ------------------------------
(***************************************************************************)
(* TLAPS proofs about the documents of trade: inquiries and their quotes,  *)
(* purchase orders, sales orders, shipments and financial documents, for   *)
(* any number of rows and of requests in flight.                           *)
(*                                                                         *)
(* A request decides on what it loaded and flushes at its commit.  Each    *)
(* proof says what the requests in flight may be about to flush, and uses  *)
(* that a commit which does not make its row stale finds the row as it was *)
(* loaded.  The property that joins the five is MCTrade's.                 *)
(***************************************************************************)
EXTENDS MCTrade, FiniteSetTheorems, SequenceTheorems, TLAPS

-----------------------------------------------------------------------------
(* Inquiries and quotes *)

\* What a request is about to flush.
Flushes ==
    [inquiry : Inquiries, read : InquiryStatuses, status : InquiryStatuses,
     quote : Quotes \cup {"none"}, row : QuoteRow \cup {NoQuote}]

Moving(f) == f.quote = "none" /\ f.status \in InquiryTransitions[f.read]

\* The id of the new row is the request's own: no other row has it.
Adding(f) ==
    /\ f.read \in {"published", "quoting"} /\ f.status = "quoting"
    /\ f.quote \in Quotes /\ quote[f.quote] = NoQuote
    /\ f.row \in QuoteRow /\ f.row.inquiry = f.inquiry /\ f.row.winner = FALSE

Awarding(f) ==
    /\ f.read = "evaluating" /\ f.status = "awarded"
    /\ f.quote \in QuotesOf(f.inquiry)
    /\ f.row \in QuoteRow /\ f.row.inquiry = f.inquiry

\* One quote at most has won an inquiry nobody overwrote, and only one whose
\* award is decided.
WinnerDecided ==
    \A i \in Inquiries \ srcStale :
        /\ \A p, q \in Winners(i) : p = q
        /\ Winners(i) # {} => inquiry[i] \in {"awarded", "completed"}

SrcInv ==
    /\ SrcTypeOK
    /\ srcRequest \in [SrcSessions -> Flushes \cup {NoInquiryRequest}]
    /\ \A s \in Busy : \/ Moving(srcRequest[s])
                       \/ Awarding(srcRequest[s])
                       \/ /\ Adding(srcRequest[s])
                          /\ \A t \in Busy : srcRequest[t].quote = srcRequest[s].quote => t = s
    /\ WinnerDecided

LEMMA QuoteFacts ==
    ASSUME SrcTypeOK, NEW q \in Quotes
    PROVE  /\ quote[q] \in QuoteRow \/ quote[q] = NoQuote
           /\ quote[q] \in QuoteRow <=> quote[q].inquiry \in Inquiries
           /\ quote[q] = NoQuote <=> quote[q].inquiry = "none"
  <1>1. quote[q] \in QuoteRow \/ quote[q] = NoQuote
    BY DEF SrcTypeOK
  <1>2. NoQuote.inquiry = "none" /\ "none" \notin Inquiries
    BY SrcAssumption DEF NoQuote
  <1>3. \A r \in QuoteRow : r.inquiry \in Inquiries
    BY DEF QuoteRow
  <1> QED
    BY <1>1, <1>2, <1>3

LEMMA SrcInitially == SrcInit => SrcInv
  <1> SUFFICES ASSUME SrcInit PROVE SrcInv
    OBVIOUS
  <1>1. SrcTypeOK
    BY DEF SrcInit, SrcTypeOK, SupplierRow, CooperationLevels, RatingLevels
  <1>2. Busy = {} /\ srcRequest \in [SrcSessions -> Flushes \cup {NoInquiryRequest}]
    BY DEF SrcInit, Busy
  <1>3. \A i \in Inquiries : QuotesOf(i) = {}
    BY SrcAssumption DEF SrcInit, QuotesOf, NoQuote
  <1>4. \A i \in Inquiries : Winners(i) = {}
    BY <1>3 DEF Winners
  <1> QED
    BY <1>1, <1>2, <1>4 DEF SrcInv, WinnerDecided

\* A step of the suppliers keeps everything else.
LEMMA SupplierStep ==
    ASSUME SrcInv, supplier' \in [Suppliers -> SupplierRow],
           UNCHANGED <<inquiry, quote, srcRequest, srcStale>>
    PROVE  SrcInv'
  BY DEF SrcInv, SrcTypeOK, Busy, Moving, Adding, Awarding, QuotesOf, Winners, WinnerDecided

LEMMA LevelType ==
    ASSUME NEW quality \in Scores, NEW delivery \in Scores, NEW price \in Scores, NEW service \in Scores
    PROVE  /\ quality \in 0..100 /\ delivery \in 0..100
           /\ GetCooperationLevel(CalculateRating(quality, delivery, price, service)) \in RatingLevels
  <1>1. quality \in 0..100 /\ delivery \in 0..100 /\ price \in 0..100 /\ service \in 0..100
    BY SrcAssumption
  <1>2. PICK rating \in Int : rating = CalculateRating(quality, delivery, price, service)
    BY <1>1 DEF CalculateRating
  <1>3. GetCooperationLevel(rating) \in RatingLevels
    BY DEF GetCooperationLevel, RatingLevels
  <1> QED
    BY <1>1, <1>2, <1>3

\* Session s takes up a request.
LEMMA BeginStep ==
    ASSUME SrcInv, NEW s \in SrcSessions, NEW f \in Flushes, Begin(s, f),
           \/ Moving(f)
           \/ Awarding(f)
           \/ Adding(f) /\ \A t \in Busy : srcRequest[t].quote # f.quote
    PROVE  SrcInv'
  <1>1. /\ srcRequest[s] = NoInquiryRequest /\ s \notin Busy
        /\ srcRequest' = [srcRequest EXCEPT ![s] = f]
        /\ UNCHANGED <<supplier, inquiry, quote, srcStale>>
    BY DEF Begin, Busy
  <1>2. /\ srcRequest' \in [SrcSessions -> Flushes \cup {NoInquiryRequest}]
        /\ srcRequest'[s] = f /\ \A t \in SrcSessions \ {s} : srcRequest'[t] = srcRequest[t]
    BY <1>1 DEF SrcInv
  <1>3. Busy' \subseteq Busy \cup {s} /\ \A t \in Busy : t # s /\ t \in SrcSessions
    BY <1>1, <1>2 DEF Busy
  <1>4. SrcTypeOK' /\ WinnerDecided'
    BY <1>1 DEF SrcInv, SrcTypeOK, WinnerDecided, Winners, QuotesOf
  <1>5. ASSUME NEW t \in Busy', NEW g, g = srcRequest'[t]
        PROVE  \/ Moving(g)
               \/ Awarding(g)'
               \/ /\ Adding(g)'
                  /\ \A u \in Busy' : srcRequest'[u].quote = g.quote => u = t
    <2>1. (Adding(g) => Adding(g)') /\ (Awarding(g) => Awarding(g)')
      BY <1>1 DEF Adding, Awarding, QuotesOf
    <2>2. CASE t = s
      <3>1. g = f
        BY <1>2, <1>5, <2>2
      <3>2. ASSUME Adding(f), \A u \in Busy : srcRequest[u].quote # f.quote
            PROVE  Adding(g)' /\ \A u \in Busy' : srcRequest'[u].quote = g.quote => u = t
        BY <1>2, <1>3, <2>1, <2>2, <3>1, <3>2
      <3> QED
        BY <2>1, <3>1, <3>2
    <2>3. CASE t # s
      <3>1. t \in Busy /\ g = srcRequest[t]
        BY <1>2, <1>3, <1>5, <2>3
      <3>2. CASE Moving(srcRequest[t]) \/ Awarding(srcRequest[t])
        BY <2>1, <3>1, <3>2
      <3>3. CASE /\ Adding(srcRequest[t])
                 /\ \A u \in Busy : srcRequest[u].quote = srcRequest[t].quote => u = t
        <4>1. f.quote # srcRequest[t].quote
          <5>1. quote[srcRequest[t].quote] = NoQuote /\ srcRequest[t].quote \in Quotes
            BY <3>3 DEF Adding
          <5>2. CASE Moving(f)
            BY <5>1, <5>2, SrcAssumption DEF Moving
          <5>3. CASE Awarding(f)
            BY <5>1, <5>3, SrcAssumption DEF Awarding, QuotesOf, NoQuote, Flushes
          <5> QED
            BY <3>1, <5>2, <5>3
        <4> QED
          BY <1>2, <1>3, <2>1, <3>1, <3>3, <4>1
      <3> QED
        BY <3>1, <3>2, <3>3 DEF SrcInv
    <2> QED
      BY <2>2, <2>3
  <1> QED
    BY <1>2, <1>4, <1>5 DEF SrcInv, Moving

LEMMA FlushRow ==
    ASSUME NEW s \in SrcSessions, SrcInv, srcRequest[s] # NoInquiryRequest
    PROVE  srcRequest[s] \in Flushes /\ s \in Busy
  BY DEF SrcInv, Busy

\* A commit that does not make its inquiry stale finds it as it was loaded,
\* and only the quotes of that inquiry change.
LEMMA CommitFacts ==
    ASSUME SrcInv, NEW s \in SrcSessions, CommitInquiry(s), NEW f, f = srcRequest[s]
    PROVE  /\ f \in Flushes /\ f.inquiry \in Inquiries
           /\ srcStale \subseteq srcStale' /\ srcStale' \subseteq Inquiries
           /\ f.inquiry \notin srcStale' =>
                 inquiry[f.inquiry] = f.read /\ inquiry'[f.inquiry] = f.status
           /\ inquiry' \in [Inquiries -> InquiryStatuses \cup {"none"}]
           /\ \A i \in Inquiries \ {f.inquiry} : inquiry'[i] = inquiry[i]
           /\ \A q \in Quotes : quote'[q] = IF q = f.quote THEN f.row ELSE quote[q]
           /\ quote' \in [Quotes -> QuoteRow \cup {NoQuote}]
           /\ f.quote \in Quotes =>
                 f.row \in QuoteRow /\ f.row.inquiry = f.inquiry
                 /\ (quote[f.quote] = NoQuote \/ quote[f.quote].inquiry = f.inquiry)
           /\ \A i \in Inquiries \ {f.inquiry} :
                 QuotesOf(i)' = QuotesOf(i) /\ Winners(i)' = Winners(i)
  <1>1. f \in Flushes /\ s \in Busy /\ f.inquiry \in Inquiries
    BY FlushRow DEF CommitInquiry, Flushes
  <1>2. Moving(f) \/ Awarding(f) \/ Adding(f)
    BY <1>1 DEF SrcInv
  <1>3. f.quote \in Quotes =>
           f.row \in QuoteRow /\ f.row.inquiry = f.inquiry
           /\ (quote[f.quote] = NoQuote \/ quote[f.quote].inquiry = f.inquiry)
    BY <1>2, SrcAssumption DEF Moving, Awarding, Adding, QuotesOf
  <1>4. /\ inquiry' = [inquiry EXCEPT ![f.inquiry] = IF f.status # f.read THEN f.status ELSE @]
        /\ quote' = [q \in Quotes |-> IF q = f.quote THEN f.row ELSE quote[q]]
        /\ srcStale' = IF inquiry[f.inquiry] = f.read THEN srcStale ELSE srcStale \cup {f.inquiry}
    BY DEF CommitInquiry
  <1>5. inquiry \in [Inquiries -> InquiryStatuses \cup {"none"}] /\ srcStale \subseteq Inquiries
        /\ f.status \in InquiryStatuses
    BY <1>1 DEF SrcInv, SrcTypeOK, Flushes
  <1>6. \A q \in Quotes : quote[q] \in QuoteRow \cup {NoQuote}
    BY DEF SrcInv, SrcTypeOK
  <1>7. \A q \in Quotes : quote'[q] = IF q = f.quote THEN f.row ELSE quote[q]
    BY <1>4
  <1>8. quote' \in [Quotes -> QuoteRow \cup {NoQuote}]
    BY <1>3, <1>4, <1>6
  <1>9. ASSUME NEW i \in Inquiries \ {f.inquiry}
        PROVE  QuotesOf(i)' = QuotesOf(i) /\ Winners(i)' = Winners(i)
    <2>1. \A q \in Quotes : q = f.quote =>
             quote'[q].inquiry = f.inquiry /\ quote[q].inquiry \in {f.inquiry, "none"}
      BY <1>3, <1>7 DEF NoQuote
    <2>2. \A q \in Quotes : quote'[q].inquiry = i <=> quote[q].inquiry = i
      BY <1>7, <2>1, SrcAssumption
    <2>3. \A q \in Quotes : quote[q].inquiry = i => quote'[q] = quote[q]
      BY <1>7, <2>1, SrcAssumption
    <2> QED
      BY <2>2, <2>3 DEF QuotesOf, Winners
  <1> QED
    BY <1>1, <1>3, <1>4, <1>5, <1>7, <1>8, <1>9

LEMMA CommitStep ==
    ASSUME SrcInv, NEW s \in SrcSessions, CommitInquiry(s)
    PROVE  SrcInv'
  <1>1. PICK f : f = srcRequest[s]
    OBVIOUS
  <1>2. /\ f \in Flushes /\ f.inquiry \in Inquiries
        /\ srcStale \subseteq srcStale' /\ srcStale' \subseteq Inquiries
        /\ f.inquiry \notin srcStale' =>
              inquiry[f.inquiry] = f.read /\ inquiry'[f.inquiry] = f.status
        /\ inquiry' \in [Inquiries -> InquiryStatuses \cup {"none"}]
        /\ \A i \in Inquiries \ {f.inquiry} : inquiry'[i] = inquiry[i]
        /\ \A q \in Quotes : quote'[q] = IF q = f.quote THEN f.row ELSE quote[q]
        /\ quote' \in [Quotes -> QuoteRow \cup {NoQuote}]
        /\ f.quote \in Quotes =>
              f.row \in QuoteRow /\ f.row.inquiry = f.inquiry
              /\ (quote[f.quote] = NoQuote \/ quote[f.quote].inquiry = f.inquiry)
    BY <1>1, CommitFacts
  <1>3. \A i \in Inquiries \ {f.inquiry} : QuotesOf(i)' = QuotesOf(i) /\ Winners(i)' = Winners(i)
    BY <1>1, CommitFacts
  <1>4. s \in Busy /\ f # NoInquiryRequest
    BY <1>1, FlushRow DEF CommitInquiry
  <1>5. SrcTypeOK'
    BY <1>2 DEF CommitInquiry, SrcInv, SrcTypeOK
  <1>6. /\ srcRequest' \in [SrcSessions -> Flushes \cup {NoInquiryRequest}]
        /\ Busy' = Busy \ {s}
        /\ \A t \in Busy' : srcRequest'[t] = srcRequest[t]
    BY DEF CommitInquiry, SrcInv, Busy
  <1>7. WinnerDecided'
    <2> SUFFICES ASSUME NEW i \in Inquiries \ srcStale'
                 PROVE  /\ \A p, q \in Winners(i)' : p = q
                        /\ Winners(i)' # {} => inquiry'[i] \in {"awarded", "completed"}
      BY DEF WinnerDecided
    <2>1. /\ \A p, q \in Winners(i) : p = q
          /\ Winners(i) # {} => inquiry[i] \in {"awarded", "completed"}
      BY <1>2 DEF SrcInv, WinnerDecided
    <2>2. CASE i # f.inquiry
      BY <1>2, <1>3, <2>1, <2>2
    <2>3. CASE i = f.inquiry
      <3>1. inquiry[i] = f.read /\ inquiry'[i] = f.status
        BY <1>2, <2>3
      <3>2. CASE Moving(f)
        <4>1. quote' = quote
          BY <1>2, <3>2, SrcAssumption DEF Moving, SrcInv, SrcTypeOK
        <4>2. Winners(i)' = Winners(i)
          BY <4>1 DEF Winners, QuotesOf
        <4>3. f.read \in {"awarded", "completed"} => f.status \in {"awarded", "completed"}
          BY <3>2 DEF Moving, InquiryTransitions
        <4> QED
          BY <2>1, <3>1, <4>2, <4>3
      <3>3. CASE Awarding(f)
        <4>1. f.status = "awarded" /\ Winners(i) = {}
          BY <2>1, <3>1, <3>3 DEF Awarding
        <4>2. \A q \in Winners(i)' : q = f.quote
          BY <1>2, <4>1 DEF Winners, QuotesOf
        <4> QED
          BY <3>1, <4>1, <4>2
      <3>4. CASE Adding(f)
        <4>1. Winners(i) = {} /\ f.row.winner = FALSE
          BY <2>1, <3>1, <3>4 DEF Adding
        <4>2. Winners(i)' = {}
          BY <1>2, <4>1 DEF Winners, QuotesOf
        <4> QED
          BY <4>2
      <3> QED
        BY <1>1, <1>4, <3>2, <3>3, <3>4 DEF SrcInv
    <2> QED
      BY <2>2, <2>3
  <1>8. ASSUME NEW t \in Busy', NEW g, g = srcRequest'[t]
        PROVE  \/ Moving(g)
               \/ Awarding(g)'
               \/ /\ Adding(g)'
                  /\ \A u \in Busy' : srcRequest'[u].quote = g.quote => u = t
    <2>1. t \in Busy /\ t # s /\ g = srcRequest[t]
      BY <1>6, <1>8
    <2>2. CASE Moving(g)
      BY <2>2
    <2>3. CASE Awarding(g)
      <3>1. g.quote \in Quotes /\ quote[g.quote].inquiry = g.inquiry /\ g.inquiry \in Inquiries
        <4>1. g \in Flushes
          BY <2>1 DEF SrcInv, Busy
        <4> QED
          BY <2>3, <4>1 DEF Awarding, QuotesOf, Flushes
      <3>2. quote'[g.quote].inquiry = g.inquiry
        <4>1. CASE g.quote = f.quote
          BY <1>2, <3>1, <4>1, SrcAssumption DEF NoQuote
        <4>2. CASE g.quote # f.quote
          BY <1>2, <3>1, <4>2
        <4> QED
          BY <4>1, <4>2
      <3> QED
        BY <2>3, <3>1, <3>2 DEF Awarding, QuotesOf
    <2>4. CASE /\ Adding(g)
               /\ \A u \in Busy : srcRequest[u].quote = g.quote => u = t
      <3>1. f.quote # g.quote
        BY <1>1, <1>4, <2>1, <2>4
      <3>2. quote'[g.quote] = quote[g.quote]
        BY <1>2, <2>4, <3>1 DEF Adding
      <3> QED
        BY <1>6, <2>4, <3>2 DEF Adding
    <2> QED
      BY <2>1, <2>2, <2>3, <2>4 DEF SrcInv
  <1> QED
    BY <1>5, <1>6, <1>7, <1>8 DEF SrcInv, Moving

LEMMA SrcStep == SrcInv /\ [SrcNext]_srcVars => SrcInv'
  <1> SUFFICES ASSUME SrcInv, [SrcNext]_srcVars PROVE SrcInv'
    OBVIOUS
  <1>1. ASSUME NEW x \in Suppliers,
               CreateSupplier(x) \/ UpdateSupplier(x) \/ DeleteSupplier(x) \/ Evaluate(x)
        PROVE  SrcInv'
    <2>1. supplier \in [Suppliers -> SupplierRow]
      BY DEF SrcInv, SrcTypeOK
    <2>2. supplier' \in [Suppliers -> SupplierRow]
      <3>1. CASE CreateSupplier(x)
        BY <2>1, <3>1 DEF CreateSupplier, SupplierRow, CooperationLevels
      <3>2. CASE UpdateSupplier(x)
        BY <2>1, <3>2 DEF UpdateSupplier, SupplierRow
      <3>3. CASE DeleteSupplier(x)
        <4>1. PICK row \in SupplierRow : row = supplier[x]
          BY <2>1
        <4>2. PICK left : left = [row EXCEPT !.live = FALSE, !.status = "disabled"]
          OBVIOUS
        <4>3. left \in SupplierRow
          BY <4>2 DEF SupplierRow
        <4>4. supplier' = [supplier EXCEPT ![x] = left]
          BY <2>1, <3>3, <4>1, <4>2 DEF DeleteSupplier
        <4> QED
          BY <2>1, <4>3, <4>4
      <3>4. CASE Evaluate(x)
        <4>1. PICK quality, delivery, price, service \in Scores :
                 supplier' = [supplier EXCEPT
                    ![x].quality = quality, ![x].delivery = delivery,
                    ![x].level = GetCooperationLevel(
                                    CalculateRating(quality, delivery, price, service))]
          BY <3>4 DEF Evaluate
        <4>2. PICK level \in RatingLevels :
                 level = GetCooperationLevel(CalculateRating(quality, delivery, price, service))
          BY LevelType
        <4>3. quality \in 0..100 /\ delivery \in 0..100
          BY LevelType
        <4>4. PICK row \in SupplierRow : row = supplier[x]
          BY <2>1
        <4>5. PICK rated : rated = [row EXCEPT !.quality = quality, !.delivery = delivery, !.level = level]
          OBVIOUS
        <4>6. rated \in SupplierRow
          BY <4>2, <4>3, <4>5 DEF SupplierRow
        <4>7. supplier' = [supplier EXCEPT ![x] = rated]
          BY <2>1, <4>1, <4>2, <4>4, <4>5
        <4> QED
          BY <2>1, <4>6, <4>7
      <3> QED
        BY <1>1, <3>1, <3>2, <3>3, <3>4
    <2>3. UNCHANGED <<inquiry, quote, srcRequest, srcStale>>
      BY <1>1 DEF CreateSupplier, UpdateSupplier, DeleteSupplier, Evaluate
    <2> QED
      BY <2>2, <2>3, SupplierStep
  <1>2. ASSUME NEW i \in Inquiries, CreateInquiry(i) PROVE SrcInv'
    <2>1. inquiry' \in [Inquiries -> InquiryStatuses \cup {"none"}] /\ inquiry[i] = "none"
          /\ \A j \in Inquiries \ {i} : inquiry'[j] = inquiry[j]
      BY <1>2 DEF CreateInquiry, SrcInv, SrcTypeOK, InquiryStatuses, InquiryTransitions
    <2> QED
      BY <1>2, <2>1 DEF CreateInquiry, SrcInv, SrcTypeOK, Busy, Moving, Adding, Awarding, QuotesOf,
                        Winners, WinnerDecided
  <1>3. ASSUME NEW i \in Inquiries, NEW s \in SrcSessions, UpdateInquiryStatus(s, i) PROVE SrcInv'
    <2>1. PICK status \in InquiryTransitions[inquiry[i]] :
             inquiry[i] # "none" /\ Begin(s, Flush(i, status, "none", NoQuote))
      BY <1>3 DEF UpdateInquiryStatus
    <2>2. inquiry[i] \in InquiryStatuses
      BY <2>1 DEF SrcInv, SrcTypeOK
    <2>3. status \in InquiryStatuses
      BY <2>2 DEF InquiryStatuses, InquiryTransitions
    <2>4. PICK f : f = Flush(i, status, "none", NoQuote)
      OBVIOUS
    <2>5. f \in Flushes /\ Moving(f)
      BY <2>2, <2>3, <2>4 DEF Flush, Flushes, Moving
    <2> QED
      BY <2>1, <2>4, <2>5, BeginStep
  <1>4. ASSUME NEW i \in Inquiries, NEW s \in SrcSessions, AddQuote(s, i) PROVE SrcInv'
    <2>1. PICK q \in Quotes, x \in Suppliers, status \in {"quoting"} :
             /\ inquiry[i] \in {"published", "quoting"} /\ quote[q] = NoQuote
             /\ \A t \in Busy : srcRequest[t].quote # q
             /\ Begin(s, Flush(i, status, q, [inquiry |-> i, supplier |-> x, winner |-> FALSE]))
      BY <1>4 DEF AddQuote
    <2>2. PICK f : f = Flush(i, status, q, [inquiry |-> i, supplier |-> x, winner |-> FALSE])
      OBVIOUS
    <2>3. f \in Flushes /\ f.quote = q
      BY <2>1, <2>2 DEF Flush, Flushes, QuoteRow, InquiryStatuses, InquiryTransitions
    <2>4. Adding(f)
      BY <2>1, <2>2 DEF Flush, QuoteRow, Adding
    <2> QED
      BY <2>1, <2>2, <2>3, <2>4, BeginStep
  <1>5. ASSUME NEW i \in Inquiries, NEW s \in SrcSessions, AwardQuote(s, i) PROVE SrcInv'
    <2>1. PICK q \in QuotesOf(i) :
             /\ inquiry[i] = "evaluating"
             /\ Begin(s, Flush(i, "awarded", q, [quote[q] EXCEPT !.winner = TRUE]))
      BY <1>5 DEF AwardQuote
    <2>2. q \in Quotes /\ quote[q].inquiry = i
      BY DEF QuotesOf
    <2>3. quote[q] \in QuoteRow
      BY <2>2, QuoteFacts DEF SrcInv
    <2>4. PICK row : row = [quote[q] EXCEPT !.winner = TRUE]
      OBVIOUS
    <2>8. row \in QuoteRow /\ row.inquiry = i
      <3>1. PICK loaded \in QuoteRow : loaded = quote[q]
        BY <2>3
      <3>2. row = [loaded EXCEPT !.winner = TRUE]
        BY <2>4, <3>1
      <3> QED
        BY <2>2, <3>1, <3>2 DEF QuoteRow
    <2>5. PICK f : f = Flush(i, "awarded", q, row)
      OBVIOUS
    <2>6. f \in Flushes
      BY <2>1, <2>2, <2>5, <2>8 DEF Flush, Flushes, InquiryStatuses, InquiryTransitions
    <2>7. Awarding(f)
      <3>1. f.read = "evaluating" /\ f.status = "awarded" /\ f.inquiry = i /\ f.quote = q /\ f.row = row
        BY <2>1, <2>5 DEF Flush
      <3> QED
        BY <2>8, <3>1 DEF Awarding
    <2> QED
      BY <2>1, <2>4, <2>5, <2>6, <2>7, BeginStep
  <1>6. ASSUME NEW s \in SrcSessions, CommitInquiry(s) PROVE SrcInv'
    BY <1>6, CommitStep
  <1>7. ASSUME NEW s \in SrcSessions, RollbackInquiry(s) PROVE SrcInv'
    <2>1. /\ srcRequest' \in [SrcSessions -> Flushes \cup {NoInquiryRequest}]
          /\ Busy' \subseteq Busy
          /\ \A t \in Busy' : srcRequest'[t] = srcRequest[t]
      BY <1>7 DEF RollbackInquiry, SrcInv, Busy
    <2> QED
      BY <1>7, <2>1 DEF RollbackInquiry, SrcInv, SrcTypeOK, Moving, Adding, Awarding, QuotesOf,
                        Winners, WinnerDecided
  <1>8. CASE UNCHANGED srcVars
    BY <1>8 DEF srcVars, SrcInv, SrcTypeOK, Busy, Moving, Adding, Awarding, QuotesOf, Winners,
                WinnerDecided
  <1> QED
    BY <1>1, <1>2, <1>3, <1>4, <1>5, <1>6, <1>7, <1>8 DEF SrcNext

\* An inquiry that no overlapping request has overwritten is awarded to one
\* quote at most, and a quote has won only an inquiry whose award is decided.
THEOREM OneWinnerHolds == SrcSpec => []OneWinner
  <1>1. SrcInv => OneWinner
    <2> SUFFICES ASSUME SrcInv, NEW i \in Inquiries \ srcStale
                 PROVE  Cardinality(Winners(i)) <= 1
      BY DEF OneWinner, SrcInv, WinnerDecided
    <2>1. \A p, q \in Winners(i) : p = q
      BY DEF SrcInv, WinnerDecided
    <2>2. CASE Winners(i) = {}
      BY <2>2, FS_EmptySet
    <2>3. CASE Winners(i) # {}
      <3>1. PICK q : q \in Winners(i)
        BY <2>3
      <3>2. Winners(i) = {q}
        BY <2>1, <3>1
      <3>3. Cardinality({q}) = 1
        BY FS_Singleton
      <3> QED
        BY <3>2, <3>3
    <2> QED
      BY <2>2, <2>3
  <1> QED
    BY <1>1, SrcInitially, SrcStep, PTL DEF SrcSpec

\* From the start of the evaluation on, an inquiry gets no more quotes, unless
\* requests overlapped.
THEOREM QuotesStay == SrcSpec => QuotesFrozen
  <1>1. SrcInv /\ [SrcNext]_srcVars =>
           [\A i \in Inquiries :
              inquiry[i] \notin {"none", "draft", "published", "quoting"} /\ i \notin srcStale'
              => {q \in Quotes : quote'[q].inquiry = i} = QuotesOf(i)]_srcVars
    <2> SUFFICES ASSUME SrcInv, SrcNext, NEW i \in Inquiries,
                        inquiry[i] \notin {"none", "draft", "published", "quoting"}, i \notin srcStale'
                 PROVE  {q \in Quotes : quote'[q].inquiry = i} = QuotesOf(i)
      OBVIOUS
    <2>1. CASE quote' = quote
      BY <2>1 DEF QuotesOf
    <2>2. ASSUME NEW s \in SrcSessions, CommitInquiry(s)
          PROVE  QuotesOf(i)' = QuotesOf(i)
      <3>1. PICK f : f = srcRequest[s]
        OBVIOUS
      <3>2. /\ f \in Flushes
            /\ f.inquiry \notin srcStale' => inquiry[f.inquiry] = f.read
            /\ \A q \in Quotes : quote'[q] = IF q = f.quote THEN f.row ELSE quote[q]
            /\ f.quote \in Quotes => f.row.inquiry = f.inquiry
            /\ \A j \in Inquiries \ {f.inquiry} : QuotesOf(j)' = QuotesOf(j)
        BY <2>2, <3>1, CommitFacts
      <3>3. CASE f.inquiry # i
        BY <3>2, <3>3
      <3>4. CASE f.inquiry = i
        <4>1. ~Adding(f)
          BY <3>2, <3>4 DEF Adding
        <4>2. s \in Busy
          BY <2>2, FlushRow DEF CommitInquiry
        <4>3. Moving(f) \/ Awarding(f)
          BY <3>1, <4>1, <4>2 DEF SrcInv
        <4>4. f.quote \in Quotes => quote[f.quote].inquiry = i
          BY <3>4, <4>3, SrcAssumption DEF Moving, Awarding, QuotesOf
        <4> QED
          BY <3>2, <3>4, <4>4 DEF QuotesOf
      <3> QED
        BY <3>3, <3>4
    <2>3. quote' = quote \/ \E s \in SrcSessions : CommitInquiry(s)
      BY DEF SrcNext, CreateSupplier, UpdateSupplier, DeleteSupplier, Evaluate, CreateInquiry, Begin,
             UpdateInquiryStatus, AddQuote, AwardQuote, RollbackInquiry
    <2> QED
      BY <2>1, <2>2, <2>3 DEF QuotesOf
  <1> QED
    BY <1>1, SrcInitially, SrcStep, PTL DEF SrcSpec, QuotesFrozen

-----------------------------------------------------------------------------
(* Purchase orders *)

\* What a request that loaded row r may be about to flush: a status, which is
\* not one in which items are added unless the order was in one; items of an
\* order in such a status; money within the total, consignment excepted; the
\* mark of a deleted row.
PoMoves(r, c) ==
    \E t \in PoStatuses : /\ c = Assign([status |-> t])
                          /\ r.status \notin Editable => t \notin Editable

PoAdds(r, c) ==
    \E n \in Nat : /\ c = Change([total |-> r.total + n], n, 0)
                   /\ r.status \in Editable /\ r.total + n \in Amount

PoPays(r, c) ==
    \E n \in Nat : /\ c = Change([paid |-> r.paid + n], 0, n)
                   /\ r.paid + n \in Amount
                   /\ r.mode # "consignment" => r.paid + n <= r.total

PoDeletes(c) == c = Assign([live |-> FALSE])

PoRequestOK(r) ==
    /\ r.order \in Orders /\ r.read \in PoRow
    /\ po[r.order].status # "none" /\ r.read.status # "none"
    /\ PoMoves(r.read, r.change) \/ PoAdds(r.read, r.change) \/ PoPays(r.read, r.change)
       \/ PoDeletes(r.change)
    /\ entry[r.order] = "auto" => r.read.status \notin Editable

PoRowsOK ==
    /\ po \in [Orders -> PoRow]
    /\ ordered \in [Orders -> Nat]
    /\ entry \in [Orders -> {"none", "manual", "auto"}]
    /\ accepted \in [Orders -> Amount]
    /\ poStale \subseteq Orders

\* An order that was approved automatically is in no status in which items are
\* added, and no request in flight found it in one.
PoInv ==
    /\ PoRowsOK
    /\ DOMAIN poRequest = PoSessions /\ poRequest = [s \in PoSessions |-> poRequest[s]]
    /\ \A s \in PoSessions : poRequest[s] # NoRequest => PoRequestOK(poRequest[s])
    /\ PaidIsAccepted /\ NeverOverpaid /\ AutoApprovedWithinThreshold
    /\ \A o \in Orders : /\ entry[o] = "auto" => po[o].status \notin Editable \cup {"none"}
                         /\ po[o].status = "none" => po[o] = NoOrder

\* A flush that sets one column changes that column alone, and only if the
\* value differs from the loaded one.
LEMMA PoFlushed ==
    ASSUME NEW row \in PoRow, NEW read \in PoRow
    PROVE  /\ \A t : Flushed(row, read, [status |-> t])
                        = [row EXCEPT !.status = IF t # read.status THEN t ELSE @]
           /\ \A t : Flushed(row, read, [total |-> t])
                        = [row EXCEPT !.total = IF t # read.total THEN t ELSE @]
           /\ \A t : Flushed(row, read, [paid |-> t])
                        = [row EXCEPT !.paid = IF t # read.paid THEN t ELSE @]
           /\ \A t : Flushed(row, read, [live |-> t])
                        = [row EXCEPT !.live = IF t # read.live THEN t ELSE @]
  <1>1. /\ row = [c \in DOMAIN row |-> row[c]]
        /\ DOMAIN row = {"status", "live", "mode", "total", "paid"}
    BY DEF PoRow
  <1>2. ASSUME NEW t
        PROVE  Flushed(row, read, [status |-> t])
                  = [row EXCEPT !.status = IF t # read.status THEN t ELSE @]
    BY <1>1 DEF Flushed
  <1>3. ASSUME NEW t
        PROVE  Flushed(row, read, [total |-> t])
                  = [row EXCEPT !.total = IF t # read.total THEN t ELSE @]
    BY <1>1 DEF Flushed
  <1>4. ASSUME NEW t
        PROVE  Flushed(row, read, [paid |-> t])
                  = [row EXCEPT !.paid = IF t # read.paid THEN t ELSE @]
    BY <1>1 DEF Flushed
  <1>5. ASSUME NEW t
        PROVE  Flushed(row, read, [live |-> t])
                  = [row EXCEPT !.live = IF t # read.live THEN t ELSE @]
    BY <1>1 DEF Flushed
  <1> QED
    BY <1>2, <1>3, <1>4, <1>5

LEMMA PoHandled ==
    ASSUME NEW r \in PoRow, r.status # "none", NEW o \in Orders, NEW c \in Handled(r, o)
    PROVE  PoMoves(r, c) \/ PoAdds(r, c) \/ PoPays(r, c) \/ PoDeletes(c)
  <1>1. /\ r.status \in PoStatuses /\ r.total \in Amount /\ r.paid \in Amount
        /\ \A n \in Amount : n \in Nat
        /\ MaxAmount \in Nat
    BY PoAssumption DEF PoRow, Amount
  <1>2. CASE c \in ConfirmPurchaseOrder(r)
    BY <1>2 DEF ConfirmPurchaseOrder, PoMoves, PoStatuses, PoTransitions, Editable
  <1>3. CASE c \in NotifyShipment(r)
    BY <1>3 DEF NotifyShipment, PoMoves, PoStatuses, Editable
  <1>4. CASE c \in UpdateStatus(r)
    <2>1. PICK t \in DOMAIN PoTransitions :
             /\ r.status \in DOMAIN PoTransitions /\ t \in PoTransitions[r.status]
             /\ c = Assign([status |-> t])
      BY <1>4 DEF UpdateStatus
    <2>2. r.status \notin Editable => t \notin Editable
      BY <2>1 DEF PoTransitions, Editable
    <2> QED
      BY <2>1, <2>2 DEF PoMoves, PoStatuses
  <1>5. CASE c \in AddItem(r)
    <2>1. PICK n \in Amount : /\ r.status \in Editable /\ r.total + n <= MaxAmount
                              /\ c = Change([total |-> r.total + n], n, 0)
      BY <1>5 DEF AddItem
    <2>2. n \in Nat /\ r.total + n \in Amount
      BY <1>1, <2>1 DEF Amount
    <2> QED
      BY <2>1, <2>2 DEF PoAdds
  <1>6. CASE c \in ConfirmReceipt(r, o)
    <2>1. PICK t \in {"received", "partial_received"} : c = Assign([status |-> t])
      BY <1>6 DEF ConfirmReceipt
    <2> QED
      BY <2>1 DEF PoMoves, PoStatuses, PoTransitions, Editable
  <1>7. CASE c \in RecordPayment(r)
    <2>1. PICK n \in Amount : r.paid + n <= r.total /\ c = Change([paid |-> r.paid + n], 0, n)
      BY <1>7 DEF RecordPayment
    <2>2. n \in Nat /\ r.paid + n \in Amount
      BY <1>1, <2>1 DEF Amount
    <2> QED
      BY <2>1, <2>2 DEF PoPays
  <1>8. CASE c \in ProcessConsignmentConsumption(r)
    <2>1. PICK n \in Amount : /\ r.mode = "consignment" /\ r.paid + n <= MaxAmount
                              /\ c = Change([paid |-> r.paid + n], 0, n)
      BY <1>8 DEF ProcessConsignmentConsumption
    <2>2. n \in Nat /\ r.paid + n \in Amount
      BY <1>1, <2>1 DEF Amount
    <2> QED
      BY <2>1, <2>2 DEF PoPays
  <1>9. CASE c \in ProcessJitShipment(r)
    BY <1>9 DEF ProcessJitShipment, PoMoves, PoStatuses, PoTransitions, Editable
  <1>10. CASE c \in SoftDelete(r)
    BY <1>10 DEF SoftDelete, PoDeletes
  <1> QED
    BY <1>2, <1>3, <1>4, <1>5, <1>6, <1>7, <1>8, <1>9, <1>10 DEF Handled

LEMMA PoInitially == PoInit => PoInv
  <1> SUFFICES ASSUME PoInit PROVE PoInv
    OBVIOUS
  <1>1. 0 \in Amount /\ NoOrder \in PoRow
    BY PoAssumption DEF Amount, NoOrder, PoRow, Modes
  <1>2. PoRowsOK
    BY <1>1 DEF PoInit, PoRowsOK
  <1> QED
    BY <1>2 DEF PoInit, PoInv, PaidIsAccepted, NeverOverpaid, AutoApprovedWithinThreshold, NoOrder

\* A new order, automatically approved or not.
LEMMA InsertStep ==
    ASSUME PoInv, NEW o \in Orders, NEW by \in {"manual", "auto"}, NEW status \in PoStatuses,
           NEW mode \in Modes, NEW total \in Amount, Insert(o, by, status, mode, total),
           by = "auto" => /\ status \notin Editable
                          /\ mode # "jit_dropship" => total <= Threshold[mode]
    PROVE  PoInv'
  <1>1. PICK row : row = [status |-> status, live |-> TRUE, mode |-> mode, total |-> total, paid |-> 0]
    OBVIOUS
  <1>2. row \in PoRow /\ row.status = status /\ row.mode = mode /\ row.total = total /\ row.paid = 0
    BY <1>1, PoAssumption DEF PoRow, Amount
  <1>3. /\ po' \in [Orders -> PoRow] /\ po'[o] = row /\ \A x \in Orders \ {o} : po'[x] = po[x]
        /\ entry' \in [Orders -> {"none", "manual", "auto"}] /\ entry'[o] = by
        /\ \A x \in Orders \ {o} : entry'[x] = entry[x]
        /\ UNCHANGED <<ordered, accepted, poRequest, poStale>>
        /\ po[o] \in PoRow /\ po[o].status = "none"
    BY <1>1, <1>2 DEF Insert, PoInv, PoRowsOK
  <1>4. status # "none" /\ total >= 0
    BY DEF PoStatuses, PoTransitions, Amount
  <1>5. accepted[o] = 0 \/ o \in poStale
    <2>1. po[o].paid = 0
      BY <1>3 DEF PoInv, NoOrder
    <2> QED
      BY <2>1 DEF PoInv, PaidIsAccepted
  <1>6. PoRowsOK'
    BY <1>3 DEF PoInv, PoRowsOK
  <1>7. /\ DOMAIN poRequest' = PoSessions /\ poRequest' = [s \in PoSessions |-> poRequest'[s]]
        /\ \A s \in PoSessions : poRequest'[s] # NoRequest => PoRequestOK(poRequest[s])'
    <2> SUFFICES ASSUME NEW s \in PoSessions, poRequest[s] # NoRequest
                 PROVE  PoRequestOK(poRequest[s])'
      BY <1>3 DEF PoInv
    <2>1. PoRequestOK(poRequest[s]) /\ poRequest'[s] = poRequest[s]
      BY <1>3 DEF PoInv
    <2>2. poRequest[s].order # o
      BY <1>3, <2>1 DEF PoRequestOK
    <2> QED
      BY <1>3, <2>1, <2>2 DEF PoRequestOK
  <1>8. PaidIsAccepted' /\ NeverOverpaid' /\ AutoApprovedWithinThreshold'
    <2>1. PaidIsAccepted'
      BY <1>2, <1>3, <1>5 DEF PoInv, PaidIsAccepted
    <2>2. NeverOverpaid'
      BY <1>2, <1>3, <1>4 DEF PoInv, NeverOverpaid
    <2>3. AutoApprovedWithinThreshold'
      BY <1>2, <1>3 DEF PoInv, AutoApprovedWithinThreshold
    <2> QED
      BY <2>1, <2>2, <2>3
  <1>9. \A x \in Orders : /\ entry'[x] = "auto" => po'[x].status \notin Editable \cup {"none"}
                          /\ po'[x].status = "none" => po'[x] = NoOrder
    BY <1>2, <1>3, <1>4 DEF PoInv
  <1> QED
    BY <1>6, <1>7, <1>8, <1>9 DEF PoInv

LEMMA PoLoadStep ==
    ASSUME PoInv, NEW s \in PoSessions, NEW o \in Orders, Load(s, o)
    PROVE  PoInv'
  <1>1. PICK c \in Handled(po[o], o) :
           poRequest' = [poRequest EXCEPT ![s] = [order |-> o, read |-> po[o], change |-> c]]
    BY DEF Load
  <1>2. po[o] \in PoRow /\ po[o].status # "none" /\ UNCHANGED <<po, ordered, entry, accepted, poStale>>
    BY DEF Load, PoInv, PoRowsOK
  <1>3. PICK new : new = [order |-> o, read |-> po[o], change |-> c]
    OBVIOUS
  <1>4. PoRequestOK(new)
    BY <1>1, <1>2, <1>3, PoHandled DEF PoInv, PoRequestOK
  <1>5. /\ DOMAIN poRequest' = PoSessions /\ poRequest' = [t \in PoSessions |-> poRequest'[t]]
        /\ \A t \in PoSessions : poRequest'[t] = IF t = s THEN new ELSE poRequest[t]
    BY <1>1, <1>3 DEF PoInv
  <1>6. ASSUME NEW t \in PoSessions, NEW r, r = poRequest'[t], r # NoRequest
        PROVE  PoRequestOK(r)'
    <2>1. PoRequestOK(r)
      BY <1>4, <1>5, <1>6 DEF PoInv
    <2> QED
      BY <1>2, <2>1 DEF PoRequestOK
  <1> QED
    BY <1>2, <1>5, <1>6 DEF PoInv, PoRowsOK, PaidIsAccepted, NeverOverpaid, AutoApprovedWithinThreshold

\* What the commit of request r makes of row x of its order: each column is
\* kept or set, and set as the request computed it if x is what it had loaded.
LEMMA PoCommitted ==
    ASSUME NEW x \in PoRow, NEW r, r.read \in PoRow, x.status # "none",
           PoMoves(r.read, r.change) \/ PoAdds(r.read, r.change) \/ PoPays(r.read, r.change)
           \/ PoDeletes(r.change),
           NEW y, y = Flushed(x, r.read, r.change.set)
    PROVE  /\ y \in PoRow /\ y.mode = x.mode /\ y.status # "none"
           /\ r.change.items \in Nat /\ r.change.money \in Nat
           /\ r.read.status \notin Editable /\ x.status \notin Editable =>
                 y.status \notin Editable /\ y.total = x.total
           /\ x = r.read =>
                 /\ y.paid = x.paid + r.change.money
                 /\ x.mode # "consignment" /\ x.paid <= x.total => y.paid <= y.total
                 /\ x.status \notin Editable => y.total = x.total
  <1>1. CASE PoMoves(r.read, r.change)
    <2>1. PICK t \in PoStatuses : /\ r.change = Assign([status |-> t])
                                  /\ r.read.status \notin Editable => t \notin Editable
      BY <1>1 DEF PoMoves
    <2>2. r.change.set = [status |-> t] /\ r.change.items = 0 /\ r.change.money = 0
      BY <2>1 DEF Assign, Change
    <2>3. y = [x EXCEPT !.status = IF t # r.read.status THEN t ELSE @]
      BY <2>2, PoFlushed
    <2>4. t # "none"
      BY DEF PoStatuses, PoTransitions
    <2> QED
      BY <2>1, <2>2, <2>3, <2>4 DEF PoRow, Amount
  <1>2. CASE PoAdds(r.read, r.change)
    <2>1. PICK n \in Nat : /\ r.change = Change([total |-> r.read.total + n], n, 0)
                           /\ r.read.status \in Editable /\ r.read.total + n \in Amount
      BY <1>2 DEF PoAdds
    <2>2. PICK t \in Amount : t = r.read.total + n
      BY <2>1
    <2>3. r.change.set = [total |-> t] /\ r.change.items = n /\ r.change.money = 0
      BY <2>1, <2>2 DEF Change
    <2>4. y = [x EXCEPT !.total = IF t # r.read.total THEN t ELSE @]
      BY <2>3, PoFlushed
    <2>5. y \in PoRow /\ y.mode = x.mode /\ y.status = x.status /\ y.paid = x.paid
      BY <2>4 DEF PoRow
    <2>6. x = r.read => y.total = t /\ x.total <= t
      <3>1. x.total \in Nat /\ x.total \in Amount
        BY PoAssumption DEF PoRow, Amount
      <3> QED
        BY <2>2, <2>4, <3>1 DEF PoRow
    <2>7. y.paid \in Int /\ y.total \in Int /\ x.total \in Int
      BY <2>5 DEF PoRow, Amount
    <2> QED
      BY <2>1, <2>3, <2>5, <2>6, <2>7
  <1>3. CASE PoPays(r.read, r.change)
    <2>1. PICK n \in Nat : /\ r.change = Change([paid |-> r.read.paid + n], 0, n)
                           /\ r.read.paid + n \in Amount
                           /\ r.read.mode # "consignment" => r.read.paid + n <= r.read.total
      BY <1>3 DEF PoPays
    <2>2. PICK t \in Amount : t = r.read.paid + n
      BY <2>1
    <2>3. r.change.set = [paid |-> t] /\ r.change.items = 0 /\ r.change.money = n
      BY <2>1, <2>2 DEF Change
    <2>4. y = [x EXCEPT !.paid = IF t # r.read.paid THEN t ELSE @]
      BY <2>3, PoFlushed
    <2>5. y \in PoRow /\ y.mode = x.mode /\ y.status = x.status /\ y.total = x.total
      BY <2>4 DEF PoRow
    <2>6. x = r.read => y.paid = t
      BY <2>4 DEF PoRow
    <2> QED
      BY <2>1, <2>2, <2>3, <2>5, <2>6
  <1>4. CASE PoDeletes(r.change)
    <2>0. PICK t \in BOOLEAN : t = FALSE
      OBVIOUS
    <2>1. r.change.set = [live |-> t] /\ r.change.items = 0 /\ r.change.money = 0
      <3>1. r.change.set = [live |-> FALSE] /\ r.change.items = 0 /\ r.change.money = 0
        BY <1>4 DEF PoDeletes, Assign, Change
      <3> QED
        BY <2>0, <3>1
    <2>2. y = [x EXCEPT !.live = IF t # r.read.live THEN t ELSE @]
      BY <2>1, PoFlushed
    <2>3. y \in PoRow /\ y.mode = x.mode /\ y.status = x.status /\ y.total = x.total /\ y.paid = x.paid
      BY <2>2 DEF PoRow
    <2>4. x.paid \in Int
      BY DEF PoRow, Amount
    <2> QED
      BY <2>1, <2>3, <2>4
  <1> QED
    BY <1>1, <1>2, <1>3, <1>4

LEMMA PoCommitFacts ==
    ASSUME PoInv, NEW s \in PoSessions, CommitOrder(s), NEW r, r = poRequest[s],
           NEW o, o = r.order, NEW x, x = po[o], NEW y, y = po'[o]
    PROVE  /\ PoRequestOK(r) /\ o \in Orders /\ x \in PoRow /\ x.status # "none"
           /\ po' = [po EXCEPT ![o] = y] /\ y = Flushed(x, r.read, r.change.set)
           /\ poStale \subseteq poStale' /\ poStale' \subseteq Orders
           /\ o \notin poStale' => x = r.read
  <1>1. PoRequestOK(r)
    BY DEF CommitOrder, PoInv
  <1>2. o \in Orders /\ x \in PoRow /\ x.status # "none"
    BY <1>1 DEF PoRequestOK, PoInv, PoRowsOK
  <1>3. po' = [po EXCEPT ![o] = Flushed(x, r.read, r.change.set)]
    BY DEF CommitOrder
  <1>4. y = Flushed(x, r.read, r.change.set)
    BY <1>2, <1>3 DEF PoInv, PoRowsOK
  <1>5. poStale' = IF x = r.read THEN poStale ELSE poStale \cup {o}
    BY DEF CommitOrder
  <1>6. poStale \subseteq Orders
    BY DEF PoInv, PoRowsOK
  <1> QED
    BY <1>1, <1>2, <1>3, <1>4, <1>5, <1>6

LEMMA PoCommitStep ==
    ASSUME PoInv, NEW s \in PoSessions, CommitOrder(s)
    PROVE  PoInv'
  <1>1. PICK r : r = poRequest[s]
    OBVIOUS
  <1>2. PICK o : o = r.order
    OBVIOUS
  <1>3. PICK x : x = po[o]
    OBVIOUS
  <1>4. PICK y : y = po'[o]
    OBVIOUS
  <1>5. /\ PoRequestOK(r) /\ o \in Orders /\ x \in PoRow /\ x.status # "none"
        /\ po' = [po EXCEPT ![o] = y] /\ y = Flushed(x, r.read, r.change.set)
        /\ poStale \subseteq poStale' /\ poStale' \subseteq Orders
        /\ o \notin poStale' => x = r.read
    BY <1>1, <1>2, <1>3, <1>4, PoCommitFacts
  <1>6. /\ y \in PoRow /\ y.mode = x.mode /\ y.status # "none"
        /\ r.change.items \in Nat /\ r.change.money \in Nat
        /\ r.read.status \notin Editable /\ x.status \notin Editable =>
              y.status \notin Editable /\ y.total = x.total
        /\ x = r.read =>
              /\ y.paid = x.paid + r.change.money
              /\ x.mode # "consignment" /\ x.paid <= x.total => y.paid <= y.total
              /\ x.status \notin Editable => y.total = x.total
    BY <1>5, PoCommitted DEF PoRequestOK
  <1>7. /\ po' \in [Orders -> PoRow] /\ po'[o] = y /\ \A z \in Orders \ {o} : po'[z] = po[z]
    BY <1>4, <1>5, <1>6 DEF PoInv, PoRowsOK
  <1>8. /\ accepted' \in [Orders -> Amount] /\ accepted'[o] = accepted[o] + r.change.money
        /\ \A z \in Orders \ {o} : accepted'[z] = accepted[z]
    <2>1. accepted' = [accepted EXCEPT ![o] = @ + r.change.money]
          /\ accepted[o] + r.change.money <= MaxAmount
      BY <1>1, <1>2 DEF CommitOrder
    <2>2. accepted \in [Orders -> Amount] /\ accepted[o] \in Nat
      BY <1>5, PoAssumption DEF PoInv, PoRowsOK, Amount
    <2>3. PICK sum \in Amount : sum = accepted[o] + r.change.money
      BY <1>6, <2>1, <2>2, PoAssumption DEF Amount
    <2>4. accepted' = [accepted EXCEPT ![o] = sum]
      BY <2>1, <2>3
    <2> QED
      BY <1>5, <2>2, <2>3, <2>4
  <1>9. ordered' \in [Orders -> Nat]
    <2>1. ordered' = [ordered EXCEPT ![o] = @ + r.change.items] /\ ordered \in [Orders -> Nat]
      BY <1>1, <1>2 DEF CommitOrder, PoInv, PoRowsOK
    <2>2. PICK sum \in Nat : sum = ordered[o] + r.change.items
      BY <1>5, <1>6, <2>1
    <2>3. ordered' = [ordered EXCEPT ![o] = sum]
      BY <2>1, <2>2
    <2> QED
      BY <2>1, <2>3
  <1>10. entry' = entry
    BY DEF CommitOrder
  <1>11. PoRowsOK'
    BY <1>5, <1>7, <1>8, <1>9, <1>10 DEF PoInv, PoRowsOK
  <1>12. /\ DOMAIN poRequest' = PoSessions /\ poRequest' = [t \in PoSessions |-> poRequest'[t]]
         /\ \A t \in PoSessions : poRequest'[t] \in {NoRequest, poRequest[t]}
    BY DEF CommitOrder, PoInv
  <1>13. ASSUME NEW t \in PoSessions, NEW g, g = poRequest'[t], g # NoRequest
         PROVE  PoRequestOK(g)'
    <2>1. PoRequestOK(g)
      BY <1>12, <1>13 DEF PoInv
    <2>2. po'[g.order].status # "none"
      BY <1>6, <1>7, <2>1 DEF PoRequestOK
    <2> QED
      BY <1>10, <2>1, <2>2 DEF PoRequestOK
  <1>14. PaidIsAccepted'
    BY <1>3, <1>5, <1>6, <1>7, <1>8 DEF PoInv, PaidIsAccepted
  <1>15. NeverOverpaid'
    BY <1>3, <1>5, <1>6, <1>7 DEF PoInv, NeverOverpaid
  <1>16. entry[o] = "auto" => y.status \notin Editable /\ y.total = x.total
    BY <1>2, <1>3, <1>5, <1>6 DEF PoInv, PoRequestOK
  <1>17. AutoApprovedWithinThreshold'
    BY <1>3, <1>6, <1>7, <1>10, <1>16 DEF PoInv, AutoApprovedWithinThreshold
  <1>18. \A z \in Orders : /\ entry'[z] = "auto" => po'[z].status \notin Editable \cup {"none"}
                           /\ po'[z].status = "none" => po'[z] = NoOrder
    BY <1>6, <1>7, <1>10, <1>16 DEF PoInv
  <1> QED
    BY <1>11, <1>12, <1>13, <1>14, <1>15, <1>17, <1>18 DEF PoInv

LEMMA PoStep == PoInv /\ [PoNext]_poVars => PoInv'
  <1> SUFFICES ASSUME PoInv, [PoNext]_poVars PROVE PoInv'
    OBVIOUS
  <1>1. 0 \in Amount /\ {"draft", "pending_approval", "approved"} \subseteq PoStatuses
        /\ {"standard_purchase", "vmi_subcontracting", "centralized"} \subseteq Modes
    BY PoAssumption DEF Amount, PoStatuses, PoTransitions, Modes
  <1>2. ASSUME NEW o \in Orders, CreateOrder(o) PROVE PoInv'
    BY <1>1, <1>2, InsertStep DEF CreateOrder
  <1>3. ASSUME NEW o \in Orders, CreateProcessingOrder(o) PROVE PoInv'
    BY <1>1, <1>3, InsertStep DEF CreateProcessingOrder
  <1>4. ASSUME NEW o \in Orders, CreatePoWithMode(o) PROVE PoInv'
    <2>1. PICK mode \in Modes, total \in Amount, status \in {"pending_approval", "approved"} :
             /\ status = ModeStatus(mode, total)
             /\ Insert(o, IF status = "approved" THEN "auto" ELSE "manual", status, mode, total)
      BY <1>4 DEF CreatePoWithMode, ModeStatus
    <2>2. status = "approved" =>
             /\ status \notin Editable
             /\ mode # "jit_dropship" => total <= Threshold[mode]
      <3>1. total \in Int /\ (mode # "jit_dropship" => Threshold[mode] \in Int)
        BY PoAssumption DEF Amount
      <3> QED
        BY <2>1, <3>1 DEF ModeStatus, Editable
    <2>3. PICK by \in {"manual", "auto"} : by = IF status = "approved" THEN "auto" ELSE "manual"
      OBVIOUS
    <2> QED
      BY <1>1, <2>1, <2>2, <2>3, InsertStep
  <1>5. ASSUME NEW o \in Orders, ProcessVmiReplenishment(o) PROVE PoInv'
    <2>1. 0 <= Threshold["vmi_subcontracting"] /\ "approved" \notin Editable
      BY PoAssumption DEF Modes, Editable
    <2> QED
      BY <1>1, <1>5, <2>1, InsertStep DEF ProcessVmiReplenishment
  <1>6. ASSUME NEW o \in Orders, ProcessCentralizedOrder(o) PROVE PoInv'
    BY <1>1, <1>6, InsertStep DEF ProcessCentralizedOrder
  <1>7. ASSUME NEW o \in Orders, NEW s \in PoSessions, Load(s, o) PROVE PoInv'
    BY <1>7, PoLoadStep
  <1>8. ASSUME NEW s \in PoSessions, CommitOrder(s) PROVE PoInv'
    BY <1>8, PoCommitStep
  <1>9. ASSUME NEW s \in PoSessions, RollbackOrder(s) PROVE PoInv'
    <2>1. /\ DOMAIN poRequest' = PoSessions /\ poRequest' = [t \in PoSessions |-> poRequest'[t]]
          /\ \A t \in PoSessions : poRequest'[t] \in {NoRequest, poRequest[t]}
          /\ UNCHANGED <<po, ordered, entry, accepted, poStale>>
      BY <1>9 DEF RollbackOrder, PoInv
    <2>2. ASSUME NEW t \in PoSessions, NEW g, g = poRequest'[t], g # NoRequest
          PROVE  PoRequestOK(g)'
      BY <2>1, <2>2 DEF PoInv, PoRequestOK
    <2> QED
      BY <2>1, <2>2 DEF PoInv, PoRowsOK, PaidIsAccepted, NeverOverpaid, AutoApprovedWithinThreshold
  <1>10. CASE UNCHANGED poVars
    <2>1. UNCHANGED <<po, ordered, entry, accepted, poRequest, poStale>>
      BY <1>10 DEF poVars
    <2>2. ASSUME NEW t \in PoSessions, NEW g, g = poRequest'[t], g # NoRequest
          PROVE  PoRequestOK(g)'
      BY <2>1, <2>2 DEF PoInv, PoRequestOK
    <2> QED
      BY <2>1, <2>2 DEF PoInv, PoRowsOK, PaidIsAccepted, NeverOverpaid, AutoApprovedWithinThreshold
  <1> QED
    BY <1>2, <1>3, <1>4, <1>5, <1>6, <1>7, <1>8, <1>9, <1>10 DEF PoNext

\* What the buyer's money depends on: paid_amount is what was accepted, within
\* the total, while no overlapping request overwrote the order; an order that
\* was approved automatically stays within its mode's threshold for ever.
THEOREM PurchasesHold == PoSpec => []PurchasesAreSound
  <1>1. PoInv => PurchasesAreSound
    <2> SUFFICES ASSUME PoInv PROVE PoTypeOK
      BY DEF PoInv, PurchasesAreSound
    <2>1. ASSUME NEW s \in PoSessions, poRequest[s] # NoRequest
          PROVE  /\ poRequest[s].order \in Orders /\ poRequest[s].read \in PoRow
                 /\ Flushed(poRequest[s].read, poRequest[s].read, poRequest[s].change.set) \in PoRow
      <3>1. PICK r : r = poRequest[s]
        OBVIOUS
      <3>2. PoRequestOK(r)
        BY <2>1, <3>1 DEF PoInv
      <3>3. Flushed(r.read, r.read, r.change.set) \in PoRow
        BY <3>2, PoCommitted DEF PoRequestOK
      <3> QED
        BY <3>1, <3>2, <3>3 DEF PoRequestOK
    <2> QED
      BY <2>1 DEF PoTypeOK, PoInv, PoRowsOK
  <1> QED
    BY <1>1, PoInitially, PoStep, PTL DEF PoSpec

\* Once an order left draft and pending_approval its total is frozen, unless an
\* item was being added while the order was approved.
THEOREM TotalsStay == PoSpec => ApprovedAmountFrozen
  <1>1. PoInv /\ [PoNext]_poVars =>
           [\A o \in Orders :
              po[o].status \notin Editable \cup {"none"} /\ o \notin poStale'
              => po'[o].total = po[o].total]_poVars
    <2> SUFFICES ASSUME PoInv, PoNext, NEW o \in Orders,
                        po[o].status \notin Editable \cup {"none"}, o \notin poStale'
                 PROVE  po'[o].total = po[o].total
      OBVIOUS
    <2>1. CASE po' = po
      BY <2>1
    <2>2. ASSUME NEW z \in Orders, NEW by, NEW status, NEW mode, NEW total,
                 Insert(z, by, status, mode, total)
          PROVE  po'[o].total = po[o].total
      BY <2>2 DEF Insert, PoInv, PoRowsOK
    <2>3. ASSUME NEW s \in PoSessions, CommitOrder(s)
          PROVE  po'[o].total = po[o].total
      <3>1. PICK r : r = poRequest[s]
        OBVIOUS
      <3>2. PICK z : z = r.order
        OBVIOUS
      <3>3. PICK x : x = po[z]
        OBVIOUS
      <3>4. PICK y : y = po'[z]
        OBVIOUS
      <3>5. /\ PoRequestOK(r) /\ z \in Orders /\ x \in PoRow /\ x.status # "none"
            /\ po' = [po EXCEPT ![z] = y] /\ y = Flushed(x, r.read, r.change.set)
            /\ z \notin poStale' => x = r.read
        BY <2>3, <3>1, <3>2, <3>3, <3>4, PoCommitFacts
      <3>6. CASE z = o
        <4>1. x = r.read => (x.status \notin Editable => y.total = x.total)
          BY <3>5, PoCommitted DEF PoRequestOK
        <4> QED
          BY <3>3, <3>4, <3>5, <3>6, <4>1
      <3>7. CASE z # o
        BY <3>5, <3>7 DEF PoInv, PoRowsOK
      <3> QED
        BY <3>6, <3>7
    <2>4. \/ po' = po
          \/ \E z \in Orders : \E by, status, mode, total : Insert(z, by, status, mode, total)
          \/ \E s \in PoSessions : CommitOrder(s)
      BY DEF PoNext, CreateOrder, CreateProcessingOrder, CreatePoWithMode, ProcessVmiReplenishment,
             ProcessCentralizedOrder, Load, RollbackOrder
    <2> QED
      BY <2>1, <2>2, <2>3, <2>4
  <1> QED
    BY <1>1, PoInitially, PoStep, PTL DEF PoSpec, ApprovedAmountFrozen

-----------------------------------------------------------------------------
(* Sales orders *)

SoRow == [status : OrderStatuses, total : Nat, parent : SalesOrderIds \cup {"none"}]

\* What a request may be about to flush: another status of orders that are not
\* final, and new orders; one more item; the merge of an order into another.
SoMoves(r) ==
    /\ r.moved = Nothing /\ r.added = Nothing /\ DOMAIN r.set = DOMAIN r.read
    /\ \A x \in DOMAIN r.set : \E u \in OrderStatuses \ Final, t \in OrderStatuses \ {"merged"} :
          r.read[x] = [status |-> u] /\ r.set[x] = [status |-> t]

SoGains(r) ==
    \E x \in SalesOrderIds, i \in Items, u \in OpenForChange, n \in Nat, S \in SUBSET Items :
        /\ r.read = At(x, [status |-> u, total |-> n, items |-> S])
        /\ r.set = At(x, [total |-> n + 1])
        /\ r.moved = Nothing /\ r.added = At(i, x) /\ r.new = Nothing

SoMergesInto(r, x, p, u, v, q, S) ==
    /\ DOMAIN r.read = {x, p}
    /\ DOMAIN r.read[x] = {"status", "parent", "items"} /\ r.read[x].status = v
    /\ r.read[p] = [status |-> u, parent |-> q, items |-> S]
    /\ r.set = At(p, [status |-> "merged", parent |-> x])
    /\ r.moved = [i \in S |-> x] /\ r.added = Nothing /\ r.new = Nothing

SoMerges(r) ==
    \E x, p \in SalesOrderIds, u, v \in OpenForChange, q \in SalesOrderIds \cup {"none"},
       S \in SUBSET Items : SoMergesInto(r, x, p, u, v, q, S)

\* The orders a request read are there.
OmsRequestOK(r) ==
    /\ DOMAIN r.read \subseteq SalesOrderIds /\ \A x \in DOMAIN r.read : so[x] # NoSalesOrder
    /\ DOMAIN r.new \subseteq SalesOrderIds /\ \A x \in DOMAIN r.new : r.new[x] \in Nat
    /\ (SoMoves(r) \/ SoGains(r) \/ SoMerges(r))

OmsInv ==
    /\ OmsTypeOK
    /\ DOMAIN omsRequest = OmsSessions /\ omsRequest = [s \in OmsSessions |-> omsRequest[s]]
    /\ \A s \in OmsSessions : omsRequest[s] # NoOmsRequest => OmsRequestOK(omsRequest[s])
    /\ TotalIsBooked /\ MergedIsEmpty

SoFresh(r, x) == \A c \in DOMAIN r.read[x] : r.read[x][c] = Seen(x)[c]

\* The columns the services see of a row that is there.
LEMMA SeenColumns ==
    ASSUME NEW x, so[x] \in SoRow
    PROVE  /\ Seen(x)["status"] = so[x].status /\ Seen(x)["total"] = so[x].total
           /\ Seen(x)["parent"] = so[x].parent /\ Seen(x)["items"] = ItemsOf(x)
  BY DEF Seen, SoRow

LEMMA OpenStatuses ==
    /\ OpenForChange \subseteq OrderStatuses \ Final
    /\ {"processing", "cancelled", "shipped", "pending"} \subseteq OrderStatuses \ {"merged"}
    /\ {"pending", "confirmed", "processing"} \subseteq OrderStatuses \ Final
    /\ "merged" \in OrderStatuses /\ "none" \notin OrderStatuses /\ "pending" \notin Final
  BY DEF OpenForChange, OrderStatuses, Final, OrderTransitions

LEMMA OrderMovesOn ==
    ASSUME NEW u \in DOMAIN OrderTransitions, NEW t \in OrderTransitions[u]
    PROVE  u \in OrderStatuses \ Final /\ t \in OrderStatuses \ {"merged"}
  BY DEF OrderStatuses, Final, OrderTransitions

LEMMA OneMove ==
    ASSUME NEW o \in SalesOrderIds, so[o] \in SoRow, so[o].status \in OrderStatuses \ Final,
           NEW t \in OrderStatuses \ {"merged"}, NEW new,
           DOMAIN new \subseteq SalesOrderIds, \A x \in DOMAIN new : new[x] \in Nat,
           NEW r, r = Request(At(o, Looked(o, {"status"})), At(o, [status |-> t]),
                              Nothing, Nothing, new)
    PROVE  OmsRequestOK(r)
  <1>1. Looked(o, {"status"}) = [status |-> so[o].status]
    BY SeenColumns DEF Looked
  <1>2. /\ r.read = At(o, [status |-> so[o].status]) /\ r.set = At(o, [status |-> t])
        /\ r.moved = Nothing /\ r.added = Nothing /\ r.new = new
    BY <1>1 DEF Request
  <1>3. SoMoves(r)
    BY <1>2 DEF SoMoves, At
  <1>4. so[o] # NoSalesOrder
    BY OpenStatuses DEF NoSalesOrder
  <1> QED
    BY <1>2, <1>3, <1>4 DEF OmsRequestOK, At

LEMMA OrderHandlers ==
    ASSUME OmsTypeOK, NEW o \in SalesOrderIds, so[o] \in SoRow, NEW r \in OrderHandled(o)
    PROVE  OmsRequestOK(r)
  <1>0. DOMAIN Nothing = {}
    BY DEF Nothing
  <1>1. CASE r \in UpdateOrderStatus(o)
    <2>1. PICK t \in OrderStatuses :
             /\ so[o].status \in DOMAIN OrderTransitions /\ t \in OrderTransitions[so[o].status]
             /\ r = Request(At(o, Looked(o, {"status"})), At(o, [status |-> t]),
                            Nothing, Nothing, Nothing)
      BY <1>1 DEF UpdateOrderStatus
    <2> QED
      BY <1>0, <2>1, OrderMovesOn, OneMove
  <1>2. CASE r \in AddOrderItem(o)
    <2>1. PICK i \in Items :
             /\ so[o].status \in OpenForChange
             /\ r = Request(At(o, Looked(o, {"status", "total", "items"})),
                            At(o, [total |-> so[o].total + 1]), Nothing, At(i, o), Nothing)
      BY <1>2 DEF AddOrderItem
    <2>2. Looked(o, {"status", "total", "items"})
             = [status |-> so[o].status, total |-> so[o].total, items |-> ItemsOf(o)]
      BY SeenColumns DEF Looked
    <2>3. PICK u \in OpenForChange, n \in Nat, S \in SUBSET Items :
             u = so[o].status /\ n = so[o].total /\ S = ItemsOf(o)
      BY <2>1 DEF SoRow, ItemsOf
    <2>4. /\ r.read = At(o, [status |-> u, total |-> n, items |-> S]) /\ r.set = At(o, [total |-> n + 1])
          /\ r.moved = Nothing /\ r.added = At(i, o) /\ r.new = Nothing
      BY <2>1, <2>2, <2>3 DEF Request
    <2>5. SoGains(r)
      BY <2>4 DEF SoGains
    <2>6. so[o] # NoSalesOrder
      BY OpenStatuses, <2>1 DEF NoSalesOrder
    <2> QED
      BY <1>0, <2>4, <2>5, <2>6 DEF OmsRequestOK, At
  <1>3. CASE r \in SplitOrder(o)
    <2>1. PICK S \in SUBSET SalesOrderIds : \E new \in [S -> 0..MaxOpening] :
             /\ so[o].status \in OpenForChange
             /\ r = Request(At(o, Looked(o, {"status"})), At(o, [status |-> "cancelled"]),
                            Nothing, Nothing, new)
      BY <1>3 DEF SplitOrder
    <2>2. PICK new \in [S -> 0..MaxOpening] :
             /\ so[o].status \in OpenForChange
             /\ r = Request(At(o, Looked(o, {"status"})), At(o, [status |-> "cancelled"]),
                            Nothing, Nothing, new)
      BY <2>1
    <2>3. DOMAIN new \subseteq SalesOrderIds /\ \A x \in DOMAIN new : new[x] \in Nat
      BY <2>1, OmsAssumption
    <2> QED
      BY <2>2, <2>3, OpenStatuses, OneMove
  <1>4. CASE r \in MergeOrders(o)
    <2>1. PICK p \in SalesOrderIds \ {o}, m \in SalesOrderIds :
             /\ so[p].status \in {"pending", "confirmed", "processing"}
             /\ so[o].status \in {"pending", "confirmed", "processing"}
             /\ r = Request([x \in {o, p} |-> Looked(x, {"status"})],
                            [x \in {o, p} |-> [status |-> "cancelled"]],
                            Nothing, Nothing, At(m, 0))
      <3>1. PICK p \in {x \in SalesOrderIds \ {o} :
                         /\ so[x].status \in {"pending", "confirmed", "processing"}
                         /\ so[o].status \in {"pending", "confirmed", "processing"}},
                 m \in {x \in SalesOrderIds : ~Exists(x)} :
               r = Combining(o, p, m)
        BY <1>4 DEF MergeOrders
      <3> QED
        BY <3>1 DEF Combining
    <2>2. so[p] \in SoRow
      BY <2>1 DEF OmsTypeOK, SoRow, NoSalesOrder
    <2>3. /\ r.read = [x \in {o, p} |-> Looked(x, {"status"})]
          /\ r.set = [x \in {o, p} |-> [status |-> "cancelled"]]
          /\ r.moved = Nothing /\ r.added = Nothing /\ r.new = At(m, 0)
      BY <2>1 DEF Request
    <2>4. \A x \in {o, p} : /\ Looked(x, {"status"}) = [status |-> so[x].status]
                            /\ so[x].status \in OrderStatuses \ Final /\ so[x] # NoSalesOrder
      <3>1. ASSUME NEW x \in {o, p}
            PROVE  /\ Looked(x, {"status"}) = [status |-> so[x].status]
                   /\ so[x].status \in OrderStatuses \ Final /\ so[x] # NoSalesOrder
        <4>1. so[x] \in SoRow /\ so[x].status \in {"pending", "confirmed", "processing"}
          BY <2>1, <2>2
        <4>2. so[x].status \in OrderStatuses \ Final /\ so[x] # NoSalesOrder
          BY <4>1, OpenStatuses DEF NoSalesOrder
        <4> QED
          BY <4>1, <4>2, SeenColumns DEF Looked
      <3> QED
        BY <3>1
    <2>5. SoMoves(r)
      BY <2>3, <2>4, OpenStatuses DEF SoMoves
    <2> QED
      BY <2>1, <2>3, <2>4, <2>5 DEF OmsRequestOK, At
  <1>5. CASE r \in MergeInto(o)
    <2>1. PICK p \in SalesOrderIds :
             /\ so[o].status \in OpenForChange /\ so[p].status \in OpenForChange
             /\ r = Merging(o, p)
      BY <1>5 DEF MergeInto
    <2>2. so[p] \in SoRow /\ so[p] # NoSalesOrder /\ so[o] # NoSalesOrder
      BY <2>1, OpenStatuses DEF OmsTypeOK, SoRow, NoSalesOrder
    <2>3. /\ r.read = [x \in {o, p} |-> Looked(x, {"status", "parent", "items"})]
          /\ r.set = At(p, [status |-> "merged", parent |-> o])
          /\ r.moved = [i \in ItemsOf(p) |-> o] /\ r.added = Nothing /\ r.new = Nothing
      BY <2>1 DEF Merging, Request
    <2>4. PICK u \in OpenForChange, v \in OpenForChange, q \in SalesOrderIds \cup {"none"},
               S \in SUBSET Items :
             u = so[p].status /\ v = so[o].status /\ q = so[p].parent /\ S = ItemsOf(p)
      BY <2>1, <2>2 DEF SoRow, ItemsOf
    <2>5. r.read[p] = [status |-> u, parent |-> q, items |-> S]
      BY <2>2, <2>3, <2>4, SeenColumns DEF Looked
    <2>6. DOMAIN r.read = {o, p} /\ DOMAIN r.read[o] = {"status", "parent", "items"}
          /\ r.read[o].status = v
      BY <2>2, <2>3, <2>4, SeenColumns DEF Looked
    <2>7. SoMerges(r)
      <3>1. SoMergesInto(r, o, p, u, v, q, S)
        BY <2>3, <2>4, <2>5, <2>6 DEF SoMergesInto
      <3> QED
        BY <2>1, <3>1 DEF SoMerges
    <2> QED
      BY <1>0, <2>2, <2>3, <2>6, <2>7 DEF OmsRequestOK
  <1>6. CASE r \in OrchestrateShipment(o)
    <2>1. so[o].status \in {"confirmed", "processing"}
          /\ r = Request(At(o, Looked(o, {"status"})), At(o, [status |-> "shipped"]),
                         Nothing, Nothing, Nothing)
      BY <1>6 DEF OrchestrateShipment
    <2> QED
      BY <1>0, <2>1, OpenStatuses, OneMove
  <1>7. CASE r \in RejectOrder(o)
    <2>1. so[o].status \in OpenForChange
          /\ r = Request(At(o, Looked(o, {"status"})), At(o, [status |-> "cancelled"]),
                         Nothing, Nothing, Nothing)
      BY <1>7 DEF RejectOrder
    <2> QED
      BY <1>0, <2>1, OpenStatuses, OneMove
  <1> QED
    BY <1>1, <1>2, <1>3, <1>4, <1>5, <1>6, <1>7 DEF OrderHandled

\* How many items the commit of a request adds to an order: none or one.
Gain(r, o) == Cardinality({i \in DOMAIN r.added : r.added[i] = o})

LEMMA GainFacts ==
    ASSUME NEW r, OmsRequestOK(r), NEW o
    PROVE  Gain(r, o) \in {0, 1} /\ (o \notin DOMAIN r.set => Gain(r, o) = 0)
  <1>1. CASE r.added = Nothing
    <2>1. {i \in DOMAIN r.added : r.added[i] = o} = {}
      BY <1>1 DEF Nothing
    <2> QED
      BY <2>1, FS_EmptySet DEF Gain
  <1>2. CASE SoGains(r)
    <2>1. PICK x \in SalesOrderIds, i \in Items :
             r.added = At(i, x) /\ \E n \in Nat : r.set = At(x, [total |-> n + 1])
      BY <1>2 DEF SoGains
    <2>2. CASE o = x
      <3>1. {j \in DOMAIN r.added : r.added[j] = o} = {i} /\ o \in DOMAIN r.set
        BY <2>1, <2>2 DEF At
      <3> QED
        BY <3>1, FS_Singleton DEF Gain
    <2>3. CASE o # x
      <3>1. {j \in DOMAIN r.added : r.added[j] = o} = {}
        BY <2>1, <2>3 DEF At
      <3> QED
        BY <3>1, FS_EmptySet DEF Gain
    <2> QED
      BY <2>2, <2>3
  <1>3. SoMerges(r) => r.added = Nothing
    BY DEF SoMerges, SoMergesInto
  <1> QED
    BY <1>1, <1>2, <1>3 DEF OmsRequestOK, SoMoves

\* What a commit makes of the row of order x, which is as the request read it:
\* the item's amount and nothing else is added, a final status stays, and only
\* a merge leaves it merged.
OrderBecomes(r, x, y) ==
    /\ y.total = so[x].total + Gain(r, x)
    /\ so[x].status \notin Final \/ y.status = so[x].status
    /\ y.status = "merged" => SoMerges(r)

LEMMA OrderFlushed ==
    ASSUME NEW r, OmsRequestOK(r), NEW x \in DOMAIN r.set, so[x] \in SoRow,
           NEW y, y = Flushed(so[x], r.read[x], r.set[x])
    PROVE  y \in SoRow /\ (SoFresh(r, x) => OrderBecomes(r, x, y))
  <1>1. PICK a : a = so[x]
    OBVIOUS
  <1>2. /\ a = [c \in DOMAIN a |-> a[c]] /\ DOMAIN a = {"status", "total", "parent"}
        /\ a.status \in OrderStatuses /\ a.total \in Nat /\ a.parent \in SalesOrderIds \cup {"none"}
    BY <1>1 DEF SoRow
  <1>3. CASE SoMoves(r)
    <2>1. PICK u \in OrderStatuses \ Final, t \in OrderStatuses \ {"merged"} :
             r.read[x] = [status |-> u] /\ r.set[x] = [status |-> t]
      BY <1>3 DEF SoMoves
    <2>2. y = [a EXCEPT !.status = IF t # u THEN t ELSE @]
      BY <1>1, <1>2, <2>1 DEF Flushed
    <2>3. y \in SoRow /\ y.total = a.total /\ y.status = IF t # u THEN t ELSE a.status
      BY <1>2, <2>2 DEF SoRow
    <2>4. Gain(r, x) = 0
      <3>1. {i \in DOMAIN r.added : r.added[i] = x} = {}
        BY <1>3 DEF SoMoves, Nothing
      <3> QED
        BY <3>1, FS_EmptySet DEF Gain
    <2>5. SoFresh(r, x) => a.status = u
      BY <1>1, <2>1, SeenColumns DEF SoFresh
    <2>6. "merged" \in Final
      BY DEF Final
    <2>7. y.total = a.total + Gain(r, x)
      BY <1>2, <2>3, <2>4
    <2> QED
      BY <1>1, <2>1, <2>3, <2>5, <2>6, <2>7 DEF OrderBecomes
  <1>4. CASE SoGains(r)
    <2>1. PICK z \in SalesOrderIds, i \in Items, u \in OpenForChange, n \in Nat, S \in SUBSET Items :
             /\ r.read = At(z, [status |-> u, total |-> n, items |-> S])
             /\ r.set = At(z, [total |-> n + 1]) /\ r.added = At(i, z)
      BY <1>4 DEF SoGains
    <2>2. z = x /\ r.read[x] = [status |-> u, total |-> n, items |-> S]
          /\ r.set[x] = [total |-> n + 1]
      BY <2>1 DEF At
    <2>3. PICK k \in Nat : k = n + 1 /\ k # n
      OBVIOUS
    <2>4. y = [a EXCEPT !.total = k]
      BY <1>1, <1>2, <2>2, <2>3 DEF Flushed
    <2>5. y \in SoRow /\ y.total = k /\ y.status = a.status
      BY <1>2, <2>4 DEF SoRow
    <2>6. Gain(r, x) = 1
      <3>1. {j \in DOMAIN r.added : r.added[j] = x} = {i}
        BY <2>1, <2>2 DEF At
      <3> QED
        BY <3>1, FS_Singleton DEF Gain
    <2>7. SoFresh(r, x) => a.status = u /\ a.total = n
      BY <1>1, <2>2, SeenColumns DEF SoFresh
    <2>8. SoFresh(r, x) => y.total = a.total + Gain(r, x)
      BY <2>3, <2>5, <2>6, <2>7
    <2>9. SoFresh(r, x) => y.status # "merged"
      BY <2>5, <2>7, OpenStatuses DEF Final
    <2> QED
      BY <1>1, <2>5, <2>8, <2>9 DEF OrderBecomes
  <1>5. CASE SoMerges(r)
    <2>1. PICK z \in SalesOrderIds, p \in SalesOrderIds, u \in OpenForChange, v \in OpenForChange,
               q \in SalesOrderIds \cup {"none"}, S \in SUBSET Items :
             SoMergesInto(r, z, p, u, v, q, S)
      BY <1>5 DEF SoMerges
    <2>2. p = x /\ r.read[x] = [status |-> u, parent |-> q, items |-> S]
          /\ r.set[x] = [status |-> "merged", parent |-> z] /\ r.added = Nothing
      BY <2>1 DEF SoMergesInto, At
    <2>3. y = [status |-> IF "merged" # u THEN "merged" ELSE a.status, total |-> a.total,
               parent |-> IF z # q THEN z ELSE a.parent]
      BY <1>1, <1>2, <2>2 DEF Flushed
    <2>4. y \in SoRow /\ y.total = a.total
      BY <1>2, <2>3, OpenStatuses DEF SoRow
    <2>5. Gain(r, x) = 0
      <3>1. {i \in DOMAIN r.added : r.added[i] = x} = {}
        BY <2>2 DEF Nothing
      <3> QED
        BY <3>1, FS_EmptySet DEF Gain
    <2>6. SoFresh(r, x) => a.status = u
      BY <1>1, <2>2, SeenColumns DEF SoFresh
    <2>7. y.total = a.total + Gain(r, x)
      BY <1>2, <2>4, <2>5
    <2> QED
      BY <1>1, <1>5, <2>4, <2>6, <2>7, OpenStatuses DEF OrderBecomes
  <1> QED
    BY <1>3, <1>4, <1>5 DEF OmsRequestOK

\* What the commit of request r does.
OmsCommits(r) ==
    /\ OmsRequestOK(r)
    /\ \A o \in DOMAIN r.new : so[o] = NoSalesOrder
    /\ \A o \in DOMAIN r.set : so[o] \in SoRow /\ o \in DOMAIN r.read
    /\ so' = [o \in SalesOrderIds |->
                 IF o \in DOMAIN r.new THEN NewOrder(r.new[o])
                 ELSE IF o \in DOMAIN r.set THEN Flushed(so[o], r.read[o], r.set[o])
                 ELSE so[o]]
    /\ item' = [i \in Items |-> IF i \in DOMAIN r.added THEN r.added[i]
                                ELSE IF i \in DOMAIN r.moved THEN r.moved[i] ELSE item[i]]
    /\ booked' = [o \in SalesOrderIds |->
                    IF o \in DOMAIN r.new THEN r.new[o] ELSE booked[o] + Gain(r, o)]
    /\ omsStale \subseteq omsStale' /\ omsStale' \subseteq SalesOrderIds
    /\ \A o \in DOMAIN r.read \ omsStale' : SoFresh(r, o)

LEMMA OmsCommitFacts ==
    ASSUME OmsInv, NEW s \in OmsSessions, CommitOrders(s), NEW r, r = omsRequest[s]
    PROVE  OmsCommits(r) /\ omsRequest' = [omsRequest EXCEPT ![s] = NoOmsRequest]
  <1>1. /\ r # NoOmsRequest
        /\ \A o \in DOMAIN r.new : ~Exists(o)
        /\ so' = [o \in SalesOrderIds |->
                    IF o \in DOMAIN r.new THEN NewOrder(r.new[o])
                    ELSE IF o \in DOMAIN r.set THEN Flushed(so[o], r.read[o], r.set[o])
                    ELSE so[o]]
        /\ item' = [i \in Items |-> IF i \in DOMAIN r.added THEN r.added[i]
                                    ELSE IF i \in DOMAIN r.moved THEN r.moved[i] ELSE item[i]]
        /\ booked' = [o \in SalesOrderIds |->
                       IF o \in DOMAIN r.new THEN r.new[o] ELSE booked[o] + Gain(r, o)]
        /\ omsStale' = omsStale \cup {o \in DOMAIN r.read :
                          \E c \in DOMAIN r.read[o] : r.read[o][c] # Seen(o)[c]}
        /\ omsRequest' = [omsRequest EXCEPT ![s] = NoOmsRequest]
    BY DEF CommitOrders, Gain
  <1>2. OmsRequestOK(r)
    BY <1>1 DEF OmsInv
  <1>3. DOMAIN r.set \subseteq DOMAIN r.read
    <2>1. SoMoves(r) => DOMAIN r.set \subseteq DOMAIN r.read
      BY DEF SoMoves
    <2>2. SoGains(r) => DOMAIN r.set \subseteq DOMAIN r.read
      BY DEF SoGains, At
    <2>3. SoMerges(r) => DOMAIN r.set \subseteq DOMAIN r.read
      BY DEF SoMerges, SoMergesInto, At
    <2> QED
      BY <1>2, <2>1, <2>2, <2>3 DEF OmsRequestOK
  <1>4. \A o \in DOMAIN r.read : so[o] \in SoRow /\ o \in SalesOrderIds
    BY <1>2 DEF OmsRequestOK, OmsInv, OmsTypeOK, SoRow
  <1>5. \A o \in DOMAIN r.read \ omsStale' : SoFresh(r, o)
    BY <1>1 DEF SoFresh
  <1>6. omsStale' \subseteq SalesOrderIds
    BY <1>1, <1>4 DEF OmsInv, OmsTypeOK
  <1> QED
    BY <1>1, <1>2, <1>3, <1>4, <1>5, <1>6 DEF OmsCommits, Exists

LEMMA OmsInitially == OmsInit => OmsInv
  <1>1. OmsInit => OmsTypeOK
    BY DEF OmsInit, OmsTypeOK
  <1>2. OmsInit => TotalIsBooked /\ MergedIsEmpty
    BY DEF OmsInit, TotalIsBooked, MergedIsEmpty, NoSalesOrder
  <1> QED
    BY <1>1, <1>2 DEF OmsInit, OmsInv

\* Orders never disappear, so what a request read is still there.
LEMMA OmsInFlight ==
    ASSUME OmsInv, NEW z \in OmsSessions, NEW v,
           omsRequest' = [omsRequest EXCEPT ![z] = v], v # NoOmsRequest => OmsRequestOK(v),
           \A o \in SalesOrderIds : so[o] # NoSalesOrder => so'[o] # NoSalesOrder
    PROVE  /\ DOMAIN omsRequest' = OmsSessions /\ omsRequest' = [s \in OmsSessions |-> omsRequest'[s]]
           /\ \A s \in OmsSessions : omsRequest'[s] # NoOmsRequest => OmsRequestOK(omsRequest[s])'
  <1>1. /\ DOMAIN omsRequest' = OmsSessions /\ omsRequest' = [s \in OmsSessions |-> omsRequest'[s]]
        /\ \A s \in OmsSessions : omsRequest'[s] = IF s = z THEN v ELSE omsRequest[s]
    BY DEF OmsInv
  <1>2. SUFFICES ASSUME NEW s \in OmsSessions, omsRequest'[s] # NoOmsRequest
                 PROVE  OmsRequestOK(omsRequest[s])'
    BY <1>1
  <1>3. PICK r : r = omsRequest'[s]
    OBVIOUS
  <1>4. OmsRequestOK(r)
    BY <1>1, <1>2, <1>3 DEF OmsInv
  <1>5. /\ DOMAIN r.read \subseteq SalesOrderIds /\ \A x \in DOMAIN r.read : so'[x] # NoSalesOrder
        /\ DOMAIN r.new \subseteq SalesOrderIds /\ \A x \in DOMAIN r.new : r.new[x] \in Nat
        /\ (SoMoves(r) \/ SoGains(r) \/ SoMerges(r))
    BY <1>4 DEF OmsRequestOK
  <1>6. SoMoves(r) => SoMoves(omsRequest[s])'
    BY <1>3 DEF SoMoves
  <1>7. SoGains(r) => SoGains(omsRequest[s])'
    BY <1>3 DEF SoGains
  <1>8. ASSUME SoMerges(r) PROVE SoMerges(omsRequest[s])'
    <2>1. PICK x \in SalesOrderIds, p \in SalesOrderIds, u \in OpenForChange, w \in OpenForChange,
               q \in SalesOrderIds \cup {"none"}, S \in SUBSET Items :
             SoMergesInto(r, x, p, u, w, q, S)
      BY <1>8 DEF SoMerges
    <2>2. SoMergesInto(omsRequest[s], x, p, u, w, q, S)'
      BY <1>3, <2>1 DEF SoMergesInto
    <2> QED
      BY <2>2 DEF SoMerges
  <1> QED
    BY <1>3, <1>5, <1>6, <1>7, <1>8 DEF OmsRequestOK

\* The rows of the orders after a commit.
LEMMA OrdersAfter ==
    ASSUME OmsInv, NEW r, OmsCommits(r), NEW o \in SalesOrderIds, NEW a, a = so[o], NEW y, y = so'[o]
    PROVE  \/ /\ o \in DOMAIN r.new /\ a = NoSalesOrder /\ o \notin DOMAIN r.set
              /\ y \in SoRow /\ y.status = "pending" /\ y.total = r.new[o] /\ r.new[o] \in Nat
           \/ /\ o \notin DOMAIN r.new /\ o \in DOMAIN r.set /\ a \in SoRow /\ y \in SoRow
              /\ o \notin omsStale' => OrderBecomes(r, o, y)
           \/ o \notin DOMAIN r.new /\ o \notin DOMAIN r.set /\ y = a
  <1>1. CASE o \in DOMAIN r.new
    <2>1. a = NoSalesOrder /\ y = NewOrder(r.new[o]) /\ r.new[o] \in Nat
      BY <1>1 DEF OmsCommits, OmsRequestOK
    <2>2. y \in SoRow /\ y.status = "pending" /\ y.total = r.new[o]
      BY <2>1, OpenStatuses DEF NewOrder, SoRow
    <2>3. o \notin DOMAIN r.set
      <3>1. NoSalesOrder \notin SoRow
        BY OpenStatuses DEF NoSalesOrder, SoRow
      <3> QED
        BY <2>1, <3>1 DEF OmsCommits
    <2> QED
      BY <1>1, <2>1, <2>2, <2>3
  <1>2. CASE o \notin DOMAIN r.new /\ o \in DOMAIN r.set
    <2>1. a \in SoRow /\ o \in DOMAIN r.read /\ y = Flushed(so[o], r.read[o], r.set[o])
      BY <1>2 DEF OmsCommits
    <2>2. y \in SoRow /\ (SoFresh(r, o) => OrderBecomes(r, o, y))
      BY <1>2, <2>1, OrderFlushed DEF OmsCommits
    <2>3. o \notin omsStale' => SoFresh(r, o)
      BY <2>1 DEF OmsCommits
    <2> QED
      BY <1>2, <2>1, <2>2, <2>3
  <1>3. CASE o \notin DOMAIN r.new /\ o \notin DOMAIN r.set
    BY <1>3 DEF OmsCommits
  <1> QED
    BY <1>1, <1>2, <1>3

LEMMA OmsCommitStep ==
    ASSUME OmsInv, NEW s \in OmsSessions, CommitOrders(s)
    PROVE  OmsInv'
  <1>1. PICK r : r = omsRequest[s]
    OBVIOUS
  <1>2. OmsCommits(r) /\ omsRequest' = [omsRequest EXCEPT ![s] = NoOmsRequest]
    BY <1>1, OmsCommitFacts
  <1>3. OmsRequestOK(r)
    BY <1>2 DEF OmsCommits
  <1>4. NoSalesOrder \notin SoRow
    BY OpenStatuses DEF NoSalesOrder, SoRow
  <1>5. \A o \in SalesOrderIds : so[o] \in SoRow \cup {NoSalesOrder} /\ booked[o] \in Nat
    BY DEF OmsInv, OmsTypeOK, SoRow
  <1>6. ASSUME NEW o \in SalesOrderIds
        PROVE  /\ so'[o] \in SoRow \cup {NoSalesOrder} /\ (so[o] # NoSalesOrder => so'[o] # NoSalesOrder)
               /\ booked'[o] \in Nat
               /\ o \notin omsStale' => so'[o].total = booked'[o]
    <2>1. PICK a, y : a = so[o] /\ y = so'[o]
      OBVIOUS
    <2>2. PICK g : g = Gain(r, o)
      OBVIOUS
    <2>3. g \in Nat /\ (o \notin DOMAIN r.set => g = 0)
      BY <1>3, <2>2, GainFacts
    <2>4. booked'[o] = IF o \in DOMAIN r.new THEN r.new[o] ELSE booked[o] + g
      BY <1>2, <2>2 DEF OmsCommits
    <2>5. o \notin omsStale' => a.total = booked[o]
      BY <1>2, <2>1 DEF OmsCommits, OmsInv, TotalIsBooked
    <2>6. \/ /\ o \in DOMAIN r.new /\ a = NoSalesOrder /\ o \notin DOMAIN r.set
             /\ y \in SoRow /\ y.status = "pending" /\ y.total = r.new[o] /\ r.new[o] \in Nat
          \/ /\ o \notin DOMAIN r.new /\ o \in DOMAIN r.set /\ a \in SoRow /\ y \in SoRow
             /\ o \notin omsStale' => OrderBecomes(r, o, y)
          \/ o \notin DOMAIN r.new /\ o \notin DOMAIN r.set /\ y = a
      BY <1>2, <2>1, OrdersAfter
    <2>7. OrderBecomes(r, o, y) => y.total = a.total + g
      BY <2>1, <2>2 DEF OrderBecomes
    <2>8. y \in SoRow \cup {NoSalesOrder} /\ (a # NoSalesOrder => y # NoSalesOrder)
      BY <1>4, <1>5, <2>1, <2>6
    <2>9. booked'[o] \in Nat
      BY <1>5, <2>3, <2>4, <2>6
    <2>10. o \notin omsStale' => y.total = booked'[o]
      BY <1>5, <2>3, <2>4, <2>5, <2>6, <2>7
    <2> QED
      BY <2>1, <2>8, <2>9, <2>10
  <1>7. item' \in [Items -> SalesOrderIds \cup {"none"}]
    <2>1. ASSUME NEW i \in Items PROVE item'[i] \in SalesOrderIds \cup {"none"}
      <3>1. item[i] \in SalesOrderIds \cup {"none"}
        BY DEF OmsInv, OmsTypeOK
      <3>2. i \in DOMAIN r.added => r.added[i] \in SalesOrderIds
        <4>1. SoMoves(r) => i \notin DOMAIN r.added
          BY DEF SoMoves, Nothing
        <4>2. SoGains(r) => (i \in DOMAIN r.added => r.added[i] \in SalesOrderIds)
          BY DEF SoGains, At
        <4>3. SoMerges(r) => i \notin DOMAIN r.added
          BY DEF SoMerges, SoMergesInto, Nothing
        <4> QED
          BY <1>3, <4>1, <4>2, <4>3 DEF OmsRequestOK
      <3>3. i \in DOMAIN r.moved => r.moved[i] \in SalesOrderIds
        <4>1. SoMoves(r) => i \notin DOMAIN r.moved
          BY DEF SoMoves, Nothing
        <4>2. SoGains(r) => i \notin DOMAIN r.moved
          BY DEF SoGains, Nothing
        <4>3. SoMerges(r) => (i \in DOMAIN r.moved => r.moved[i] \in SalesOrderIds)
          BY DEF SoMerges, SoMergesInto
        <4> QED
          BY <1>3, <4>1, <4>2, <4>3 DEF OmsRequestOK
      <3> QED
        BY <1>2, <3>1, <3>2, <3>3 DEF OmsCommits
    <2> QED
      BY <1>2, <2>1 DEF OmsCommits
  <1>8. OmsTypeOK'
    <2>1. so' \in [SalesOrderIds -> SoRow \cup {NoSalesOrder}] /\ booked' \in [SalesOrderIds -> Nat]
      BY <1>2, <1>6 DEF OmsCommits
    <2>2. omsStale' \subseteq SalesOrderIds
      BY <1>2 DEF OmsCommits
    <2> QED
      BY <1>7, <2>1, <2>2 DEF OmsTypeOK, SoRow
  <1>9. TotalIsBooked'
    BY <1>6 DEF TotalIsBooked
  <1>10. MergedIsEmpty'
    <2> SUFFICES ASSUME NEW o \in SalesOrderIds, o \notin omsStale',
                        so'[o].status = "merged", so'[o].parent # o,
                        NEW i \in Items, item'[i] = o
                 PROVE  FALSE
      BY DEF MergedIsEmpty, ItemsOf
    <2>1. PICK a, y : a = so[o] /\ y = so'[o]
      OBVIOUS
    <2>2. \/ y.status = "pending"
          \/ o \in DOMAIN r.set /\ OrderBecomes(r, o, y)
          \/ o \notin DOMAIN r.set /\ o \notin DOMAIN r.new /\ y = a
      BY <1>2, <2>1, OrdersAfter
    <2>3. o \notin omsStale
      BY <1>2 DEF OmsCommits
    <2>4. CASE o \in DOMAIN r.set /\ OrderBecomes(r, o, y)
      <3>1. PICK z \in SalesOrderIds, p \in SalesOrderIds, u \in OpenForChange, v \in OpenForChange,
                 q \in SalesOrderIds \cup {"none"}, S \in SUBSET Items :
               SoMergesInto(r, z, p, u, v, q, S)
        BY <2>1, <2>4 DEF OrderBecomes, SoMerges
      <3>2. /\ p = o /\ o \in DOMAIN r.read /\ r.set[o] = [status |-> "merged", parent |-> z]
            /\ r.read[o] = [status |-> u, parent |-> q, items |-> S]
            /\ r.moved = [j \in S |-> z] /\ DOMAIN r.added = {}
        BY <2>4, <3>1 DEF SoMergesInto, At, Nothing
      <3>3. SoFresh(r, o) /\ so[o] \in SoRow
        BY <1>2, <2>4, <3>2 DEF OmsCommits
      <3>4. a.parent = q /\ ItemsOf(o) = S
        BY <2>1, <3>2, <3>3, SeenColumns DEF SoFresh
      <3>5. y.parent = z
        <4>1. o \notin DOMAIN r.new
          BY <1>2, <1>4, <2>4 DEF OmsCommits
        <4>2. y = Flushed(a, r.read[o], r.set[o])
          BY <1>2, <2>1, <2>4, <4>1 DEF OmsCommits
        <4>3. y.parent = IF z # q THEN z ELSE a.parent
          BY <2>1, <3>2, <3>3, <4>2 DEF Flushed, SoRow
        <4> QED
          BY <3>4, <4>3
      <3>6. item'[i] = IF i \in S THEN z ELSE item[i]
        BY <1>2, <3>2 DEF OmsCommits
      <3> QED
        BY <2>1, <3>4, <3>5, <3>6 DEF ItemsOf
    <2>5. CASE o \notin DOMAIN r.set /\ o \notin DOMAIN r.new /\ y = a
      <3>1. item[i] # o
        BY <2>1, <2>3, <2>5 DEF OmsInv, MergedIsEmpty, ItemsOf
      <3>2. i \notin DOMAIN r.added \/ r.added[i] # o
        <4>1. SoMoves(r) => i \notin DOMAIN r.added
          BY DEF SoMoves, Nothing
        <4>2. SoGains(r) => (i \in DOMAIN r.added => r.added[i] \in DOMAIN r.set)
          BY DEF SoGains, At
        <4>3. SoMerges(r) => i \notin DOMAIN r.added
          BY DEF SoMerges, SoMergesInto, Nothing
        <4> QED
          BY <1>3, <2>5, <4>1, <4>2, <4>3 DEF OmsRequestOK
      <3>3. i \in DOMAIN r.moved /\ r.moved[i] = o
        BY <1>2, <3>1, <3>2 DEF OmsCommits
      <3>4. SoMerges(r)
        BY <1>3, <3>3 DEF OmsRequestOK, SoMoves, SoGains, Nothing
      <3>5. PICK z \in SalesOrderIds, p \in SalesOrderIds, u \in OpenForChange, v \in OpenForChange,
                 q \in SalesOrderIds \cup {"none"}, S \in SUBSET Items :
               SoMergesInto(r, z, p, u, v, q, S)
        BY <3>4 DEF SoMerges
      <3>6. z = o /\ o \in DOMAIN r.read /\ r.read[o].status = v /\ "status" \in DOMAIN r.read[o]
        BY <3>3, <3>5 DEF SoMergesInto
      <3>7. SoFresh(r, o) /\ so[o] \in SoRow
        <4>1. so[o] # NoSalesOrder
          BY <1>3, <3>6 DEF OmsRequestOK
        <4> QED
          BY <1>2, <1>5, <3>6, <4>1 DEF OmsCommits
      <3>8. a.status = v
        BY <2>1, <3>6, <3>7, SeenColumns DEF SoFresh
      <3> QED
        BY <2>1, <2>5, <3>8, OpenStatuses DEF Final
    <2> QED
      BY <2>1, <2>2, <2>4, <2>5
  <1>11. /\ DOMAIN omsRequest' = OmsSessions /\ omsRequest' = [t \in OmsSessions |-> omsRequest'[t]]
         /\ \A t \in OmsSessions : omsRequest'[t] # NoOmsRequest => OmsRequestOK(omsRequest[t])'
    BY <1>2, <1>6, OmsInFlight
  <1> QED
    BY <1>8, <1>9, <1>10, <1>11 DEF OmsInv

LEMMA OmsStep == OmsInv /\ [OmsNext]_omsVars => OmsInv'
  <1> SUFFICES ASSUME OmsInv, [OmsNext]_omsVars PROVE OmsInv'
    OBVIOUS
  <1>1. ASSUME NEW z \in OmsSessions, NEW v, v # NoOmsRequest => OmsRequestOK(v),
               omsRequest' = [omsRequest EXCEPT ![z] = v], UNCHANGED <<so, item, booked, omsStale>>
        PROVE  OmsInv'
    <2>1. /\ DOMAIN omsRequest' = OmsSessions /\ omsRequest' = [s \in OmsSessions |-> omsRequest'[s]]
          /\ \A s \in OmsSessions : omsRequest'[s] # NoOmsRequest => OmsRequestOK(omsRequest[s])'
      BY <1>1, OmsInFlight
    <2>2. OmsTypeOK' /\ TotalIsBooked' /\ MergedIsEmpty'
      BY <1>1 DEF OmsInv, OmsTypeOK, TotalIsBooked, MergedIsEmpty, ItemsOf
    <2> QED
      BY <2>1, <2>2 DEF OmsInv
  <1>2. ASSUME NEW o \in SalesOrderIds, NEW n \in Nat, ~Exists(o),
               so' = [so EXCEPT ![o] = NewOrder(n)],
               booked' = [booked EXCEPT ![o] = n] \/ (booked' = booked /\ n = 0),
               UNCHANGED <<item, omsRequest, omsStale>>
        PROVE  OmsInv'
    <2>1. PICK y : y = NewOrder(n)
      OBVIOUS
    <2>2. y \in SoRow /\ y.total = n /\ y.status = "pending" /\ y # NoSalesOrder
      BY <2>1, OpenStatuses DEF NewOrder, SoRow, NoSalesOrder
    <2>3. /\ so' \in [SalesOrderIds -> SoRow \cup {NoSalesOrder}] /\ so'[o] = y
          /\ \A p \in SalesOrderIds : p # o => so'[p] = so[p]
      BY <1>2, <2>1, <2>2 DEF OmsInv, OmsTypeOK, SoRow
    <2>4. /\ booked' \in [SalesOrderIds -> Nat]
          /\ \A p \in SalesOrderIds : p # o => booked'[p] = booked[p]
          /\ o \notin omsStale => booked'[o] = n
      <3>1. o \notin omsStale => booked[o] = 0
        BY <1>2 DEF OmsInv, TotalIsBooked, Exists, NoSalesOrder
      <3> QED
        BY <1>2, <3>1 DEF OmsInv, OmsTypeOK
    <2>5. OmsTypeOK'
      BY <1>2, <2>3, <2>4 DEF OmsInv, OmsTypeOK, SoRow
    <2>6. TotalIsBooked'
      BY <1>2, <2>2, <2>3, <2>4 DEF OmsInv, TotalIsBooked
    <2>7. MergedIsEmpty'
      BY <1>2, <2>2, <2>3 DEF OmsInv, MergedIsEmpty, ItemsOf
    <2>8. \A s \in OmsSessions : omsRequest'[s] # NoOmsRequest => OmsRequestOK(omsRequest[s])'
      <3> SUFFICES ASSUME NEW s \in OmsSessions, omsRequest'[s] # NoOmsRequest
                   PROVE  OmsRequestOK(omsRequest[s])'
        OBVIOUS
      <3>1. omsRequest' = [omsRequest EXCEPT ![s] = omsRequest[s]]
        BY <1>2 DEF OmsInv
      <3>2. omsRequest[s] # NoOmsRequest => OmsRequestOK(omsRequest[s])
        BY DEF OmsInv
      <3>3. \A p \in SalesOrderIds : so[p] # NoSalesOrder => so'[p] # NoSalesOrder
        BY <2>2, <2>3
      <3> QED
        BY <3>1, <3>2, <3>3, OmsInFlight
    <2> QED
      BY <1>2, <2>5, <2>6, <2>7, <2>8 DEF OmsInv
  <1>3. ASSUME NEW o \in SalesOrderIds, CreateSalesOrder(o) PROVE OmsInv'
    <2>1. PICK n \in 0..MaxOpening : so' = [so EXCEPT ![o] = NewOrder(n)]
                                     /\ booked' = [booked EXCEPT ![o] = n]
      BY <1>3 DEF CreateSalesOrder
    <2>2. n \in Nat
      BY OmsAssumption
    <2> QED
      BY <1>2, <1>3, <2>1, <2>2 DEF CreateSalesOrder
  <1>4. ASSUME NEW o \in SalesOrderIds, SyncFromPlatform(o) PROVE OmsInv'
    BY <1>2, <1>4 DEF SyncFromPlatform
  <1>5. ASSUME NEW s \in OmsSessions, NEW o \in SalesOrderIds, LoadOrders(s, o) PROVE OmsInv'
    <2>1. PICK r \in OrderHandled(o) : omsRequest' = [omsRequest EXCEPT ![s] = r]
      BY <1>5 DEF LoadOrders
    <2>2. so[o] \in SoRow
      BY <1>5 DEF LoadOrders, Exists, OmsInv, OmsTypeOK, SoRow
    <2>3. OmsRequestOK(r)
      BY <2>2, OrderHandlers DEF OmsInv
    <2> QED
      BY <1>1, <1>5, <2>1, <2>3 DEF LoadOrders
  <1>6. ASSUME NEW s \in OmsSessions, CommitOrders(s) PROVE OmsInv'
    BY <1>6, OmsCommitStep
  <1>7. ASSUME NEW s \in OmsSessions, RollbackOrders(s) PROVE OmsInv'
    BY <1>1, <1>7 DEF RollbackOrders
  <1>8. CASE UNCHANGED omsVars
    <2>1. UNCHANGED <<so, item, booked, omsRequest, omsStale>>
      BY <1>8 DEF omsVars
    <2>2. OmsTypeOK' /\ TotalIsBooked' /\ MergedIsEmpty'
      BY <2>1 DEF OmsInv, OmsTypeOK, TotalIsBooked, MergedIsEmpty, ItemsOf
    <2>3. \A s \in OmsSessions : omsRequest'[s] # NoOmsRequest => OmsRequestOK(omsRequest[s])'
      <3> SUFFICES ASSUME NEW s \in OmsSessions, omsRequest'[s] # NoOmsRequest
                   PROVE  OmsRequestOK(omsRequest[s])'
        OBVIOUS
      <3>1. omsRequest' = [omsRequest EXCEPT ![s] = omsRequest[s]]
        BY <2>1 DEF OmsInv
      <3>2. omsRequest[s] # NoOmsRequest => OmsRequestOK(omsRequest[s])
        BY DEF OmsInv
      <3> QED
        BY <2>1, <3>1, <3>2, OmsInFlight
    <2> QED
      BY <2>1, <2>2, <2>3 DEF OmsInv
  <1> QED
    BY <1>3, <1>4, <1>5, <1>6, <1>7, <1>8 DEF OmsNext

\* An order's total is its opening total with every item accepted on the order
\* itself, which no split, merge, review or shipment changes, and no item is
\* left in an order merged into another, unless overlapping requests overwrote
\* the order.  That items and totals stay together is not claimed: a merge
\* moves the one without the other.
THEOREM SalesHold == OmsSpec => []SalesAreSound
  <1>1. OmsInv => SalesAreSound
    BY DEF OmsInv, SalesAreSound
  <1> QED
    BY <1>1, OmsInitially, OmsStep, PTL DEF OmsSpec

\* An order that is refunded, completed, cancelled or merged stays so, for the
\* services that ask the transition table and those that do not, unless two
\* requests on it overlapped.
THEOREM FinalOrdersHold == OmsSpec => FinalOrdersStay
  <1>1. OmsInv /\ [OmsNext]_omsVars =>
           [\A o \in SalesOrderIds \ omsStale' :
              so[o].status \in Final => so'[o].status = so[o].status]_omsVars
    <2> SUFFICES ASSUME OmsInv, OmsNext, NEW o \in SalesOrderIds \ omsStale', so[o].status \in Final
                 PROVE  so'[o].status = so[o].status
      OBVIOUS
    <2>1. CASE so' = so
      BY <2>1
    <2>2. ASSUME NEW p \in SalesOrderIds, NEW y, ~Exists(p), so' = [so EXCEPT ![p] = y]
          PROVE  so'[o].status = so[o].status
      <3>1. NoSalesOrder.status \notin Final
        BY DEF NoSalesOrder, Final
      <3> QED
        BY <2>2, <3>1 DEF Exists, OmsInv, OmsTypeOK
    <2>3. ASSUME NEW s \in OmsSessions, CommitOrders(s) PROVE so'[o].status = so[o].status
      <3>1. PICK r : r = omsRequest[s]
        OBVIOUS
      <3>2. PICK a, y : a = so[o] /\ y = so'[o]
        OBVIOUS
      <3>3. OmsCommits(r)
        BY <2>3, <3>1, OmsCommitFacts
      <3>4. NoSalesOrder.status \notin Final
        BY DEF NoSalesOrder, Final
      <3>5. a = NoSalesOrder \/ OrderBecomes(r, o, y) \/ y = a
        BY <3>2, <3>3, OrdersAfter
      <3> QED
        BY <3>2, <3>4, <3>5 DEF OrderBecomes
    <2>4. \/ so' = so
          \/ \E p \in SalesOrderIds : \E y : ~Exists(p) /\ so' = [so EXCEPT ![p] = y]
          \/ \E s \in OmsSessions : CommitOrders(s)
      BY DEF OmsNext, CreateSalesOrder, SyncFromPlatform, LoadOrders, RollbackOrders
    <2> QED
      BY <2>1, <2>2, <2>3, <2>4
  <1> QED
    BY <1>1, OmsInitially, OmsStep, PTL DEF OmsSpec, FinalOrdersStay

-----------------------------------------------------------------------------
(* Shipments and tracking records *)

ShipmentRow == [status : ShipmentStatuses, events : Seq(CarrierEvents)]

\* What a request on a shipment may be about to flush: one more event, with a
\* status the table allows; another list; a status the table allows.
ShpAdds(r) ==
    \E row \in ShipmentRow, e \in CarrierEvents :
        \E t \in ShipmentTransitions[row.status] \cup {row.status} :
            /\ r.read = row /\ r.said = <<e>>
            /\ r.set = [status |-> t, events |-> Append(row.events, e)]

ShpReplaces(r) ==
    \E l \in Seq(CarrierEvents), e \in CarrierEvents :
        r.read = [events |-> l] /\ r.set = [events |-> <<e>>] /\ r.said = <<>>

ShpMoves(r) ==
    \E u \in ShipmentStatuses : \E t \in ShipmentTransitions[u] :
        r.read = [status |-> u] /\ r.set = [status |-> t] /\ r.said = <<>>

ShipmentRequest(r) ==
    /\ r.on \in ShipmentIds /\ shp[r.on] # NoShipment
    /\ (ShpAdds(r) \/ ShpReplaces(r) \/ ShpMoves(r))

\* A record that a query saw is still there.
TrackingRequest(r) == r.on = "tracking" /\ r.saw \subseteq Records /\ r.syncs \in Nat \ {0}

TmsRequestOK(r) == ShipmentRequest(r) \/ TrackingRequest(r)

TmsInv ==
    /\ TmsTypeOK
    /\ DOMAIN tmsRequest = TmsSessions /\ tmsRequest = [s \in TmsSessions |-> tmsRequest[s]]
    /\ \A s \in TmsSessions : tmsRequest[s] # NoTmsRequest => TmsRequestOK(tmsRequest[s])
    /\ EventsAreKept
    /\ \A q, r \in Records \ doubled : q = r

Fresh(x, r) == \A f \in DOMAIN r.read : r.read[f] = x[f]

Ended == {"returned", "completed", "cancelled"}

LEMMA StatusMoves ==
    ASSUME NEW u \in ShipmentStatuses, NEW t \in ShipmentTransitions[u]
    PROVE  t \in ShipmentStatuses /\ u \notin Ended
  BY DEF ShipmentStatuses, ShipmentTransitions, Ended

\* What the commit of a request makes of the row x of its shipment.
LEMMA ShpCommitted ==
    ASSUME NEW x \in ShipmentRow, NEW r, ShpAdds(r) \/ ShpReplaces(r) \/ ShpMoves(r),
           NEW y, y = Flushed(x, r.read, r.set), NEW w, w = x.events \o r.said
    PROVE  /\ y \in ShipmentRow
           /\ r.said \in Seq(CarrierEvents)
           /\ Fresh(x, r) /\ ~Replaces(r) => y.events = w
           /\ Fresh(x, r) /\ x.status \in Ended => y.status = x.status
  <1>1. x = [c \in DOMAIN x |-> x[c]] /\ DOMAIN x = {"status", "events"}
    BY DEF ShipmentRow
  <1>2. x.status \in ShipmentStatuses /\ x.events \in Seq(CarrierEvents)
    BY DEF ShipmentRow
  <1>3. CASE ShpAdds(r)
    <2>1. PICK row \in ShipmentRow, e \in CarrierEvents :
             \E t \in ShipmentTransitions[row.status] \cup {row.status} :
                /\ r.read = row /\ r.said = <<e>>
                /\ r.set = [status |-> t, events |-> Append(row.events, e)]
      BY <1>3 DEF ShpAdds
    <2>2. row.status \in ShipmentStatuses /\ row.events \in Seq(CarrierEvents)
          /\ DOMAIN row = {"status", "events"}
      BY DEF ShipmentRow
    <2>3. PICK t \in ShipmentStatuses, l \in Seq(CarrierEvents) :
             /\ r.read = row /\ r.said = <<e>> /\ r.set = [status |-> t, events |-> l]
             /\ row.status \in Ended => t = row.status
             /\ Len(l) = Len(row.events) + 1 /\ l = row.events \o <<e>>
      <3>1. PICK t \in ShipmentTransitions[row.status] \cup {row.status} :
               /\ r.read = row /\ r.said = <<e>>
               /\ r.set = [status |-> t, events |-> Append(row.events, e)]
        BY <2>1
      <3>2. PICK l : l = Append(row.events, e)
        OBVIOUS
      <3>3. l \in Seq(CarrierEvents) /\ Len(l) = Len(row.events) + 1
        BY <2>2, <3>2, AppendProperties
      <3>5. l = row.events \o <<e>>
        BY <2>2, <3>2, AppendIsConcat
      <3>4. t \in ShipmentStatuses /\ (row.status \in Ended => t = row.status)
        BY <2>2, StatusMoves
      <3> QED
        BY <3>1, <3>2, <3>3, <3>4, <3>5
    <2>4. l # row.events
      <3>1. Len(row.events) \in Nat
        BY <2>2
      <3> QED
        BY <2>3, <3>1
    <2>5. y = [c \in {"status", "events"} |->
                  IF c = "events" THEN l ELSE IF t # row.status THEN t ELSE x.status]
      BY <1>1, <2>2, <2>3, <2>4 DEF Flushed
    <2>6. y = [status |-> IF t # row.status THEN t ELSE x.status, events |-> l]
      BY <2>5
    <2>7. y \in ShipmentRow /\ y.events = l
      BY <1>2, <2>6 DEF ShipmentRow
    <2>8. Fresh(x, r) => row.events = x.events /\ row.status = x.status
      BY <2>2, <2>3 DEF Fresh
    <2>12. row.status \in Ended => t = row.status
      BY <2>3
    <2>9. Fresh(x, r) /\ x.status \in Ended => y.status = x.status
      BY <2>6, <2>8, <2>12
    <2>10. r.said \in Seq(CarrierEvents)
      BY <2>3
    <2>11. Fresh(x, r) => y.events = w
      BY <2>3, <2>7, <2>8
    <2> QED
      BY <2>7, <2>9, <2>10, <2>11
  <1>4. CASE ShpReplaces(r)
    <2>1. PICK k \in Seq(CarrierEvents), l \in Seq(CarrierEvents) :
             r.read = [events |-> k] /\ r.set = [events |-> l] /\ r.said = <<>>
      <3>1. PICK k \in Seq(CarrierEvents), e \in CarrierEvents :
               r.read = [events |-> k] /\ r.set = [events |-> <<e>>] /\ r.said = <<>>
        BY <1>4 DEF ShpReplaces
      <3>2. PICK l : l = <<e>>
        OBVIOUS
      <3>3. l \in Seq(CarrierEvents)
        BY <3>2
      <3> QED
        BY <3>1, <3>2, <3>3
    <2>2. y = [x EXCEPT !.events = IF l # k THEN l ELSE @]
      BY <1>1, <2>1 DEF Flushed
    <2>3. y \in ShipmentRow /\ y.status = x.status
      BY <1>2, <2>1, <2>2 DEF ShipmentRow
    <2>4. Replaces(r)
      BY <2>1 DEF Replaces
    <2>5. r.said \in Seq(CarrierEvents)
      BY <2>1
    <2> QED
      BY <2>3, <2>4, <2>5
  <1>5. CASE ShpMoves(r)
    <2>1. PICK u \in ShipmentStatuses : \E t \in ShipmentTransitions[u] :
             r.read = [status |-> u] /\ r.set = [status |-> t] /\ r.said = <<>>
      BY <1>5 DEF ShpMoves
    <2>2. PICK t \in ShipmentStatuses :
             r.read = [status |-> u] /\ r.set = [status |-> t] /\ u \notin Ended /\ r.said = <<>>
      BY <2>1, StatusMoves
    <2>3. y = [x EXCEPT !.status = IF t # u THEN t ELSE @]
      BY <1>1, <2>2 DEF Flushed
    <2>4. y \in ShipmentRow /\ y.events = x.events
      BY <1>2, <2>3 DEF ShipmentRow
    <2>5. Fresh(x, r) => x.status = u
      BY <2>2 DEF Fresh
    <2>6. y.events = w /\ r.said \in Seq(CarrierEvents)
      BY <1>2, <2>2, <2>4, ConcatEmptySeq
    <2> QED
      BY <2>2, <2>4, <2>5, <2>6
  <1> QED
    BY <1>3, <1>4, <1>5

LEMMA TmsInitially == TmsInit => TmsInv
  <1> SUFFICES ASSUME TmsInit PROVE TmsInv
    OBVIOUS
  <1>1. Records = {}
    BY DEF TmsInit, Records
  <1>3. EventsAreKept
    BY DEF TmsInit, EventsAreKept, NoShipment
  <1> QED
    BY <1>1, <1>3 DEF TmsInit, TmsInv, TmsTypeOK

\* Requests that load a shipment: each is of one of the three kinds.
LEMMA TmsLoads ==
    ASSUME NEW o \in ShipmentIds, shp[o] \in ShipmentRow, shp[o] # NoShipment,
           NEW c \in TmsHandled(o)
    PROVE  ShipmentRequest(c)
  <1>1. PICK row : row = shp[o]
    OBVIOUS
  <1>2. row \in ShipmentRow /\ row.status \in ShipmentStatuses /\ row.events \in Seq(CarrierEvents)
    BY <1>1 DEF ShipmentRow
  <1>3. ASSUME c \in AddTrackingEvent(o) PROVE ShpAdds(c) /\ c.on = o
    <2>1. PICK e \in CarrierEvents :
             c = TmsChange(o, row, [status |-> IF EventStatus[e] \in ShipmentTransitions[row.status]
                                                THEN EventStatus[e] ELSE row.status,
                                     events |-> Append(row.events, e)], <<e>>)
      BY <1>1, <1>3 DEF AddTrackingEvent
    <2>2. PICK t : t = IF EventStatus[e] \in ShipmentTransitions[row.status]
                       THEN EventStatus[e] ELSE row.status
      OBVIOUS
    <2>3. t \in ShipmentTransitions[row.status] \cup {row.status}
      BY <2>2
    <2>4. c.on = o /\ c.read = row /\ c.said = <<e>>
          /\ c.set = [status |-> t, events |-> Append(row.events, e)]
      BY <2>1, <2>2 DEF TmsChange
    <2> QED
      BY <1>2, <2>3, <2>4 DEF ShpAdds
  <1>4. ASSUME c \in UpdateTracking(o) PROVE ShpReplaces(c) /\ c.on = o
    BY <1>1, <1>2, <1>4 DEF UpdateTracking, TmsChange, ShpReplaces
  <1>5. ASSUME c \in UpdateShipmentStatus(o) PROVE ShpMoves(c) /\ c.on = o
    BY <1>1, <1>2, <1>5 DEF UpdateShipmentStatus, TmsChange, ShpMoves
  <1> QED
    BY <1>3, <1>4, <1>5 DEF TmsHandled, ShipmentRequest

\* What is in flight stays what it is while rows stay rows: the requests, each
\* of them what it was or none, keep their part of the invariant.
LEMMA TmsInFlight ==
    ASSUME TmsInv,
           DOMAIN tmsRequest' = TmsSessions,
           tmsRequest' = [s \in TmsSessions |-> tmsRequest'[s]],
           NEW z,
           z \in TmsSessions /\ tmsRequest'[z] # NoTmsRequest => TmsRequestOK(tmsRequest[z])',
           \A s \in TmsSessions \ {z} :
              tmsRequest'[s] = tmsRequest[s] \/ tmsRequest'[s] = NoTmsRequest,
           \A o \in ShipmentIds : shp[o] # NoShipment => shp'[o] # NoShipment,
           Records \subseteq Records'
    PROVE  \A s \in TmsSessions : tmsRequest'[s] # NoTmsRequest => TmsRequestOK(tmsRequest[s])'
  <1> SUFFICES ASSUME NEW s \in TmsSessions, tmsRequest'[s] # NoTmsRequest, s # z
               PROVE  TmsRequestOK(tmsRequest[s])'
    OBVIOUS
  <1>1. PICK r : r = tmsRequest[s]
    OBVIOUS
  <1>2. tmsRequest'[s] = r /\ TmsRequestOK(r)
    BY <1>1 DEF TmsInv
  <1>3. CASE ShipmentRequest(r)
    <2>1. r.on \in ShipmentIds /\ shp'[r.on] # NoShipment
          /\ (ShpAdds(r) \/ ShpReplaces(r) \/ ShpMoves(r))
      BY <1>3 DEF ShipmentRequest
    <2>2. ShpAdds(r) => ShpAdds(tmsRequest[s])'
      BY <1>2 DEF ShpAdds, ShipmentRow
    <2>3. ShpReplaces(r) => ShpReplaces(tmsRequest[s])'
      BY <1>2 DEF ShpReplaces
    <2>4. ShpMoves(r) => ShpMoves(tmsRequest[s])'
      BY <1>2 DEF ShpMoves
    <2>5. ShipmentRequest(tmsRequest[s])'
      BY <1>2, <2>1, <2>2, <2>3, <2>4 DEF ShipmentRequest
    <2> QED
      BY <2>5 DEF TmsRequestOK
  <1>4. CASE TrackingRequest(r)
    <2>1. TrackingRequest(tmsRequest[s])'
      BY <1>2, <1>4 DEF TrackingRequest
    <2> QED
      BY <2>1 DEF TmsRequestOK
  <1> QED
    BY <1>2, <1>3, <1>4 DEF TmsRequestOK

\* A step that changes neither requests nor records nor lists of events.
LEMMA TmsQuiet ==
    ASSUME TmsInv, UNCHANGED <<carrierSaid, replaced, tmsRequest, tmsStale, doubled, tracking>>,
           TmsTypeOK', \A o \in ShipmentIds : /\ shp'[o].events = shp[o].events
                                              /\ shp[o] # NoShipment => shp'[o] # NoShipment
    PROVE  TmsInv'
  <1>1. Records' = Records
    BY DEF Records
  <1>2. EventsAreKept'
    BY DEF TmsInv, EventsAreKept
  <1>3. \A s \in TmsSessions : tmsRequest'[s] # NoTmsRequest => TmsRequestOK(tmsRequest[s])'
    <2>1. PICK z : z \notin TmsSessions
      BY NoSetContainsEverything
    <2>2. DOMAIN tmsRequest' = TmsSessions /\ tmsRequest' = [s \in TmsSessions |-> tmsRequest'[s]]
      BY DEF TmsInv
    <2> QED
      BY <1>1, <2>1, <2>2, TmsInFlight
  <1> QED
    BY <1>1, <1>2, <1>3 DEF TmsInv

\* Loading and giving up: only one session's request changes.
LEMMA TmsAsked ==
    ASSUME TmsInv, NEW z \in TmsSessions, NEW v, v = NoTmsRequest \/ TmsRequestOK(v),
           tmsRequest' = [tmsRequest EXCEPT ![z] = v],
           UNCHANGED <<shp, batch, tracking, connector, dispatch, carrierSaid, replaced,
                       tmsStale, doubled>>
    PROVE  TmsInv'
  <1>1. /\ DOMAIN tmsRequest' = TmsSessions
        /\ tmsRequest' = [s \in TmsSessions |-> tmsRequest'[s]]
        /\ tmsRequest'[z] = v
        /\ \A s \in TmsSessions \ {z} : tmsRequest'[s] = tmsRequest[s]
    BY DEF TmsInv
  <1>2. Records' = Records
    BY DEF Records
  <1>3. v # NoTmsRequest => TmsRequestOK(tmsRequest[z])'
    <2> SUFFICES ASSUME TmsRequestOK(v) PROVE TmsRequestOK(tmsRequest[z])'
      OBVIOUS
    <2>1. ASSUME ShipmentRequest(v) PROVE ShipmentRequest(tmsRequest[z])'
      <3>1. ShpAdds(v) => ShpAdds(tmsRequest[z])'
        BY <1>1 DEF ShpAdds, ShipmentRow
      <3>2. ShpReplaces(v) => ShpReplaces(tmsRequest[z])'
        BY <1>1 DEF ShpReplaces
      <3>3. ShpMoves(v) => ShpMoves(tmsRequest[z])'
        BY <1>1 DEF ShpMoves
      <3>4. v.on \in ShipmentIds /\ shp'[v.on] # NoShipment
            /\ (ShpAdds(v) \/ ShpReplaces(v) \/ ShpMoves(v))
        BY <2>1 DEF ShipmentRequest
      <3> QED
        BY <1>1, <3>1, <3>2, <3>3, <3>4 DEF ShipmentRequest
    <2>2. TrackingRequest(v) => TrackingRequest(tmsRequest[z])'
      BY <1>1, <1>2 DEF TrackingRequest
    <2> QED
      BY <2>1, <2>2 DEF TmsRequestOK
  <1>4. \A s \in TmsSessions : tmsRequest'[s] # NoTmsRequest => TmsRequestOK(tmsRequest[s])'
    BY <1>1, <1>2, <1>3, TmsInFlight
  <1>5. TmsTypeOK' /\ EventsAreKept'
    BY DEF TmsInv, TmsTypeOK, EventsAreKept
  <1> QED
    BY <1>1, <1>2, <1>4, <1>5 DEF TmsInv

LEMMA ShpCommitFacts ==
    ASSUME TmsInv, NEW s \in TmsSessions, CommitShipment(s),
           NEW r, r = tmsRequest[s], NEW o, o = r.on, NEW x, x = shp[o], NEW y, y = shp'[o]
    PROVE  /\ o \in ShipmentIds /\ x \in ShipmentRow /\ (ShpAdds(r) \/ ShpReplaces(r) \/ ShpMoves(r))
           /\ shp' = [shp EXCEPT ![o] = y] /\ y = Flushed(x, r.read, r.set)
           /\ tmsStale \subseteq tmsStale' /\ tmsStale' \subseteq tmsStale \cup {o}
           /\ o \notin tmsStale' => Fresh(x, r)
           /\ tmsRequest' = [tmsRequest EXCEPT ![s] = NoTmsRequest]
           /\ UNCHANGED <<batch, tracking, connector, dispatch, doubled>>
  <1>1. /\ o \in ShipmentIds /\ r # NoTmsRequest
        /\ shp' = [shp EXCEPT ![o] = Flushed(@, r.read, r.set)]
        /\ tmsStale' = IF \E f \in DOMAIN r.read : r.read[f] # shp[o][f]
                       THEN tmsStale \cup {o} ELSE tmsStale
        /\ tmsRequest' = [tmsRequest EXCEPT ![s] = NoTmsRequest]
        /\ UNCHANGED <<batch, tracking, connector, dispatch, doubled>>
    BY DEF CommitShipment
  <1>2. TmsRequestOK(r)
    BY <1>1 DEF TmsInv
  <1>3. x # NoShipment /\ (ShpAdds(r) \/ ShpReplaces(r) \/ ShpMoves(r))
    BY <1>1, <1>2, TmsAssumption DEF TmsRequestOK, ShipmentRequest, TrackingRequest
  <1>4. x \in ShipmentRow
    BY <1>1, <1>3 DEF TmsInv, TmsTypeOK, ShipmentRow
  <1>5. y = Flushed(x, r.read, r.set) /\ shp' = [shp EXCEPT ![o] = y]
    BY <1>1 DEF TmsInv, TmsTypeOK
  <1>6. o \notin tmsStale' => Fresh(x, r)
    BY <1>1 DEF Fresh
  <1> QED
    BY <1>1, <1>3, <1>4, <1>5, <1>6

LEMMA ShpCommitStep ==
    ASSUME TmsInv, NEW s \in TmsSessions, CommitShipment(s)
    PROVE  TmsInv'
  <1>1. PICK r : r = tmsRequest[s]
    OBVIOUS
  <1>2. PICK o : o = r.on
    OBVIOUS
  <1>3. PICK x : x = shp[o]
    OBVIOUS
  <1>4. PICK y : y = shp'[o]
    OBVIOUS
  <1>5. PICK n, w : n = carrierSaid[o] \o r.said /\ w = x.events \o r.said
    OBVIOUS
  <1>6. /\ o \in ShipmentIds /\ x \in ShipmentRow /\ (ShpAdds(r) \/ ShpReplaces(r) \/ ShpMoves(r))
        /\ shp' = [shp EXCEPT ![o] = y] /\ y = Flushed(x, r.read, r.set)
        /\ tmsStale \subseteq tmsStale' /\ tmsStale' \subseteq tmsStale \cup {o}
        /\ o \notin tmsStale' => Fresh(x, r)
        /\ carrierSaid' = [carrierSaid EXCEPT ![o] = n]
        /\ replaced' = IF Replaces(r) THEN replaced \cup {o} ELSE replaced
        /\ tmsRequest' = [tmsRequest EXCEPT ![s] = NoTmsRequest]
        /\ UNCHANGED <<batch, tracking, connector, dispatch, doubled>>
    <2>1. carrierSaid' = [carrierSaid EXCEPT ![o] = n]
      BY <1>1, <1>2, <1>5 DEF CommitShipment
    <2>2. replaced' = IF Replaces(r) THEN replaced \cup {o} ELSE replaced
      BY <1>1, <1>2 DEF CommitShipment
    <2>3. /\ o \in ShipmentIds /\ x \in ShipmentRow /\ (ShpAdds(r) \/ ShpReplaces(r) \/ ShpMoves(r))
          /\ shp' = [shp EXCEPT ![o] = y] /\ y = Flushed(x, r.read, r.set)
          /\ tmsStale \subseteq tmsStale' /\ tmsStale' \subseteq tmsStale \cup {o}
          /\ o \notin tmsStale' => Fresh(x, r)
          /\ tmsRequest' = [tmsRequest EXCEPT ![s] = NoTmsRequest]
          /\ UNCHANGED <<batch, tracking, connector, dispatch, doubled>>
      BY <1>1, <1>2, <1>3, <1>4, ShpCommitFacts
    <2> QED
      BY <2>1, <2>2, <2>3
  <1>7. /\ y \in ShipmentRow /\ r.said \in Seq(CarrierEvents)
        /\ Fresh(x, r) /\ ~Replaces(r) => y.events = w
    <2>1. /\ x \in ShipmentRow /\ (ShpAdds(r) \/ ShpReplaces(r) \/ ShpMoves(r))
          /\ y = Flushed(x, r.read, r.set) /\ w = x.events \o r.said
      BY <1>5, <1>6
    <2> QED
      BY <2>1, ShpCommitted
  <1>8. y # NoShipment /\ NoShipment.status = "none"
    <2>1. y.status \in ShipmentStatuses
      BY <1>7 DEF ShipmentRow
    <2>2. "none" \notin ShipmentStatuses
      BY DEF ShipmentStatuses, ShipmentTransitions
    <2> QED
      BY <2>1, <2>2 DEF NoShipment
  <1>9. carrierSaid \in [ShipmentIds -> Seq(CarrierEvents)]
    BY DEF TmsInv, TmsTypeOK
  <1>10. TmsTypeOK'
    <2>1. n \in Seq(CarrierEvents)
      BY <1>5, <1>6, <1>7, <1>9, ConcatProperties
    <2>2. carrierSaid' \in [ShipmentIds -> Seq(CarrierEvents)]
      BY <1>6, <1>9, <2>1
    <2> QED
      BY <1>6, <1>7, <2>2 DEF TmsInv, TmsTypeOK, ShipmentRow
  <1>11. EventsAreKept'
    <2> SUFFICES ASSUME NEW p \in ShipmentIds, p \notin tmsStale', p \notin replaced'
                 PROVE  shp'[p].events = carrierSaid'[p]
      BY DEF EventsAreKept
    <2>1. shp[p].events = carrierSaid[p]
      BY <1>6 DEF TmsInv, EventsAreKept
    <2>2. CASE p # o
      BY <1>6, <1>9, <2>1, <2>2 DEF TmsInv, TmsTypeOK
    <2>3. CASE p = o
      <3>1. shp'[p] = y /\ carrierSaid'[p] = n
        BY <1>4, <1>6, <1>9, <2>3
      <3>3. n = w
        BY <1>3, <1>5, <2>1, <2>3
      <3>2. Fresh(x, r) /\ ~Replaces(r)
        BY <1>6, <2>3
      <3> QED
        BY <1>7, <3>1, <3>2, <3>3
    <2> QED
      BY <2>2, <2>3
  <1>12. Records' = Records
    BY <1>6 DEF Records
  <1>13. /\ DOMAIN tmsRequest' = TmsSessions
         /\ tmsRequest' = [t \in TmsSessions |-> tmsRequest'[t]]
         /\ tmsRequest'[s] = NoTmsRequest
         /\ \A t \in TmsSessions \ {s} : tmsRequest'[t] = tmsRequest[t]
    BY <1>6 DEF TmsInv
  <1>14. \A p \in ShipmentIds : shp[p] # NoShipment => shp'[p] # NoShipment
    BY <1>6, <1>8 DEF TmsInv, TmsTypeOK
  <1>15. \A t \in TmsSessions : tmsRequest'[t] # NoTmsRequest => TmsRequestOK(tmsRequest[t])'
    BY <1>12, <1>13, <1>14, TmsInFlight
  <1> QED
    BY <1>6, <1>10, <1>11, <1>12, <1>13, <1>15 DEF TmsInv

LEMMA TmsStep == TmsInv /\ [TmsNext]_tmsVars => TmsInv'
  <1> SUFFICES ASSUME TmsInv, [TmsNext]_tmsVars PROVE TmsInv'
    OBVIOUS
  <1> USE DEF TmsNext, ShipmentNext, CarrierNext
  <1>1. \A o \in ShipmentIds : shp[o] \in ShipmentRow \/ shp[o] = NoShipment
    BY DEF TmsInv, TmsTypeOK, ShipmentRow
  <1>2. ASSUME NEW o \in ShipmentIds, CreateShipment(o) PROVE TmsInv'
    <2>1. NewShipment \in ShipmentRow /\ NewShipment # NoShipment
          /\ NewShipment.events = NoShipment.events
      BY DEF NewShipment, NoShipment, ShipmentRow, ShipmentStatuses, ShipmentTransitions
    <2>2. TmsTypeOK'
      BY <1>2, <2>1 DEF CreateShipment, TmsInv, TmsTypeOK, ShipmentRow
    <2>3. \A p \in ShipmentIds : shp'[p].events = shp[p].events
                                 /\ (shp[p] # NoShipment => shp'[p] # NoShipment)
      BY <1>2, <2>1 DEF CreateShipment, Sent, TmsInv, TmsTypeOK
    <2> QED
      BY <1>2, <2>2, <2>3, TmsQuiet DEF CreateShipment
  <1>3. ASSUME NEW s \in TmsSessions, NEW o \in ShipmentIds, LoadShipment(s, o) PROVE TmsInv'
    <2>1. PICK c \in TmsHandled(o) : tmsRequest' = [tmsRequest EXCEPT ![s] = c]
      BY <1>3 DEF LoadShipment
    <2>2. shp[o] # NoShipment /\ shp[o] \in ShipmentRow
      BY <1>1, <1>3 DEF LoadShipment, Sent
    <2>3. TmsRequestOK(c)
      BY <2>2, TmsLoads DEF TmsRequestOK
    <2> QED
      BY <1>3, <2>1, <2>3, TmsAsked DEF LoadShipment
  <1>4. ASSUME NEW s \in TmsSessions, CommitShipment(s) PROVE TmsInv'
    BY <1>4, ShpCommitStep
  <1>5. ASSUME NEW s \in TmsSessions, TmsRollback(s) PROVE TmsInv'
    BY <1>5, TmsAsked DEF TmsRollback
  <1>6. ASSUME NEW S \in SUBSET ShipmentIds, NEW t \in ShipmentStatuses, BatchUpdateStatus(S, t)
        PROVE  TmsInv'
    <2>1. \A p \in ShipmentIds : /\ shp'[p] \in ShipmentRow \cup {NoShipment}
                                 /\ shp'[p].events = shp[p].events
                                 /\ shp[p] # NoShipment => shp'[p] # NoShipment
      <3> SUFFICES ASSUME NEW p \in ShipmentIds
                   PROVE  /\ shp'[p] \in ShipmentRow \cup {NoShipment}
                          /\ shp'[p].events = shp[p].events
                          /\ shp[p] # NoShipment => shp'[p] # NoShipment
        OBVIOUS
      <3>1. CASE shp'[p] = shp[p]
        BY <1>1, <3>1
      <3>2. CASE shp'[p] # shp[p]
        <4>1. PICK x : x = shp[p]
          OBVIOUS
        <4>2. PICK y : y = [x EXCEPT !.status = t]
          OBVIOUS
        <4>3. shp'[p] = y /\ x # NoShipment /\ x \in ShipmentRow
          BY <1>1, <1>6, <3>2, <4>1, <4>2 DEF BatchUpdateStatus, Sent
        <4>4. y \in ShipmentRow /\ y.events = x.events
          BY <4>2, <4>3 DEF ShipmentRow
        <4>5. y # NoShipment
          BY <4>4 DEF ShipmentRow, NoShipment, ShipmentStatuses, ShipmentTransitions
        <4> QED
          BY <4>1, <4>3, <4>4, <4>5
      <3> QED
        BY <3>1, <3>2
    <2>2. shp' \in [ShipmentIds -> ShipmentRow \cup {NoShipment}]
      BY <1>6, <2>1 DEF BatchUpdateStatus
    <2>3. TmsTypeOK'
      BY <1>6, <2>2 DEF BatchUpdateStatus, TmsInv, TmsTypeOK, ShipmentRow
    <2> QED
      BY <1>6, <2>1, <2>3, TmsQuiet DEF BatchUpdateStatus
  <1>7. ASSUME NEW S \in SUBSET ShipmentIds, CreateBatch(S) PROVE TmsInv'
    <2>1. Cardinality(S) \in Nat
      BY TmsAssumption, FS_Subset, FS_CardinalityType
    <2>2. PICK n \in Nat : n = Cardinality(S)
      BY <2>1
    <2>3. TmsTypeOK'
      BY <1>7, <2>2 DEF CreateBatch, TmsInv, TmsTypeOK, BatchTransitions
    <2> QED
      BY <1>7, <2>3, TmsQuiet DEF CreateBatch
  <1>8. ASSUME UpdateBatchStatus PROVE TmsInv'
    <2>1. PICK t : t \in BatchTransitions[batch.status] /\ batch' = [batch EXCEPT !.status = t]
      BY <1>8 DEF UpdateBatchStatus
    <2>2. t \in DOMAIN BatchTransitions
      BY <1>8, <2>1 DEF UpdateBatchStatus, BatchTransitions
    <2>3. TmsTypeOK'
      BY <1>8, <2>1, <2>2 DEF UpdateBatchStatus, TmsInv, TmsTypeOK
    <2> QED
      BY <1>8, <2>3, TmsQuiet DEF UpdateBatchStatus
  <1>9. ASSUME UpdateConnector \/ CreateDispatch \/ CancelDispatch PROVE TmsInv'
    <2>1. UNCHANGED <<shp, carrierSaid, replaced, tmsRequest, tmsStale, doubled, tracking>>
      BY <1>9 DEF UpdateConnector, CreateDispatch, CancelDispatch
    <2>2. TmsTypeOK'
      BY <1>9 DEF UpdateConnector, CreateDispatch, CancelDispatch, TmsInv, TmsTypeOK
    <2> QED
      BY <2>1, <2>2, TmsQuiet
  <1>10. ASSUME NEW s \in TmsSessions, LoadTracking(s) PROVE TmsInv'
    <2>1. PICK n : n = 1 + (IF Records = {} THEN 0 ELSE tracking[CHOOSE r \in Records : TRUE])
      OBVIOUS
    <2>2. PICK c : c = [on |-> "tracking", saw |-> Records, syncs |-> n]
      OBVIOUS
    <2>3. tmsRequest' = [tmsRequest EXCEPT ![s] = c]
      BY <1>10, <2>1, <2>2 DEF LoadTracking, QueryTracking
    <2>4. n \in Nat \ {0}
      <3>1. CASE Records = {}
        BY <2>1, <3>1
      <3>2. CASE Records # {}
        <4>1. PICK q : q = CHOOSE r \in Records : TRUE
          OBVIOUS
        <4>2. q \in Records
          BY <3>2, <4>1
        <4>3. tracking[q] \in Nat
          BY <4>2 DEF Records, TmsInv, TmsTypeOK
        <4> QED
          BY <2>1, <3>2, <4>1, <4>3
      <3> QED
        BY <3>1, <3>2
    <2>5. TmsRequestOK(c)
      BY <2>2, <2>4 DEF TmsRequestOK, TrackingRequest
    <2> QED
      BY <1>10, <2>3, <2>5, TmsAsked DEF LoadTracking
  <1>11. ASSUME NEW s \in TmsSessions, CommitTracking(s) PROVE TmsInv'
    <2>1. PICK q : q = tmsRequest[s]
      OBVIOUS
    <2>2. TmsRequestOK(q) /\ q.on = "tracking"
      BY <1>11, <2>1 DEF CommitTracking, TmsInv
    <2>3. q.saw \subseteq Records /\ q.syncs \in Nat \ {0}
      BY <2>2, TmsAssumption DEF TmsRequestOK, ShipmentRequest, TrackingRequest
    <2>4. PICK r \in IF q.saw = {} THEN TrackingRows \ Records ELSE q.saw :
             /\ tracking' = [tracking EXCEPT ![r] = q.syncs]
             /\ doubled' = IF q.saw = {} /\ Records # {} THEN doubled \cup {r} ELSE doubled
      BY <1>11, <2>1 DEF CommitTracking
    <2>5. r \in TrackingRows
      BY <2>3, <2>4 DEF Records
    <2>6. Records' = Records \cup {r}
      BY <2>3, <2>4, <2>5 DEF Records, TmsInv, TmsTypeOK
    <2>7. TmsTypeOK' /\ EventsAreKept'
      BY <1>11, <2>3, <2>4, <2>5 DEF CommitTracking, TmsInv, TmsTypeOK, EventsAreKept
    <2>8. \A p, v \in (Records \ doubled)' : p = v
      <3>1. \A p, v \in Records \ doubled : p = v
        BY DEF TmsInv
      <3>2. CASE q.saw # {}
        BY <2>3, <2>4, <2>6, <3>1, <3>2
      <3>3. CASE q.saw = {} /\ Records # {}
        BY <2>4, <2>6, <3>1, <3>3
      <3>4. CASE Records = {}
        BY <2>6, <3>4
      <3> QED
        BY <3>2, <3>3, <3>4
    <2>9. /\ DOMAIN tmsRequest' = TmsSessions
          /\ tmsRequest' = [t \in TmsSessions |-> tmsRequest'[t]]
          /\ tmsRequest'[s] = NoTmsRequest
          /\ \A t \in TmsSessions \ {s} : tmsRequest'[t] = tmsRequest[t]
      BY <1>11 DEF CommitTracking, TmsInv
    <2>10. \A t \in TmsSessions : tmsRequest'[t] # NoTmsRequest => TmsRequestOK(tmsRequest[t])'
      <3>1. shp' = shp /\ Records \subseteq Records'
        BY <1>11, <2>6 DEF CommitTracking
      <3> QED
        BY <2>9, <3>1, TmsInFlight
    <2> QED
      BY <1>11, <2>7, <2>8, <2>9, <2>10 DEF CommitTracking, TmsInv
  <1>12. CASE UNCHANGED tmsVars
    <2>1. UNCHANGED <<shp, carrierSaid, replaced, tmsRequest, tmsStale, doubled, tracking>>
      BY <1>12 DEF tmsVars
    <2>2. TmsTypeOK'
      BY <1>12 DEF tmsVars, TmsInv, TmsTypeOK
    <2> QED
      BY <2>1, <2>2, TmsQuiet
  <1> QED
    BY <1>2, <1>3, <1>4, <1>5, <1>6, <1>7, <1>8, <1>9, <1>10, <1>11, <1>12

\* The list of a shipment is what was accepted for it, in that order, unless a
\* client's update_tracking put another list in its place or requests on the
\* shipment overlapped; and a tracking number has one record, unless two of its
\* first queries overlapped.
THEOREM TrackingHolds == TmsSpec => []TrackingIsSound
  <1>1. TmsInv => TrackingIsSound
    <2> SUFFICES ASSUME TmsInv PROVE OneTrackingRecord
      BY DEF TmsInv, TrackingIsSound
    <2>1. CASE Records \ doubled = {}
      BY <2>1, FS_EmptySet DEF OneTrackingRecord
    <2>2. CASE Records \ doubled # {}
      <3>1. PICK q : q \in Records \ doubled
        BY <2>2
      <3>2. Records \ doubled = {q}
        BY <3>1 DEF TmsInv
      <3> QED
        BY <3>2, FS_Singleton DEF OneTrackingRecord
    <2> QED
      BY <2>1, <2>2
  <1> QED
    BY <1>1, TmsInitially, TmsStep, PTL DEF TmsSpec

\* No message of the carrier and no operator reopens a shipment that was
\* returned, completed or cancelled, unless two requests on it overlapped.
THEOREM FinalStays == TmsSpec => FinalShipmentsStay
  <1>1. TmsInv /\ [TmsNext]_tmsVars =>
           [\A o \in ShipmentIds \ tmsStale' :
              shp[o].status \in {"returned", "completed", "cancelled"}
                  => shp'[o].status = shp[o].status]_tmsVars
    <2> SUFFICES ASSUME TmsInv, TmsNext, NEW o \in ShipmentIds \ tmsStale',
                        shp[o].status \in Ended
                 PROVE  shp'[o].status = shp[o].status
      BY DEF Ended
    <2>1. CASE shp' = shp
      BY <2>1
    <2>2. ASSUME NEW p \in ShipmentIds, CreateShipment(p) PROVE shp'[o].status = shp[o].status
      BY <2>2 DEF CreateShipment, Sent, NoShipment, Ended, TmsInv, TmsTypeOK
    <2>3. ASSUME NEW s \in TmsSessions, CommitShipment(s) PROVE shp'[o].status = shp[o].status
      <3>1. PICK r : r = tmsRequest[s]
        OBVIOUS
      <3>2. PICK z : z = r.on
        OBVIOUS
      <3>3. PICK x : x = shp[z]
        OBVIOUS
      <3>4. PICK y : y = shp'[z]
        OBVIOUS
      <3>8. PICK w : w = x.events \o r.said
        OBVIOUS
      <3>5. /\ z \in ShipmentIds /\ x \in ShipmentRow /\ (ShpAdds(r) \/ ShpReplaces(r) \/ ShpMoves(r))
            /\ shp' = [shp EXCEPT ![z] = y] /\ y = Flushed(x, r.read, r.set)
            /\ z \notin tmsStale' => Fresh(x, r)
        BY <2>3, <3>1, <3>2, <3>3, <3>4, ShpCommitFacts
      <3>6. CASE z = o
        <4>1. /\ x \in ShipmentRow /\ (ShpAdds(r) \/ ShpReplaces(r) \/ ShpMoves(r))
              /\ y = Flushed(x, r.read, r.set) /\ w = x.events \o r.said
          BY <3>5, <3>8
        <4>2. Fresh(x, r) /\ x.status \in Ended => y.status = x.status
          BY <4>1, ShpCommitted
        <4> QED
          BY <3>3, <3>4, <3>5, <3>6, <4>2
      <3>7. CASE z # o
        BY <3>5, <3>7 DEF TmsInv, TmsTypeOK
      <3> QED
        BY <3>6, <3>7
    <2>4. ASSUME NEW S \in SUBSET ShipmentIds, NEW t \in ShipmentStatuses, BatchUpdateStatus(S, t)
          PROVE  shp'[o].status = shp[o].status
      <3>1. ShipmentTransitions[shp[o].status] = {}
        BY DEF Ended, ShipmentTransitions
      <3> QED
        BY <2>4, <3>1 DEF BatchUpdateStatus
    <2>5. \/ shp' = shp
          \/ \E p \in ShipmentIds : CreateShipment(p)
          \/ \E s \in TmsSessions : CommitShipment(s)
          \/ \E S \in SUBSET ShipmentIds, t \in ShipmentStatuses : BatchUpdateStatus(S, t)
      BY DEF TmsNext, ShipmentNext, CarrierNext, LoadShipment, TmsRollback, CreateBatch,
             UpdateBatchStatus, UpdateConnector, CreateDispatch, CancelDispatch,
             LoadTracking, CommitTracking
    <2> QED
      BY <2>1, <2>2, <2>3, <2>4, <2>5
  <1> QED
    BY <1>1, TmsInitially, TmsStep, PTL DEF TmsSpec, FinalShipmentsStay

-----------------------------------------------------------------------------
(* Financial documents *)

FinRow == [kind : Kinds, status : FinStatuses, x : FinInput, y : FinInput, derived : Int]

\* The statuses only an approved or issued document has.
Clearing == {"approved", "issued", "overdue", "paid"}

\* What every service's table agrees on, for the rows of one database table.
FinStep(table, u, t) ==
    /\ u \in Closed(table) => t = u
    /\ t \in Clearing => t \in {"approved", "issued"} \/ u \in Clearing

MovesStatus(c, kind) ==
    \E u, t \in FinStatuses :
        c.read = [status |-> u] /\ c.set = [status |-> t] /\ FinStep(TableOf(kind), u, t)

SetsFigures(c, kind) ==
    \E x, y, v, w \in FinInput, z \in Int :
        /\ c.read = [x |-> v, y |-> w, derived |-> z]
        /\ c.set = [x |-> x, y |-> y, derived |-> Derived(kind, x, y)]

FinRequestOK(r) ==
    /\ r.doc \in Docs /\ doc[r.doc] # NoDoc
    /\ (MovesStatus(r, doc[r.doc].kind) \/ SetsFigures(r, doc[r.doc].kind))

\* Approved documents are recorded as cleared, and computed ones exist.
FinInv ==
    /\ doc \in [Docs -> FinRow \cup {NoDoc}]
    /\ computed \subseteq Docs /\ cleared \subseteq Docs /\ finStale \subseteq Docs
    /\ \A d \in computed : doc[d] # NoDoc
    /\ DOMAIN finRequest = FinSessions /\ finRequest = [s \in FinSessions |-> finRequest[s]]
    /\ \A s \in FinSessions : finRequest[s] # NoFinRequest => FinRequestOK(finRequest[s])
    /\ \A d \in Docs \ finStale : doc[d].status \in Clearing => d \in cleared
    /\ FiguresAgree

LEMMA FinFigures ==
    ASSUME NEW kind, NEW x \in FinInput, NEW y \in FinInput
    PROVE  /\ x \in Int /\ y \in Int /\ Derived(kind, x, y) \in Int /\ x * y \in Int
           /\ 1 \in FinInput
  <1>1. x \in Int /\ y \in Int /\ 1 \in FinInput
    BY FinAssumption DEF FinInput
  <1>2. x * y \in Int /\ x - y \in Int
    BY <1>1
  <1> QED
    BY <1>1, <1>2 DEF Derived, CalculateAmountCny, CalculateNetAmount

\* A kind's statuses are those its lifecycle lists.
LEMMA FinStatusOf ==
    ASSUME NEW k \in Kinds, NEW u \in DOMAIN Lifecycle(k)
    PROVE  u \in FinStatuses /\ Lifecycle(k)[u] \subseteq FinStatuses
  <1>1. StatusesOf(Lifecycle(k)) \subseteq FinStatuses
    BY DEF FinStatuses
  <1>2. u \in StatusesOf(Lifecycle(k)) /\ Lifecycle(k)[u] \subseteq StatusesOf(Lifecycle(k))
    BY DEF StatusesOf
  <1> QED
    BY <1>1, <1>2

LEMMA FirstStatuses == {"pending", "draft", "confirmed", "reconciled", "approved"} \subseteq FinStatuses
  <1>1. "draft" \in FinStatuses /\ "confirmed" \in FinStatuses
    BY FinStatusOf DEF Kinds, Lifecycle, CostEventTransitions
  <1>2. "pending" \in DOMAIN Lifecycle("platform_bill")
        /\ "reconciled" \in Lifecycle("platform_bill")["pending"]
    BY DEF Kinds, Lifecycle, PlatformBillTransitions
  <1>3. "pending" \in DOMAIN Lifecycle("writeoff")
        /\ "approved" \in Lifecycle("writeoff")["pending"]
    BY DEF Kinds, Lifecycle, WriteOffTransitions
  <1>4. "platform_bill" \in Kinds /\ "writeoff" \in Kinds
    BY DEF Kinds
  <1> QED
    BY <1>1, <1>2, <1>3, <1>4, FinStatusOf

LEMMA MovesAlong ==
    ASSUME NEW r \in FinRow, NEW k \in Kinds, NEW targets,
           \A u \in DOMAIN Lifecycle(k) : \A t \in Lifecycle(k)[u] \cap targets :
               FinStep(TableOf(r.kind), u, t),
           NEW c \in Moves(r, Lifecycle(k), targets)
    PROVE  MovesStatus(c, r.kind)
  <1>1. PICK t \in After(Lifecycle(k), r.status) \cap targets :
           c = [read |-> [status |-> r.status], set |-> [status |-> t]]
    BY DEF Moves
  <1>2. r.status \in DOMAIN Lifecycle(k) /\ t \in Lifecycle(k)[r.status] \cap targets
    BY <1>1 DEF After
  <1>3. t \in FinStatuses /\ r.status \in FinStatuses
    BY <1>2, FinStatusOf
  <1> QED
    BY <1>1, <1>2, <1>3 DEF MovesStatus

LEMMA FiguresUpdated ==
    ASSUME NEW r \in FinRow, NEW c \in UpdateFigures(r)
    PROVE  SetsFigures(c, r.kind)
  <1>1. PICK x \in FinInput, y \in FinInput :
           /\ c.read = [x |-> r.x, y |-> r.y, derived |-> r.derived]
           /\ c.set = [x |-> x, y |-> y, derived |-> Derived(r.kind, x, y)]
    BY DEF UpdateFigures
  <1>2. r.x \in FinInput /\ r.y \in FinInput /\ r.derived \in Int
    BY DEF FinRow
  <1> QED
    BY <1>1, <1>2 DEF SetsFigures

\* The services that find the row by its id: each respects what all agree on.
LEMMA FinHandlers ==
    ASSUME NEW r \in FinRow, NEW c \in FinHandled(r)
    PROVE  MovesStatus(c, r.kind) \/ SetsFigures(c, r.kind)
  <1>1. r.kind \in Kinds
    BY DEF FinRow
  <1>2. CASE TableOf(r.kind) = "cost_event"
    <2>1. \/ c \in CostEventUpdateStatus(r) \/ c \in WriteOffMoves(r) \/ c \in ReconciliationMoves(r)
          \/ c \in InvoiceMoves(r) \/ c \in ExpenseMoves(r) \/ c \in ForexMoves(r)
          \/ c \in PlatformBillMoves(r) \/ c \in UpdateFigures(r)
      BY <1>2 DEF FinHandled
    <2>2. Closed(TableOf(r.kind)) = {"settled", "cancelled", "rejected", "completed",
                                     "reconciled", "paid", "voided"}
      BY <1>2 DEF Closed
    <2> USE DEF FinStep, Lifecycle, Kinds, Clearing
    <2>3. CASE c \in CostEventUpdateStatus(r)
      BY <2>2, <2>3, MovesAlong, Lifecycle("cost_event") = CostEventTransitions
         DEF CostEventUpdateStatus, CostEventTransitions
    <2>4. CASE c \in WriteOffMoves(r)
      BY <2>2, <2>4, MovesAlong, Lifecycle("writeoff") = WriteOffTransitions
         DEF WriteOffMoves, WriteOffTransitions
    <2>5. CASE c \in ReconciliationMoves(r)
      BY <2>2, <2>5, MovesAlong, Lifecycle("reconciliation") = ReconciliationTransitions
         DEF ReconciliationMoves, ReconciliationTransitions
    <2>6. CASE c \in InvoiceMoves(r)
      BY <2>2, <2>6, MovesAlong, Lifecycle("invoice") = InvoiceTransitions
         DEF InvoiceMoves, InvoiceTransitions
    <2>7. CASE c \in ExpenseMoves(r)
      BY <2>2, <2>7, MovesAlong, Lifecycle("expense") = ExpenseTransitions
         DEF ExpenseMoves, ExpenseTransitions
    <2>8. CASE c \in ForexMoves(r)
      BY <2>2, <2>8, MovesAlong, Lifecycle("forex") = ForexTransitions
         DEF ForexMoves, ForexTransitions
    <2>9. CASE c \in PlatformBillMoves(r)
      BY <2>2, <2>9, MovesAlong, Lifecycle("platform_bill") = PlatformBillTransitions
         DEF PlatformBillMoves, PlatformBillTransitions
    <2>10. CASE c \in UpdateFigures(r)
      BY <2>10, FiguresUpdated
    <2> QED
      BY <2>1, <2>3, <2>4, <2>5, <2>6, <2>7, <2>8, <2>9, <2>10
  <1>3. CASE TableOf(r.kind) = "platform_settlement"
    <2>1. c \in SettlementUpdateStatus(r) \/ c \in ReconcileSettlement(r) \/ c \in UpdateFigures(r)
      BY <1>3 DEF FinHandled
    <2>2. Closed(TableOf(r.kind)) = {"settled", "cancelled", "reconciled"}
      BY <1>3 DEF Closed
    <2>3. CASE c \in SettlementUpdateStatus(r)
      BY <2>2, <2>3, MovesAlong, Lifecycle("settlement") = SettlementTransitions
         DEF SettlementUpdateStatus, SettlementTransitions, FinStep, Lifecycle, Kinds, Clearing
    <2>4. CASE c \in ReconcileSettlement(r)
      <3>1. c = [read |-> [status |-> "pending"], set |-> [status |-> "reconciled"]]
        BY <2>4 DEF ReconcileSettlement
      <3> QED
        BY <2>2, <3>1, FirstStatuses DEF MovesStatus, FinStep, Clearing
    <2>5. CASE c \in UpdateFigures(r)
      BY <2>5, FiguresUpdated
    <2> QED
      BY <2>1, <2>3, <2>4, <2>5
  <1>4. CASE TableOf(r.kind) = "payment_record"
    <2>1. c \in PaymentUpdateStatus(r) \/ c \in PaymentRequestApprove(r) \/ c \in PaymentRequestReject(r)
      BY <1>4 DEF FinHandled
    <2>2. Closed(TableOf(r.kind)) = {"completed", "cancelled", "approved", "rejected"}
      BY <1>4 DEF Closed
    <2>3. CASE c \in PaymentUpdateStatus(r)
      BY <2>2, <2>3, MovesAlong, Lifecycle("payment") = PaymentTransitions
         DEF PaymentUpdateStatus, PaymentTransitions, FinStep, Lifecycle, Kinds, Clearing
    <2>4. CASE c \in PaymentRequestReject(r)
      BY <2>2, <2>4, MovesAlong, Lifecycle("payment_request") = PaymentRequestTransitions
         DEF PaymentRequestReject, PaymentRequestTransitions, FinStep, Lifecycle, Kinds, Clearing
    <2>5. CASE c \in PaymentRequestApprove(r)
      <3>1. PICK t \in {"approved", "pending"} :
               c = [read |-> [status |-> "pending"], set |-> [status |-> t]]
        <4>1. PICK level \in {l \in 0..2 : r.status = "pending" /\ CanApprove({}, l)}, levels \in 0..2 :
                 c = [read |-> [status |-> r.status],
                      set |-> [status |-> IF IsFullyApproved({level}, levels) THEN "approved"
                                          ELSE r.status]]
          BY <2>5 DEF PaymentRequestApprove
        <4> QED
          BY <4>1
      <3> QED
        BY <2>2, <3>1, FirstStatuses DEF MovesStatus, FinStep, Clearing
    <2> QED
      BY <2>1, <2>3, <2>4, <2>5
  <1>5. TableOf(r.kind) \in {"cost_event", "platform_settlement", "payment_record"}
    BY DEF TableOf
  <1> QED
    BY <1>2, <1>3, <1>4, <1>5

\* What the commit of a request makes of the row x of its document.
LEMMA FinFlushed ==
    ASSUME NEW x \in FinRow, NEW r, MovesStatus(r, x.kind) \/ SetsFigures(r, x.kind),
           NEW y, y = Flushed(x, r.read, r.set)
    PROVE  /\ y \in FinRow /\ y.kind = x.kind
           /\ "derived" \notin DOMAIN r.set => y.x = x.x /\ y.y = x.y /\ y.derived = x.derived
           /\ (\A c \in DOMAIN r.read : x[c] = r.read[c]) =>
                 /\ "derived" \in DOMAIN r.set => y.derived = Derived(y.kind, y.x, y.y)
                 /\ FinStep(TableOf(x.kind), x.status, y.status)
  <1>1. /\ x = [c \in DOMAIN x |-> x[c]] /\ DOMAIN x = {"kind", "status", "x", "y", "derived"}
        /\ x.kind \in Kinds /\ x.status \in FinStatuses /\ x.x \in FinInput /\ x.y \in FinInput
        /\ x.derived \in Int
    BY DEF FinRow
  <1>2. CASE MovesStatus(r, x.kind)
    <2>1. PICK u \in FinStatuses, t \in FinStatuses :
             r.read = [status |-> u] /\ r.set = [status |-> t] /\ FinStep(TableOf(x.kind), u, t)
      BY <1>2 DEF MovesStatus
    <2>2. y = [x EXCEPT !.status = IF t # u THEN t ELSE @]
      BY <1>1, <2>1 DEF Flushed
    <2>3. /\ y \in FinRow /\ y.kind = x.kind /\ y.x = x.x /\ y.y = x.y /\ y.derived = x.derived
          /\ y.status = IF t # u THEN t ELSE x.status
      BY <1>1, <2>2 DEF FinRow
    <2>4. (\A c \in DOMAIN r.read : x[c] = r.read[c]) => x.status = u
      BY <2>1
    <2>5. "derived" \notin DOMAIN r.set
      BY <2>1
    <2> QED
      BY <2>1, <2>3, <2>4, <2>5
  <1>3. CASE SetsFigures(r, x.kind)
    <2>1. PICK a \in FinInput, b \in FinInput, v \in FinInput, w \in FinInput, z \in Int :
             /\ r.read = [x |-> v, y |-> w, derived |-> z]
             /\ r.set = [x |-> a, y |-> b, derived |-> Derived(x.kind, a, b)]
      BY <1>3 DEF SetsFigures
    <2>2. PICK d \in Int : d = Derived(x.kind, a, b)
      BY FinFigures
    <2>3. y = [kind |-> x.kind, status |-> x.status, x |-> IF a # v THEN a ELSE x.x,
               y |-> IF b # w THEN b ELSE x.y, derived |-> IF d # z THEN d ELSE x.derived]
      BY <1>1, <2>1, <2>2 DEF Flushed
    <2>4. y \in FinRow /\ y.kind = x.kind /\ y.status = x.status
      BY <1>1, <2>3 DEF FinRow
    <2>5. "derived" \in DOMAIN r.set
      BY <2>1
    <2>6. ASSUME \A c \in DOMAIN r.read : x[c] = r.read[c]
          PROVE  y.derived = Derived(y.kind, y.x, y.y)
      <3>1. x.x = v /\ x.y = w /\ x.derived = z
        BY <2>1, <2>6
      <3>2. y.x = a /\ y.y = b /\ y.derived = d
        BY <2>3, <3>1
      <3> QED
        BY <2>2, <2>4, <3>2
    <2>7. FinStep(TableOf(x.kind), x.status, y.status)
      BY <2>4 DEF FinStep
    <2> QED
      BY <2>4, <2>5, <2>6, <2>7
  <1> QED
    BY <1>2, <1>3

LEMMA FinInitially == FinInit => FinInv
  BY DEF FinInit, FinInv, FiguresAgree, NoDoc, Clearing

\* What is in flight stays what it is: the kind of a row never changes.
LEMMA FinInFlight ==
    ASSUME FinInv, NEW z \in FinSessions, NEW v,
           finRequest' = [finRequest EXCEPT ![z] = v], v # NoFinRequest => FinRequestOK(v),
           \A d \in Docs : doc[d] # NoDoc => doc'[d] # NoDoc /\ doc'[d].kind = doc[d].kind
    PROVE  /\ DOMAIN finRequest' = FinSessions /\ finRequest' = [s \in FinSessions |-> finRequest'[s]]
           /\ \A s \in FinSessions : finRequest'[s] # NoFinRequest => FinRequestOK(finRequest[s])'
  <1>1. /\ DOMAIN finRequest' = FinSessions /\ finRequest' = [s \in FinSessions |-> finRequest'[s]]
        /\ \A s \in FinSessions : finRequest'[s] = IF s = z THEN v ELSE finRequest[s]
    BY DEF FinInv
  <1>2. SUFFICES ASSUME NEW s \in FinSessions, finRequest'[s] # NoFinRequest
                 PROVE  FinRequestOK(finRequest[s])'
    BY <1>1
  <1>3. PICK r : r = finRequest'[s]
    OBVIOUS
  <1>4. FinRequestOK(r)
    BY <1>1, <1>2, <1>3 DEF FinInv
  <1>5. PICK k : k = doc'[r.doc].kind
    OBVIOUS
  <1>6. r.doc \in Docs /\ doc'[r.doc] # NoDoc /\ (MovesStatus(r, k) \/ SetsFigures(r, k))
    BY <1>4, <1>5 DEF FinRequestOK
  <1>7. MovesStatus(r, k) => MovesStatus(finRequest[s], doc[finRequest[s].doc].kind)'
    BY <1>3, <1>5 DEF MovesStatus
  <1>8. ASSUME SetsFigures(r, k) PROVE SetsFigures(finRequest[s], doc[finRequest[s].doc].kind)'
    <2>1. PICK x \in FinInput, y \in FinInput, u \in FinInput, w \in FinInput, n \in Int :
             /\ r.read = [x |-> u, y |-> w, derived |-> n]
             /\ r.set = [x |-> x, y |-> y, derived |-> Derived(k, x, y)]
      BY <1>8 DEF SetsFigures
    <2>2. Derived(doc[finRequest[s].doc].kind, x, y)' = Derived(k, x, y)
      BY <1>3, <1>5 DEF Derived
    <2> QED
      BY <1>3, <2>1, <2>2 DEF SetsFigures
  <1> QED
    BY <1>3, <1>6, <1>7, <1>8 DEF FinRequestOK

\* A new document, with whatever its kind is created with.
LEMMA FinCreate ==
    ASSUME FinInv, NEW d \in Docs, doc[d] = NoDoc, NEW row \in FinRow,
           row.status \notin Clearing, doc' = [doc EXCEPT ![d] = row],
           \/ computed' = computed
           \/ computed' = computed \cup {d} /\ row.derived = Derived(row.kind, row.x, row.y),
           UNCHANGED <<cleared, finRequest, finStale>>
    PROVE  FinInv'
  <1>1. row # NoDoc
    <2>1. row.kind \in Kinds
      BY DEF FinRow
    <2>2. "none" \notin Kinds
      BY DEF Kinds
    <2> QED
      BY <2>1, <2>2 DEF NoDoc
  <1>2. doc' \in [Docs -> FinRow \cup {NoDoc}] /\ doc'[d] = row
        /\ \A e \in Docs : e # d => doc'[e] = doc[e]
    BY DEF FinInv
  <1>3. \A e \in computed' : doc'[e] # NoDoc
    BY <1>1, <1>2 DEF FinInv
  <1>4. \A e \in Docs \ finStale' : doc'[e].status \in Clearing => e \in cleared'
    BY <1>2 DEF FinInv
  <1>5. FiguresAgree'
    <2> SUFFICES ASSUME NEW e \in computed' \ finStale'
                 PROVE  doc'[e].derived = Derived(doc'[e].kind, doc'[e].x, doc'[e].y)
      BY DEF FiguresAgree
    <2>1. d \notin computed
      BY DEF FinInv
    <2>2. CASE e = d
      BY <1>2, <2>1, <2>2
    <2>3. CASE e # d
      <3>1. e \in computed \ finStale
        BY <2>3
      <3> QED
        BY <1>2, <2>3, <3>1 DEF FinInv, FiguresAgree
    <2> QED
      BY <2>2, <2>3
  <1>6. \A s \in FinSessions : finRequest'[s] # NoFinRequest => FinRequestOK(finRequest[s])'
    <2> SUFFICES ASSUME NEW s \in FinSessions, finRequest'[s] # NoFinRequest
                 PROVE  FinRequestOK(finRequest[s])'
      OBVIOUS
    <2>1. finRequest' = [finRequest EXCEPT ![s] = finRequest[s]]
      BY DEF FinInv
    <2>2. finRequest[s] # NoFinRequest => FinRequestOK(finRequest[s])
      BY DEF FinInv
    <2>3. \A e \in Docs : doc[e] # NoDoc => doc'[e] # NoDoc /\ doc'[e].kind = doc[e].kind
      BY <1>2
    <2> QED
      BY <2>1, <2>2, <2>3, FinInFlight
  <1> QED
    BY <1>2, <1>3, <1>4, <1>5, <1>6 DEF FinInv

\* A commit of request r turns the row x of document d into y.
FinCommits(r, d, x, y) ==
    /\ d \in Docs /\ x \in FinRow /\ (MovesStatus(r, x.kind) \/ SetsFigures(r, x.kind))
    /\ doc' = [doc EXCEPT ![d] = y] /\ y = Flushed(x, r.read, r.set)
    /\ computed' = IF "derived" \in DOMAIN r.set THEN computed \cup {d} ELSE computed
    /\ cleared' = IF y.status \in {"approved", "issued"} THEN cleared \cup {d} ELSE cleared
    /\ finStale \subseteq finStale' /\ finStale' \subseteq finStale \cup {d}
    /\ d \notin finStale' => \A c \in DOMAIN r.read : x[c] = r.read[c]

LEMMA FinCommitFacts ==
    ASSUME FinInv, NEW s \in FinSessions, CommitDoc(s),
           NEW r, r = finRequest[s], NEW d, d = r.doc, NEW x, x = doc[d], NEW y, y = doc'[d]
    PROVE  FinCommits(r, d, x, y) /\ finRequest' = [finRequest EXCEPT ![s] = NoFinRequest]
  <1>1. /\ r # NoFinRequest
        /\ doc' = [doc EXCEPT ![d] = Flushed(@, r.read, r.set)]
        /\ computed' = IF "derived" \in DOMAIN r.set THEN computed \cup {d} ELSE computed
        /\ cleared' = IF doc'[d].status \in {"approved", "issued"} THEN cleared \cup {d} ELSE cleared
        /\ finStale' = IF \A c \in DOMAIN r.read : doc[d][c] = r.read[c]
                       THEN finStale ELSE finStale \cup {d}
        /\ finRequest' = [finRequest EXCEPT ![s] = NoFinRequest]
    BY DEF CommitDoc
  <1>2. d \in Docs /\ x # NoDoc /\ (MovesStatus(r, x.kind) \/ SetsFigures(r, x.kind))
    BY <1>1 DEF FinInv, FinRequestOK
  <1>3. x \in FinRow
    BY <1>2 DEF FinInv
  <1>4. y = Flushed(x, r.read, r.set) /\ doc' = [doc EXCEPT ![d] = y]
    BY <1>1, <1>2 DEF FinInv
  <1>5. d \notin finStale' => \A c \in DOMAIN r.read : x[c] = r.read[c]
    BY <1>1
  <1> QED
    BY <1>1, <1>2, <1>3, <1>4, <1>5 DEF FinCommits

LEMMA FinCommitStep ==
    ASSUME FinInv, NEW s \in FinSessions, CommitDoc(s)
    PROVE  FinInv'
  <1>1. PICK r : r = finRequest[s]
    OBVIOUS
  <1>2. PICK d : d = r.doc
    OBVIOUS
  <1>3. PICK x : x = doc[d]
    OBVIOUS
  <1>4. PICK y : y = doc'[d]
    OBVIOUS
  <1>5. /\ d \in Docs /\ x \in FinRow /\ (MovesStatus(r, x.kind) \/ SetsFigures(r, x.kind))
        /\ doc' = [doc EXCEPT ![d] = y] /\ y = Flushed(x, r.read, r.set)
        /\ computed' = IF "derived" \in DOMAIN r.set THEN computed \cup {d} ELSE computed
        /\ cleared' = IF y.status \in {"approved", "issued"} THEN cleared \cup {d} ELSE cleared
        /\ finStale \subseteq finStale' /\ finStale' \subseteq finStale \cup {d}
        /\ d \notin finStale' => \A c \in DOMAIN r.read : x[c] = r.read[c]
        /\ finRequest' = [finRequest EXCEPT ![s] = NoFinRequest]
    <2>1. FinCommits(r, d, x, y) /\ finRequest' = [finRequest EXCEPT ![s] = NoFinRequest]
      BY <1>1, <1>2, <1>3, <1>4, FinCommitFacts, Zenon
    <2> QED
      BY <2>1 DEF FinCommits
  <1>6. /\ y \in FinRow /\ y.kind = x.kind
        /\ "derived" \notin DOMAIN r.set => y.x = x.x /\ y.y = x.y /\ y.derived = x.derived
        /\ (\A c \in DOMAIN r.read : x[c] = r.read[c]) =>
              /\ "derived" \in DOMAIN r.set => y.derived = Derived(y.kind, y.x, y.y)
              /\ FinStep(TableOf(x.kind), x.status, y.status)
    BY <1>5, FinFlushed
  <1>7. y # NoDoc /\ x # NoDoc
    <2>1. x.kind \in Kinds
      BY <1>5 DEF FinRow
    <2>2. "none" \notin Kinds
      BY DEF Kinds
    <2> QED
      BY <1>6, <2>1, <2>2 DEF NoDoc
  <1>8. doc' \in [Docs -> FinRow \cup {NoDoc}] /\ \A e \in Docs : e # d => doc'[e] = doc[e]
    BY <1>5, <1>6 DEF FinInv
  <1>9. /\ computed' \subseteq Docs /\ cleared' \subseteq Docs /\ finStale' \subseteq Docs
        /\ \A e \in computed' : doc'[e] # NoDoc
    BY <1>4, <1>5, <1>7, <1>8 DEF FinInv
  <1>10. \A e \in Docs : doc[e] # NoDoc => doc'[e] # NoDoc /\ doc'[e].kind = doc[e].kind
    BY <1>3, <1>4, <1>6, <1>7, <1>8
  <1>11. /\ DOMAIN finRequest' = FinSessions /\ finRequest' = [t \in FinSessions |-> finRequest'[t]]
         /\ \A t \in FinSessions : finRequest'[t] # NoFinRequest => FinRequestOK(finRequest[t])'
    BY <1>5, <1>10, FinInFlight
  <1>12. \A e \in Docs \ finStale' : doc'[e].status \in Clearing => e \in cleared'
    <2> SUFFICES ASSUME NEW e \in Docs \ finStale', doc'[e].status \in Clearing
                 PROVE  e \in cleared'
      OBVIOUS
    <2>1. e \in Docs \ finStale
      BY <1>5
    <2>2. CASE e # d
      BY <1>5, <1>8, <2>1, <2>2 DEF FinInv
    <2>3. CASE e = d
      <3>1. FinStep(TableOf(x.kind), x.status, y.status) /\ y.status \in Clearing
        BY <1>4, <1>5, <1>6, <2>3
      <3>2. CASE y.status \in {"approved", "issued"}
        BY <1>5, <2>3, <3>2
      <3>3. CASE x.status \in Clearing
        BY <1>3, <1>5, <2>1, <2>3, <3>3 DEF FinInv
      <3> QED
        BY <3>1, <3>2, <3>3 DEF FinStep
    <2> QED
      BY <2>2, <2>3
  <1>13. FiguresAgree'
    <2> SUFFICES ASSUME NEW e \in computed' \ finStale'
                 PROVE  doc'[e].derived = Derived(doc'[e].kind, doc'[e].x, doc'[e].y)
      BY DEF FiguresAgree
    <2>1. e \in Docs \ finStale
      BY <1>5, <1>9
    <2>2. CASE e # d
      <3>1. e \in computed \ finStale
        BY <1>5, <2>1, <2>2
      <3> QED
        BY <1>8, <2>1, <2>2, <3>1 DEF FinInv, FiguresAgree
    <2>3. CASE e = d
      <3>1. CASE "derived" \in DOMAIN r.set
        BY <1>4, <1>5, <1>6, <2>3, <3>1
      <3>2. CASE "derived" \notin DOMAIN r.set
        <4>1. d \in computed \ finStale
          BY <1>5, <2>1, <2>3, <3>2
        <4>2. x.derived = Derived(x.kind, x.x, x.y)
          BY <1>3, <4>1 DEF FinInv, FiguresAgree
        <4> QED
          BY <1>4, <1>6, <2>3, <3>2, <4>2
      <3> QED
        BY <3>1, <3>2
    <2> QED
      BY <2>2, <2>3
  <1> QED
    BY <1>8, <1>9, <1>11, <1>12, <1>13 DEF FinInv

LEMMA FinInserts ==
    ASSUME FinInv, NEW d \in Docs, NEW kind \in Kinds, NEW status \in {"pending", "draft", "confirmed"},
           NEW x \in FinInput, NEW y \in FinInput, NEW z \in Int, InsertDoc(d, kind, status, x, y, z)
    PROVE  FinInv'
  <1>1. PICK row : row = [kind |-> kind, status |-> status, x |-> x, y |-> y, derived |-> z]
    OBVIOUS
  <1>2. row \in FinRow /\ row.status \notin Clearing
    BY <1>1, FirstStatuses DEF FinRow, Clearing
  <1> QED
    BY <1>1, <1>2, FinCreate DEF InsertDoc

LEMMA FinStepHolds == FinInv /\ [FinNext]_finVars => FinInv'
  <1> SUFFICES ASSUME FinInv, [FinNext]_finVars PROVE FinInv'
    OBVIOUS
  <1>0. 0 \in Int /\ 1 \in FinInput /\ 0..MaxFigure \subseteq Int
    BY FinAssumption DEF FinInput
  <1> USE DEF FinNext
  <1>1. ASSUME NEW d \in Docs, CreateCostEvent(d) PROVE FinInv'
    <2>1. PICK a \in FinInput, b \in FinInput :
             /\ doc[d] = NoDoc
             /\ doc' = [doc EXCEPT ![d] = [kind |-> "cost_event", status |-> "confirmed",
                   x |-> a, y |-> b, derived |-> CalculateAmountCny(a, b)]]
             /\ computed' = computed \cup {d}
             /\ UNCHANGED <<cleared, finRequest, finStale>>
      BY <1>1 DEF CreateCostEvent
    <2>2. PICK n \in Int : n = CalculateAmountCny(a, b)
      BY FinFigures DEF CalculateAmountCny
    <2>3. PICK row : row = [kind |-> "cost_event", status |-> "confirmed", x |-> a, y |-> b, derived |-> n]
      OBVIOUS
    <2>4. row \in FinRow /\ row.status \notin Clearing
      BY <2>3, FirstStatuses DEF FinRow, Clearing, Kinds
    <2>5. row.derived = Derived(row.kind, row.x, row.y)
      BY <2>2, <2>3 DEF Derived, TableOf
    <2> QED
      BY <2>1, <2>2, <2>3, <2>4, <2>5, FinCreate
  <1>2. ASSUME NEW d \in Docs, CreateWriteOff(d) PROVE FinInv'
    BY <1>0, <1>2, FinInserts DEF CreateWriteOff, Kinds
  <1>3. ASSUME NEW d \in Docs, CreateReconciliation(d) PROVE FinInv'
    BY <1>0, <1>3, FinInserts DEF CreateReconciliation, Kinds
  <1>4. ASSUME NEW d \in Docs, CreateInvoice(d) PROVE FinInv'
    BY <1>0, <1>4, FinInserts DEF CreateInvoice, Kinds
  <1>5. ASSUME NEW d \in Docs, CreateExpense(d) PROVE FinInv'
    BY <1>0, <1>5, FinInserts DEF CreateExpense, Kinds
  <1>6. ASSUME NEW d \in Docs, CreateForex(d) PROVE FinInv'
    <2>1. PICK a \in FinInput, b \in FinInput, toCny \in BOOLEAN :
             InsertDoc(d, "forex", "pending", a, b, IF toCny THEN a * b ELSE 0)
      BY <1>6 DEF CreateForex
    <2>2. PICK n \in Int : n = IF toCny THEN a * b ELSE 0
      BY <1>0, FinFigures
    <2> QED
      BY <2>1, <2>2, FinInserts DEF Kinds
  <1>7. ASSUME NEW d \in Docs, CreatePlatformBill(d) PROVE FinInv'
    BY <1>0, <1>7, FinInserts DEF CreatePlatformBill, Kinds
  <1>8. ASSUME NEW d \in Docs, CreateJournalEntry(d) PROVE FinInv'
    BY <1>0, <1>8, FinInserts DEF CreateJournalEntry, Kinds
  <1>9. ASSUME NEW d \in Docs, CreateSettlement(d) PROVE FinInv'
    <2>1. PICK a \in FinInput, b \in FinInput, n \in 0..MaxFigure :
             InsertDoc(d, "settlement", "pending", a, b, n)
      BY <1>9 DEF CreateSettlement
    <2> QED
      BY <1>0, <2>1, FinInserts DEF Kinds
  <1>10. ASSUME NEW d \in Docs, CreatePayment(d) PROVE FinInv'
    BY <1>0, <1>10, FinInserts DEF CreatePayment, Kinds
  <1>11. ASSUME NEW d \in Docs, CreatePaymentRequest(d) PROVE FinInv'
    BY <1>0, <1>11, FinInserts DEF CreatePaymentRequest, Kinds
  <1>12. ASSUME NEW s \in FinSessions, NEW v, v # NoFinRequest => FinRequestOK(v),
                finRequest' = [finRequest EXCEPT ![s] = v],
                UNCHANGED <<doc, computed, cleared, finStale>>
         PROVE  FinInv'
    <2>1. /\ DOMAIN finRequest' = FinSessions /\ finRequest' = [t \in FinSessions |-> finRequest'[t]]
          /\ \A t \in FinSessions : finRequest'[t] # NoFinRequest => FinRequestOK(finRequest[t])'
      BY <1>12, FinInFlight
    <2>2. FiguresAgree'
      BY <1>12 DEF FinInv, FiguresAgree
    <2> QED
      BY <1>12, <2>1, <2>2 DEF FinInv
  <1>13. ASSUME NEW s \in FinSessions, NEW d \in Docs, LoadDoc(s, d) PROVE FinInv'
    <2>1. PICK c \in FinHandled(doc[d]) :
             finRequest' = [finRequest EXCEPT ![s] = [doc |-> d, read |-> c.read, set |-> c.set]]
      BY <1>13 DEF LoadDoc
    <2>2. doc[d] # NoDoc /\ doc[d] \in FinRow
      BY <1>13 DEF LoadDoc, FinInv
    <2>3. PICK k : k = doc[d].kind
      OBVIOUS
    <2>4. MovesStatus(c, k) \/ SetsFigures(c, k)
      BY <2>1, <2>2, <2>3, FinHandlers
    <2>5. PICK v : v = [doc |-> d, read |-> c.read, set |-> c.set]
      OBVIOUS
    <2>6. v.doc = d /\ v.read = c.read /\ v.set = c.set
      BY <2>5
    <2>7. MovesStatus(c, k) => MovesStatus(v, k)
      BY <2>6 DEF MovesStatus
    <2>8. SetsFigures(c, k) => SetsFigures(v, k)
      BY <2>6 DEF SetsFigures
    <2>9. FinRequestOK(v)
      BY <2>2, <2>3, <2>4, <2>6, <2>7, <2>8 DEF FinRequestOK
    <2> QED
      BY <1>12, <1>13, <2>1, <2>5, <2>9 DEF LoadDoc
  <1>14. ASSUME NEW s \in FinSessions, CommitDoc(s) PROVE FinInv'
    BY <1>14, FinCommitStep
  <1>15. ASSUME NEW s \in FinSessions, RollbackDoc(s) PROVE FinInv'
    BY <1>12, <1>15 DEF RollbackDoc
  <1>16. CASE UNCHANGED finVars
    <2>1. UNCHANGED <<doc, computed, cleared, finRequest, finStale>>
      BY <1>16 DEF finVars
    <2>2. \A s \in FinSessions : finRequest'[s] # NoFinRequest => FinRequestOK(finRequest[s])'
      <3> SUFFICES ASSUME NEW s \in FinSessions, finRequest'[s] # NoFinRequest
                   PROVE  FinRequestOK(finRequest[s])'
        OBVIOUS
      <3>1. finRequest' = [finRequest EXCEPT ![s] = finRequest[s]]
        BY <2>1 DEF FinInv
      <3>2. finRequest[s] # NoFinRequest => FinRequestOK(finRequest[s])
        BY DEF FinInv
      <3> QED
        BY <2>1, <3>1, <3>2, FinInFlight
    <2>3. FiguresAgree'
      BY <2>1 DEF FinInv, FiguresAgree
    <2> QED
      BY <2>1, <2>2, <2>3 DEF FinInv
  <1> QED
    BY <1>1, <1>2, <1>3, <1>4, <1>5, <1>6, <1>7, <1>8, <1>9, <1>10, <1>11, <1>13, <1>14, <1>15, <1>16

\* Whatever services its row goes through, a document is paid only after it was
\* approved or issued, and its derived amount, once computed, is that of its
\* columns, unless overlapping requests overwrote it.
THEOREM FinanceHolds == FinSpec => []FinanceIsSound
  <1>1. FinInv => FinanceIsSound
    <2> SUFFICES ASSUME FinInv PROVE FinanceIsSound
      OBVIOUS
    <2>1. FinTypeOK
      BY DEF FinInv, FinTypeOK, FinRow, FinRequestOK
    <2>2. PaidWasCleared
      BY DEF FinInv, PaidWasCleared, Clearing
    <2> QED
      BY <2>1, <2>2 DEF FinInv, FinanceIsSound
  <1> QED
    BY <1>1, FinInitially, FinStepHolds, PTL DEF FinSpec

\* No service reopens a closed document, of whichever kind the service takes it
\* to be, unless two requests on it overlapped.
THEOREM ClosedStays == FinSpec => ClosedStaysClosed
  <1>1. FinInv /\ [FinNext]_finVars =>
           [\A d \in Docs \ finStale' :
              doc[d] # NoDoc /\ doc[d].status \in Closed(TableOf(doc[d].kind))
              => doc'[d].status = doc[d].status]_finVars
    <2> SUFFICES ASSUME FinInv, FinNext, NEW e \in Docs \ finStale',
                        doc[e] # NoDoc, doc[e].status \in Closed(TableOf(doc[e].kind))
                 PROVE  doc'[e].status = doc[e].status
      OBVIOUS
    <2>1. CASE doc' = doc
      BY <2>1
    <2>2. ASSUME NEW d \in Docs, NEW row, doc[d] = NoDoc, doc' = [doc EXCEPT ![d] = row]
          PROVE  doc'[e].status = doc[e].status
      BY <2>2 DEF FinInv
    <2>3. ASSUME NEW s \in FinSessions, CommitDoc(s) PROVE doc'[e].status = doc[e].status
      <3>1. PICK r : r = finRequest[s]
        OBVIOUS
      <3>2. PICK d : d = r.doc
        OBVIOUS
      <3>3. PICK x : x = doc[d]
        OBVIOUS
      <3>4. PICK y : y = doc'[d]
        OBVIOUS
      <3>5. /\ d \in Docs /\ x \in FinRow /\ (MovesStatus(r, x.kind) \/ SetsFigures(r, x.kind))
            /\ doc' = [doc EXCEPT ![d] = y] /\ y = Flushed(x, r.read, r.set)
            /\ d \notin finStale' => \A c \in DOMAIN r.read : x[c] = r.read[c]
        <4>1. FinCommits(r, d, x, y)
          BY <2>3, <3>1, <3>2, <3>3, <3>4, FinCommitFacts, Zenon
        <4> QED
          BY <4>1 DEF FinCommits
      <3>6. CASE d = e
        <4>1. FinStep(TableOf(x.kind), x.status, y.status)
          BY <3>5, <3>6, FinFlushed
        <4> QED
          BY <3>3, <3>4, <3>6, <4>1 DEF FinStep
      <3>7. CASE d # e
        BY <3>5, <3>7 DEF FinInv
      <3> QED
        BY <3>6, <3>7
    <2>4. \/ doc' = doc
          \/ \E d \in Docs : \E row : doc[d] = NoDoc /\ doc' = [doc EXCEPT ![d] = row]
          \/ \E s \in FinSessions : CommitDoc(s)
      BY DEF FinNext, CreateCostEvent, CreateWriteOff, CreateReconciliation, CreateInvoice,
             CreateExpense, CreateForex, CreatePlatformBill, CreateJournalEntry,
             CreateSettlement, CreatePayment, CreatePaymentRequest, InsertDoc, LoadDoc, RollbackDoc
    <2> QED
      BY <2>1, <2>2, <2>3, <2>4
  <1> QED
    BY <1>1, FinInitially, FinStepHolds, PTL DEF FinSpec, ClosedStaysClosed

-----------------------------------------------------------------------------
(* All documents together *)

\* What was decided in purchasing, sourcing, sales, shipping or the books stands.
THEOREM TradeDecisionsHold ==
    PoSpec /\ SrcSpec /\ OmsSpec /\ TmsSpec /\ FinSpec => DecisionsStand
  BY TotalsStay, QuotesStay, FinalOrdersHold, FinalStays, ClosedStays DEF DecisionsStand
=============================================================================
