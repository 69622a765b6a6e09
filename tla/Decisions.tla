------------------------------ MODULE Decisions ------------------------------
(***************************************************************************)
(* What services decide by rules that users configure or by fixed          *)
(* thresholds, and the statistics they decide on, as functions of what     *)
(* they look at.  Rules are given as what they find, not as their text.    *)
(***************************************************************************)
EXTENDS Assessments

-----------------------------------------------------------------------------
(* Strategies with conditions (orders and logistics) *)

\* context is a function of the fields that are known; a field that is not
\* known differs from everything and compares with nothing.
Holds(c, context) ==
    IF c.field \notin DOMAIN context THEN c.op = "ne"
    ELSE LET v == context[c.field] IN
         CASE c.op \in {"eq", "in"} -> v \in c.value
           [] c.op = "ne" -> v \notin c.value
           [] c.op = "gt" -> \A n \in c.value : v > n
           [] c.op = "gte" -> \A n \in c.value : v >= n
           [] c.op = "lt" -> \A n \in c.value : v < n
           [] c.op = "lte" -> \A n \in c.value : v <= n

MatchCondition(condition, context) == \A c \in condition : Holds(c, context)

\* 0: no limit.
InForce(s, now) == (s.from = 0 \/ s.from <= now) /\ (s.to = 0 \/ now <= s.to)

EvaluateStrategies(strategies, type, now, context) ==
    SortSeq(SelectSeq(strategies, LAMBDA s : /\ s.active /\ s.type = type /\ InForce(s, now)
                                             /\ MatchCondition(s.condition, context)),
            LAMBDA s, t : s.priority > t.priority)

-----------------------------------------------------------------------------
(* What an AI may execute, and what the PMS may see *)

\* What was executed today counts as nothing: the filter of the query is the
\* Python value of `not column`, which is False.
CheckExecutionAllowed(p, amount, operation, ip, hour) ==
    /\ p.enabled
    /\ p.exists =>
           /\ p.single = 0 \/ amount <= p.single
           /\ p.daily = 0 \/ amount <= p.daily
           /\ p.allowed = {} \/ operation \in p.allowed
           /\ operation \notin p.blocked
           /\ p.ips = {} \/ ip = "unknown" \/ ip \in p.ips
           /\ p.hours = <<>> \/ (p.hours[1] <= hour /\ hour <= p.hours[2])

\* When nothing of what is requested may be seen, or nothing is requested and
\* no field is listed, the fields of the scope are answered.
QueryData(p, scope, requested, ofScope) ==
    LET asked == IF requested = {} THEN p.allowed
                 ELSE {f \in requested \ p.denied : p.allowed # {} => f \in p.allowed \cup p.masked}
        fields == (IF asked = {} THEN ofScope ELSE asked) \ p.denied
        granted == p.active /\ (scope \in p.scopes \/ "full" \in p.scopes)
    IN  [granted |-> granted, fields |-> IF granted THEN fields ELSE {},
         masked |-> IF granted THEN fields \cap p.masked ELSE {}]

\* drawn is random, between 1 and 100.
CheckShouldExecute(g, user, org, drawn) ==
    /\ g.exists /\ g.active /\ ~g.rolledBack
    /\ CASE g.strategy = "user_list" -> user \in g.targets
         [] g.strategy = "org_list" -> org \in g.targets
         [] OTHER -> drawn <= g.percent

-----------------------------------------------------------------------------
(* Prices and profit *)

\* In hundredths of a cent.
ApplyPriceFormula(r, cost) ==
    CASE r.type = "markup" -> cost * (100 + r.percent) + 100 * r.add
      [] r.type = "markdown" -> cost * (100 - r.percent) - 100 * r.add
      [] r.type = "fixed" -> 100 * r.fixed
      [] r.type = "competitive" -> cost * r.base + 100 * r.add

Limited(raw, r) ==
    LET least == IF r.min > 0 THEN Max({raw, 100 * r.min}) ELSE raw IN
    IF r.max > 0 THEN Min({least, 100 * r.max}) ELSE least

\* PriceRuleService.calculate_price
CalculatePrice(r, cost) == Rounded(Limited(ApplyPriceFormula(r, cost), r), 100)

\* PriceRuleDomainService.calculate_price: no fixed addition, the base of a
\* competitive price is the cost.
PriceOfRule(r, cost) ==
    Rounded(Limited(CASE r.type = "markup" -> cost * (100 + r.percent)
                      [] r.type = "markdown" -> cost * (100 - r.percent)
                      [] r.type = "fixed" -> 100 * r.fixed
                      [] r.type = "competitive" -> 100 * (cost + r.add), r), 100)

CalculateCompetitivePrice(strategy, price, msrp, competitors) ==
    LET lowest == Min(competitors)
        suggested == CASE strategy = "match_lowest" -> lowest
                       [] strategy = "beat_by_pct" -> Rounded(95 * lowest, 100)
                       [] strategy = "premium" -> Rounded(110 * lowest, 100)
                       [] OTHER -> price
    IN  IF competitors = {} THEN price
        ELSE IF msrp > 0 /\ suggested > msrp THEN msrp ELSE suggested

Share(part, whole) == IF whole > 0 THEN Rounded(10000 * part, whole) ELSE 0

\* ProfitDomainService.calculate_profit
CalculateProfit(revenue, refund, cost, expenses) ==
    LET net == revenue - refund IN
    [gross |-> net - cost, grossMargin |-> Share(net - cost, net),
     net |-> net - cost - expenses, netMargin |-> Share(net - cost - expenses, net),
     roi |-> Share(net - cost - expenses, cost)]

\* ProfitEngine.calculate
EngineProfit(revenue, cogs, expenses, vat) ==
    LET gross == revenue - cogs
        operating == gross - expenses
    IN  [gross |-> gross, grossMargin |-> Share(gross, revenue),
         operating |-> operating, operatingMargin |-> Share(operating, revenue),
         net |-> operating - vat, netMargin |-> Share(operating - vat, revenue)]

-----------------------------------------------------------------------------
(* Advertising *)

\* roas: a sequence, in hundredths; a campaign without any counts as 0.01.
OptimizeBudget(total, roas) ==
    LET score == [i \in DOMAIN roas |-> Max({roas[i], 1})] IN
    [i \in DOMAIN roas |-> Rounded(total * score[i], Total(score))]

\* In hundredths of a per cent of what should have been spent by now.
PacingPct(daily, spent, hours) == Share(24 * spent, daily * hours)

CalculateBudgetPacing(daily, spent, hours) ==
    IF daily <= 0 THEN "unknown"
    ELSE <<"underspending", "on_track", "overspending">>[Reached(PacingPct(daily, spent, hours), <<8001, 12001>>)]

\* In tenths of a point; roas in tenths, click rate in hundredths.  No cost
\* of sales counts as the worst.
EfficiencyScore(c) ==
    4 * Max({0, 100 - IF c.acos = 0 THEN 100 ELSE c.acos}) + 3 * Min({100, c.roas}) + 3 * Min({100, c.ctr})

RankCampaigns(campaigns) ==
    SortSeq(campaigns, LAMBDA c, d : EfficiencyScore(c) > EfficiencyScore(d))

CalcChange(current, baseline) == Share(current - baseline, baseline)

\* Campaign figures that have left their baseline, and how badly.
DetectAdAnomalies(now, base) ==
    LET spend == CalcChange(now.spend, base.spend)
        acos == CalcChange(now.acos, base.acos)
        ctr == CalcChange(now.ctr, base.ctr)
    IN  [spend |-> IF spend > 10000 THEN "high"
                   ELSE IF spend > 5000 \/ spend < -5000 THEN "medium" ELSE "none",
         acos |-> IF acos > 5000 THEN "high" ELSE IF acos > 3000 THEN "medium" ELSE "none",
         ctr |-> IF ctr < -3000 THEN "medium" ELSE "none"]

-----------------------------------------------------------------------------
(* Stock *)

\* Sales are estimated from the stock itself: as if it lasted the given days.
DaysRemaining(qty, days) ==
    IF qty <= 0 THEN 999 ELSE IF 100 * qty >= days THEN days ELSE 100 * qty

Priorities == <<"critical", "high", "medium", "low">>

ReplenishPriority(qty, days) ==
    IF qty <= 0 THEN "critical" ELSE Priorities[Reached(days, <<7, 14, 21>>)]

GenerateSuggestions(stock, days) ==
    LET low == SelectSeq(stock, LAMBDA qty : DaysRemaining(qty, days) < 14 \/ qty <= 10)
        rank(s) == CHOOSE n \in 1..4 : Priorities[n] = s.priority
    IN  SortSeq([i \in DOMAIN low |->
                    [qty |-> low[i], priority |-> ReplenishPriority(low[i], DaysRemaining(low[i], days)),
                     replenish |-> Max({(60 * low[i]) \div days - low[i], 0})]],
                LAMBDA s, t : rank(s) < rank(t))

CreatePlanFromSuggestions(suggestions) ==
    LET units == Total([i \in DOMAIN suggestions |-> suggestions[i].replenish]) IN
    [units |-> units, boxes |-> Max({units \div 50, 1}),
     items |-> SelectSeq(suggestions, LAMBDA s : s.replenish > 0)]

\* In tenths of a day; -1: for ever.
CalculateDaysOfSupply(qty, sales) ==
    IF sales <= 0 THEN (IF qty > 0 THEN -1 ELSE 0) ELSE Rounded(10 * qty, sales)

ClassifyUrgency(supply, lead) ==
    IF supply = -1 \/ supply > 30 * lead THEN "low"
    ELSE IF supply <= 10 * lead THEN "urgent" ELSE IF supply <= 20 * lead THEN "high" ELSE "normal"

AutoPrioritize(qty, sales, lead) ==
    IF sales <= 0 \/ qty > 3 * lead * sales THEN "low"
    ELSE IF qty <= lead * sales THEN "urgent" ELSE IF qty <= 2 * lead * sales THEN "high" ELSE "normal"

\* What the platform has beyond what is known here, of what is known here.
DetectDiscrepancies(platform, known) ==
    LET differing == {i \in DOMAIN platform : platform[i].sku \in DOMAIN known
                                              /\ platform[i].qty # known[platform[i].sku]}
    IN  {[sku |-> platform[i].sku, difference |-> platform[i].qty - known[platform[i].sku]] :
            i \in differing}

DiscrepancySeverity(expected, actual) ==
    LET off == Max({actual - expected, expected - actual}) IN
    IF off = 0 THEN "none" ELSE <<"low", "medium", "high", "critical">>[Reached(off, <<11, 51, 101>>)]

\* Snapshots are functions from SKUs to quantities.
CompareSnapshots(current, previous) ==
    LET both == DOMAIN current \cap DOMAIN previous IN
    [added |-> DOMAIN current \ DOMAIN previous, removed |-> DOMAIN previous \ DOMAIN current,
     changed |-> [sku \in {k \in both : current[k] # previous[k]} |-> current[sku] - previous[sku]]]

FloorRoot(n) == CHOOSE x \in 0..n : x * x <= n /\ n < (x + 1) * (x + 1)

\* With the default parameters of each strategy.
CalculateTransferQty(strategy, qty, sales, lead, safety) ==
    LET point == sales * (lead + safety)
    IN  IF qty > point THEN 0
        ELSE CASE strategy = "min_max" -> 2 * point - qty
               [] strategy = "fixed_quantity" -> 30 * sales
               [] strategy = "eoq" -> FloorRoot(365000 * sales)
               [] OTHER -> point - qty + sales * safety

\* The alerts a stock raises, with the default conditions of each.
RaisedAlerts(s) ==
    {type \in {"low_stock", "stockout", "overstock", "slow_moving", "dead_stock", "defective_high"} :
        CASE type = "low_stock" -> s.available <= 10
          [] type = "stockout" -> s.available = 0
          [] type = "overstock" -> s.onHand >= 100
          [] type = "slow_moving" -> s.onHand >= 20
          [] type = "dead_stock" -> s.onHand >= 10
          [] type = "defective_high" -> s.onHand > 0 /\ 10 * s.defective >= s.onHand}

SuggestAction(defect, severity, hasSupplier) ==
    IF severity = "critical" THEN "scrap"
    ELSE IF defect = "damaged" /\ severity = "high"
         THEN IF hasSupplier THEN "return_to_supplier" ELSE "scrap"
    ELSE IF defect = "quality_issue" /\ severity = "low" THEN "downgrade"
    ELSE IF defect \in {"wrong_item", "missing"}
         THEN IF hasSupplier THEN "return_to_supplier" ELSE "exchange_only"
    ELSE "rework"

-----------------------------------------------------------------------------
(* Products *)

IdentifyLifecycleStage(p) ==
    IF p.status = "draft" THEN "development"
    ELSE IF p.status = "active" /\ p.activeSkus > 0
         THEN <<"launch", "growth", "mature", "decline">>[Reached(p.days, <<31, 181, 366>>)]
    ELSE IF p.status = "inactive" \/ p.inactiveSkus = p.skus THEN "discontinued"
    ELSE "unknown"

RiskLevels == <<"none", "low", "medium", "high", "critical">>

HighestOf(levels, known) ==
    LET ranks == {n \in 1..known : RiskLevels[n] \in levels} IN RiskLevels[Max(ranks \cup {1})]

\* IPRecordDomainService.assess_risk
AssessRisk(levels) == HighestOf(ToSet(levels), 5)

\* ComplianceCheckService: a level "critical" is not known here.
CheckIpRisks(levels) == HighestOf(ToSet(levels), 4)

\* found: the types of the sensitive words in the text.
ScanSensitiveWords(found) ==
    IF found = <<>> THEN "none" ELSE IF "prohibited" \in ToSet(found) THEN "critical" ELSE "warning"

CheckListingCompliance(found, levels) ==
    LET words == ScanSensitiveWords(found)
        ip == CheckIpRisks(levels)
        risk == IF words = "critical" \/ ip = "high" THEN "high"
                ELSE IF words = "warning" \/ ip = "medium" THEN "medium"
                ELSE IF ip = "low" THEN "low" ELSE "none"
    IN  [compliant |-> words = "none" /\ ip \in {"none", "low"} /\ risk # "high", risk |-> risk]

\* wanting: the items the quality standard requires that have no value.
QualityIssues(s) ==
    {part \in {"barcode", "weight", "cost"} : part \notin s.set} \cup s.wanting

CalculateSelectionScore(p) ==
    10 * (Reached(p.sales, <<100, 500, 1000>>) - 1)
    + <<0, 5, 15, 25>>[Reached(p.rating, <<35, 40, 45>>)]
    + <<0, 5, 10, 20>>[Reached(p.reviews, <<20, 100, 500>>)]
    + (IF p.price \in 10..50 THEN 25 ELSE IF p.price \in 5..100 THEN 15 ELSE Points(5, p.price > 0))

ShouldAutoApprove(score, risk, source) ==
    IF risk \in {"none", "low"} /\ (score >= 70 \/ (source = "pms_ai" /\ score >= 60)) THEN "approve"
    ELSE IF score < 30 \/ risk \in {"high", "critical"} THEN "reject"
    ELSE "manual"

CalculatePerformanceScore(d) ==
    10 * (Reached(d.skus, <<10, 20, 50>>) - 1)
    + <<0, 10, 25, 40>>[Reached(d.orderRate, <<10, 30, 50>>)]
    + 10 * (Reached(d.profit, <<100000, 500000, 1000000>>) - 1)

Grade(score) == <<"D", "C", "B", "A">>[Reached(score, <<40, 60, 80>>)]

\* "" is a value that is not given; only a long title says enough.
SameProduct(e, n) ==
    IF n.url # "" /\ e.url = n.url THEN "url"
    ELSE IF n.id # "" /\ n.platform # "" /\ e.id = n.id /\ e.platform = n.platform THEN "product_id"
    ELSE IF n.title = "long" /\ e.title = n.title THEN "title" ELSE ""

\* The first existing product that is the same, or 0.
DetectDuplicate(existing, n) ==
    Min({i \in DOMAIN existing : SameProduct(existing[i], n) # ""} \cup {Len(existing) + 1})
        % (Len(existing) + 1)

-----------------------------------------------------------------------------
(* Suppliers *)

\* InquiryDomainService.compare_quotes: any price is as good as another.
EvaluationScore(q) ==
    Points(40, q.price > 0) + <<30, 20, 10, 0>>[Reached(q.lead, <<8, 15, 31>>)]
    + 10 * (Reached(q.rating, <<40, 60, 80>>) - 1)

\* SupplierInquiryService.compare_quotes, in thousandths; rating in per cent.
TotalScore(q, quotes) ==
    LET prices == {quotes[i].price : i \in DOMAIN quotes}
        leads == {quotes[i].lead : i \in DOMAIN quotes}
        priceRange == Max({Max(prices) - Min(prices), 1})
        leadRange == Max({Max(leads) - Min(leads), 1})
    IN  Rounded(500 * leadRange * (priceRange - (q.price - Min(prices)))
                + 300 * priceRange * (leadRange - (q.lead - Min(leads)))
                + 2 * priceRange * leadRange * q.rating, priceRange * leadRange)

\* SupplierRatingCalculator, in hundredths of a point.
OverallRating(r) == 40 * r.quality + 25 * r.delivery + 20 * r.price + 15 * r.service

SupplierLevel(r) ==
    <<"observation", "normal", "preferred", "strategic">>[Reached(OverallRating(r), <<6000, 7500, 9000>>)]

-----------------------------------------------------------------------------
(* Logistics *)

\* m: the terms of a shipping method.
EstimateFreight(parcel, m) ==
    CASE m.by = "weight" -> Freight(parcel.weight, m.terms)
      [] m.by = "volume" -> IF parcel.volume <= 0 THEN 0 ELSE Max({parcel.volume * m.unit, m.min})
      [] m.by = "item" -> IF parcel.items <= 0 THEN 0 ELSE Max({parcel.items * m.unit, m.min})
      [] m.by = "fixed" -> m.unit

CompareShippingMethods(parcel, methods) ==
    SortSeq(methods, LAMBDA m, n : EstimateFreight(parcel, m) < EstimateFreight(parcel, n))

ExceptionKeywords == <<"exception", "failed", "returned", "customs_hold", "damaged", "lost">>

\* events: what the status and the description of each say.  Two events of
\* one time keep their order.
NewestFirst(events) == SortSeq(events, LAMBDA e, f : e.time > f.time)

DetectException(events) ==
    LET odd == SelectSeq(NewestFirst(events), LAMBDA e : e.says \cap ToSet(ExceptionKeywords) # {}) IN
    IF odd = <<>> THEN "none"
    ELSE ExceptionKeywords[Min({k \in DOMAIN ExceptionKeywords : ExceptionKeywords[k] \in Head(odd).says})]

IsDelivered(events) ==
    events # <<>> /\ Head(NewestFirst(events)).says \cap {"delivered", "signed", "completed"} # {}

\* What a shipment is reported for, and how badly.
AutoDetectExceptions(s) ==
    {e \in {<<"overdue", "critical">>, <<"delayed", "warning">>, <<"returned", "high">>} :
        CASE e[1] = "overdue" -> s.status # "returned" /\ s.underWay /\ s.days > 14
          [] e[1] = "delayed" -> s.status # "returned" /\ s.underWay /\ s.days \in 8..14
          [] e[1] = "returned" -> s.status = "returned"}

-----------------------------------------------------------------------------
(* Figures over time *)

CalculateChangeRate(current, previous) ==
    IF previous = 0 THEN (IF current = 0 THEN 0 ELSE 10000)
    ELSE Rounded(10000 * (current - previous), Max({previous, -previous}))

Direction(rate) == IF rate > 500 THEN "up" ELSE IF rate < -500 THEN "down" ELSE "stable"

CalculateMovingAverage(values, window) ==
    [i \in DOMAIN values |->
        LET last == SubSeq(values, Max({1, i - window + 1}), i) IN Rounded(Total(last), Len(last))]

AggregateValues(values, aggregation) ==
    IF values = <<>> THEN 0
    ELSE CASE aggregation = "sum" -> Total(values)
           [] aggregation = "avg" -> Rounded(Total(values), Len(values))
           [] aggregation = "max" -> Max(ToSet(values))
           [] aggregation = "min" -> Min(ToSet(values))

\* AlertDomainService of bi
EvaluateThreshold(value, operator, threshold) ==
    CASE operator = "gt" -> value > threshold
      [] operator = "gte" -> value >= threshold
      [] operator = "lt" -> value < threshold
      [] operator = "lte" -> value <= threshold
      [] operator = "eq" -> value = threshold
      [] operator = "neq" -> value # threshold
      [] OTHER -> FALSE

\* AlertRuleDomainService of som
EvaluateCondition(value, type, threshold, most) ==
    CASE type = "gt" -> value > threshold
      [] type = "lt" -> value < threshold
      [] type = "eq" -> value = threshold
      [] type = "gte" -> value >= threshold
      [] type = "lte" -> value <= threshold
      [] type = "between" -> threshold <= value /\ value <= most
      [] type = "change_rate" -> Max({value, -value}) > threshold
      [] OTHER -> FALSE

\* The values that are more than z standard deviations from the mean.
DetectAnomalies(values, z) ==
    LET n == Len(values)
        sum == Total(values)
        spread == n * Total([i \in DOMAIN values |-> values[i] * values[i]]) - sum * sum
    IN  IF n < 3 \/ spread = 0 THEN {}
        ELSE {i \in DOMAIN values : (n * values[i] - sum) * (n * values[i] - sum) > z * z * spread}

CheckDataCompleteness(present, days) ==
    LET n == Cardinality(present \cap 0..days) IN
    [missing |-> 0..days \ present, rate |-> Rounded(10000 * n, days + 1),
     status |-> <<"poor", "warning", "good", "excellent">>[
         Reached(100 * n, [i \in 1..3 |-> <<80, 95, 99>>[i] * (days + 1)])]]

-----------------------------------------------------------------------------
(* Master data, texts and lineage *)

\* record is a function of the fields it has; "" is a blank.  A rule finds at
\* most one fault.
EvaluateRule(rule, record) ==
    LET value(f) == IF f \in DOMAIN record THEN record[f] ELSE ""
        blank == SelectInSeq(rule.fields, LAMBDA f : value(f) = "")
        faulty == SelectInSeq(rule.fields, LAMBDA f : value(f) # "" /\ value(f) \notin rule.fit)
        fault(i, issue) == IF i = 0 THEN {} ELSE {[field |-> rule.fields[i], issue |-> issue]}
    IN  CASE rule.type = "completeness" -> fault(blank, "missing_required")
          [] rule.type = "range" -> IF rule.fit = {} THEN {} ELSE fault(faulty, "invalid_value")
          [] rule.type = "format" -> fault(faulty, "format_mismatch")

ValidateRecord(rules, record) ==
    [i \in DOMAIN rules |-> IF rules[i].active THEN EvaluateRule(rules[i], record) ELSE {}]

\* The rules of which a keyword or pattern is found.
Violated(rules, language, other) ==
    {i \in DOMAIN rules : /\ rules[i].active /\ rules[i].found
                          /\ rules[i].language \in {"*", language} \/ language = "any"
                          /\ rules[i].kind # other}

ReviewResult(rules, violated) ==
    IF violated = {} THEN "pass"
    ELSE IF \E i \in violated : rules[i].severity = "critical" THEN "reject" ELSE "warning"

ReviewText(rules, language) == ReviewResult(rules, Violated(rules, language, "image"))
ReviewImage(rules) == ReviewResult(rules, Violated(rules, "any", "text"))

\* All that is reached from id along the edges, id too.
Traced(edges, id) ==
    FoldLeft(LAMBDA visited, i : visited \cup {e[2] : e \in {d \in edges : d[1] \in visited}},
             {id}, [i \in 1..Cardinality(edges) |-> i])

TraceDownstream(edges, source) == Traced(edges, source)
TraceUpstream(edges, target) == Traced({<<e[2], e[1]>> : e \in edges}, target)

-----------------------------------------------------------------------------
(* The calls that are tried *)

Fields == {"f", "g", "h"}
Comparisons == {[field |-> f, op |-> op, value |-> {n}] : f \in {"f", "g"}, n \in {1, 2},
                    op \in {"eq", "ne", "gt", "gte", "lt", "lte"}}
               \cup [field : {"f"}, op : {"in"}, value : {{0, 2}}]
Contexts == UNION {[known -> 0..2] : known \in SUBSET {"f", "g"}}
StrategyCalls == [of : {"strategies"}, context : Contexts,
                  condition : {{c, d} : c, d \in Comparisons}]
Permissions ==
    [of : {"permission"},
     policy : [enabled : BOOLEAN, exists : BOOLEAN, single : {0, 2}, daily : {0, 3},
               allowed : {{}, {"a"}}, blocked : {{}, {"a"}, {"b"}}, ips : {{}, {"i"}},
               hours : {<<>>, <<1, 2>>, <<2, 1>>}], amount : {2, 3, 4}]
Queries ==
    [of : {"query"}, policy : [active : BOOLEAN, scopes : {{"s"}, {"full"}, {}}, allowed : SUBSET Fields,
                               masked : {{}, {"f"}, {"g", "h"}}, denied : SUBSET Fields],
     requested : SUBSET Fields, ofScope : {{"f", "g"}}]
GrayCalls ==
    [of : {"gray"}, config : [exists : BOOLEAN, active : BOOLEAN, rolledBack : BOOLEAN,
        strategy : {"percentage", "user_list", "org_list"}, targets : SUBSET {"u", "o"}, percent : {0, 50, 100}]]
PriceCalls ==
    [of : {"price"}, cost : {0, 1, 99, 1000},
     rule : [type : {"markup", "markdown", "fixed", "competitive"}, percent : {0, 15, 100}, add : {0, 33},
             fixed : {500}, base : {90, 100}, min : {0, 120, 800}, max : {0, 600}]]
MarketCalls == [of : {"market"}, price : {500}, msrp : {0, 450, 600}, competitors : SUBSET {1, 333, 420, 700},
                strategy : {"match_lowest", "beat_by_pct", "premium", "other"}]
ProfitCalls == [of : {"profit"}, revenue : {0, 1, 700, 999}, refund : {0, 1, 700}, cost : {0, 300, 800},
                expenses : {0, 50, 900}, vat : {0, 140}]
AdBudgets == [of : {"ad_budget"}, total : {0, 1, 100, 9999}, roas : Lists({0, 1, 150, 333})]
Pacings == [of : {"pacing"}, daily : {0, 1000, 3333}, spent : {0, 100, 400, 500, 1000, 4000}, hours : {0, 1, 8, 24}]
Rankings == [of : {"ranking"}, campaigns :
                 BoundedSeq([acos : {0, 30, 120}, roas : {0, 40, 150}, ctr : {0, 50, 300}], 2)]
AdFigures == [spend : {0, 40, 100, 201}, acos : {0, 20, 27, 31}, ctr : {0, 2, 3}]
AdComparisons == [of : {"ad_anomaly"}, now : AdFigures, base : AdFigures]
Suggestions == [of : {"suggestions"}, stock : Lists({0, 1, 10, 11, 200}), days : {1, 6, 7, 13, 14, 20, 30, 150}]
Urgencies == [of : {"urgency"}, qty : 0..25, sales : 0..3, lead : {1, 2, 4}]
Discrepancies == [of : {"discrepancy"}, platform : BoundedSeq([sku : {"a", "b"}, qty : {0, 7, 60}], 2),
                  known : UNION {[s -> {0, 7}] : s \in SUBSET {"a", "b"}}]
Snapshots == UNION {[s -> {0, 5, 9}] : s \in SUBSET {"a", "b"}}
Comparings == [of : {"snapshots"}, first : Snapshots, second : Snapshots, third : Snapshots]
TransferCalls == [of : {"transfer"}, strategy : {"min_max", "fixed_quantity", "eoq", "reorder_point"},
                  qty : {0, 1, 5, 14, 15, 40}, sales : 0..2, lead : {0, 5}, safety : {0, 7}]
StockAlerts == [of : {"stock_alerts"}, available : {0, 10, 11, 99}, onHand : {0, 9, 10, 20, 100}, defective : {0, 1, 10}]
Defects == [of : {"defect"}, defect : {"damaged", "quality_issue", "wrong_item", "missing", "other"},
            severity : {"low", "medium", "high", "critical"}]
Products == [of : {"product"}, status : {"draft", "active", "inactive", "other"}, skus : {2}, activeSkus : 0..2,
             inactiveSkus : 0..2, days : {0, 30, 31, 180, 181, 365, 366}]
Compliances == [of : {"compliance"}, found : BoundedSeq({"prohibited", "trademark", "other"}, 2),
                levels : Lists(ToSet(RiskLevels))]
Qualities == [of : {"quality"}, set : SUBSET {"barcode", "weight", "cost"}, wanting : SUBSET {"size", "colour"}]
Selections == [of : {"selection"}, sales : {0, 100, 500, 1000}, rating : {0, 35, 40, 45}, reviews : {0, 20, 100, 500},
               price : {0, 4, 5, 10, 50, 51, 101}]
Performances == [of : {"performance"}, skus : {0, 10, 20, 50}, orderRate : {0, 10, 30, 50},
                 profit : {0, 100000, 500000, 1000000}]
Candidates == [url : {"", "u", "v"}, id : {"", "1"}, platform : {"", "x"}, title : {"", "short", "long"}]
CandidatePairs == [of : {"duplicate"}, first : Candidates, second : Candidates]
Quotes == [price : {0, 100, 130}, lead : {7, 8, 31}, rating : {0, 60, 100}]
Inquiries == [of : {"inquiry"}, quotes : {<<q, r>> : q, r \in Quotes}, third : {[price |-> 700, lead |-> 14, rating |-> 50]}]
Ratings == [of : {"rating"}, quality : {0, 60, 75, 90, 100}, delivery : {0, 60, 75, 90}, price : {60, 90},
            service : {0, 75, 100}]
Methods ==
    [by : {"weight"}, terms : [first : {1}, firstPrice : {5}, unit : {2}, unitPrice : {3}, min : {0, 7}]]
    \cup [by : {"volume", "item", "fixed"}, unit : {0, 4}, min : {0, 6}]
Parcels == [of : {"parcel"}, weight : 0..4, volume : {0, 1, 3}, items : 0..2, methods : BoundedSeq(Methods, 2)]
Events == [time : 1..3, says : {{"in_transit"}, {"delivered"}, {"damaged", "lost"}, {"failed"}}]
Trackings == [of : {"tracking"}, events : Lists(Events)]
Shipments == [of : {"shipment"}, status : {"in_transit", "returned", "draft"}, days : {0, 7, 8, 14, 15}, underWay : BOOLEAN]
Changes == [of : {"change"}, current : -2..3, previous : -2..3, factor : {1, 7}]
Series == [of : {"series"}, values : BoundedSeq({0, 1, 9}, 5), window : 1..4]
Outliers == [of : {"outliers"}, z : 1..3,
             values : BoundedSeq({0, 1, 9}, 5)
                      \cup {[i \in 1..n |-> IF i = k THEN 9 ELSE 0] : n \in 9..12, k \in {1, 5}}]
ThresholdCalls == [of : {"threshold"}, value : -3..3, threshold : -1..2, most : 1..2]
Presences == [of : {"presence"}, days : {6, 20, 120}, missing : {{}, {3}, {0, 1}, 0..4}, more : {0, 4}]
MasterRules ==
    [type : {"completeness"}, fields : {<<"f">>, <<"f", "g">>}, fit : {{}}, active : BOOLEAN]
    \cup [type : {"range"}, fields : {<<"f">>}, fit : {{}, {"x"}}, active : {TRUE}]
    \cup [type : {"format"}, fields : {<<"f">>}, fit : {{"x"}}, active : {TRUE}]
Masters == [of : {"master"}, rules : BoundedSeq(MasterRules, 2),
            record : UNION {[known -> {"", "x", "y"}] : known \in SUBSET {"f", "g"}}]
ReviewRules == [active : BOOLEAN, found : BOOLEAN, language : {"*", "en"}, kind : {"text", "image", "any"},
                severity : {"warning", "critical"}]
Reviews == [of : {"review"}, rules : BoundedSeq(ReviewRules, 2), language : {"en", "de"}]
Nodes == {"a", "b", "c"}
Lineages == [of : {"lineage"}, edges : SUBSET (Nodes \X Nodes)]

Judged ==
    StrategyCalls \cup Permissions \cup Queries \cup GrayCalls \cup PriceCalls \cup MarketCalls
    \cup ProfitCalls \cup AdBudgets \cup Pacings \cup Rankings \cup AdComparisons \cup Suggestions
    \cup Urgencies \cup Discrepancies \cup Comparings \cup TransferCalls \cup StockAlerts \cup Defects
    \cup Products \cup Compliances \cup Qualities \cup Selections \cup Performances \cup CandidatePairs
    \cup Inquiries \cup Ratings \cup Parcels \cup Trackings \cup Shipments \cup Changes \cup Series
    \cup Outliers \cup ThresholdCalls \cup Presences \cup Masters \cup Reviews \cup Lineages

-----------------------------------------------------------------------------
(* Properties *)

\* Strategies apply by priority; of two whose times adjoin at least one is in
\* force, both at the boundary only; a condition more only takes matches away;
\* and of two conditions that divide the values of a field exactly one holds
\* where the field is known, none where it is not.
StrategiesAreSound(c) ==
    LET strategy(from, to, priority) ==
            [active |-> TRUE, type |-> "s", from |-> from, to |-> to, priority |-> priority,
             condition |-> c.condition]
        early == strategy(1, 3, 1)
        late == strategy(3, 5, 3)
        always == strategy(0, 0, 2)
        others == <<[always EXCEPT !.active = FALSE], [always EXCEPT !.type = "t"]>>
        found(now) == EvaluateStrategies(<<early, late, always>> \o others, "s", now, c.context)
    IN  /\ MatchCondition(c.condition, c.context) =>
               \A now \in 1..5 :
                   found(now) = IF now < 3 THEN <<always, early>>
                                ELSE IF now > 3 THEN <<late, always>> ELSE <<late, always, early>>
        /\ ~MatchCondition(c.condition, c.context) => \A now \in 1..5 : found(now) = <<>>
        /\ \A d \in Comparisons :
               MatchCondition(c.condition \cup {d}, c.context) => MatchCondition(c.condition, c.context)
        /\ \A f \in {"f", "g"}, n \in 0..2, ops \in {<<"lt", "gte">>, <<"gt", "lte">>} :
               Cardinality({k \in 1..2 : Holds([field |-> f, op |-> ops[k], value |-> {n}], c.context)})
                   = IF f \in DOMAIN c.context THEN 1 ELSE 0

\* Lifting any one restriction of the policy refuses nothing that was allowed,
\* nor does a smaller amount; hours that reach past midnight allow nothing.
PermissionIsSound(c) ==
    LET p == c.policy
        lifted == {[p EXCEPT !.single = 0], [p EXCEPT !.daily = 0], [p EXCEPT !.allowed = {}],
                   [p EXCEPT !.blocked = {}], [p EXCEPT !.ips = {}], [p EXCEPT !.hours = <<>>],
                   [p EXCEPT !.exists = FALSE], [p EXCEPT !.enabled = TRUE]}
    IN  \A operation \in {"a", "b"}, ip \in {"unknown", "i", "j"}, hour \in 0..3 :
            LET allows(q, amount) == CheckExecutionAllowed(q, amount, operation, ip, hour) IN
            /\ allows(p, c.amount) =>
                   /\ p.enabled
                   /\ \A q \in lifted : allows(q, c.amount)
                   /\ allows(p, c.amount - 1)
            /\ p.exists /\ p.hours = <<2, 1>> => ~allows(p, c.amount)

\* No denied field is answered, and none at all out of scope; what was
\* requested and may be seen is answered alone; denying one more field adds
\* none, unless nothing of the request is left and the scope is answered.
QueryIsSound(c) ==
    LET p == c.policy
        answer(q) == QueryData(q, "s", c.requested, c.ofScope)
        visible(q) == {f \in c.requested \ q.denied : q.allowed = {} \/ f \in q.allowed \cup q.masked}
        a == answer(p)
    IN  /\ a.fields \cap p.denied = {} /\ a.masked = a.fields \cap p.masked
        /\ ~a.granted => a.fields = {}
        /\ a.granted /\ visible(p) # {} => a.fields = visible(p)
        /\ a.granted /\ c.requested # {} /\ visible(p) = {} => a.fields = c.ofScope \ p.denied
        /\ \A f \in Fields :
               LET stricter == [p EXCEPT !.denied = @ \cup {f}] IN
               \/ answer(stricter).fields \subseteq a.fields
               \/ visible(p) = {f}

\* A rollout by percentage takes in nobody at 0, everybody at 100, and loses
\* nobody who was drawn in when it grows; one that was rolled back is over
\* whatever its lists say.
GrayIsSound(c) ==
    LET g == c.config IN
    \A user \in {"u", "v"}, org \in {"o", "p"}, drawn \in {1, 50, 51, 100} :
        LET executes(h) == CheckShouldExecute(h, user, org, drawn) IN
        /\ executes(g) => ~g.rolledBack /\ g.active
        /\ executes(g) => \A more \in g.percent..100 : executes([g EXCEPT !.percent = more])
        /\ g.strategy = "percentage" /\ executes([g EXCEPT !.percent = 100]) =>
               executes(g) = (drawn <= g.percent)
        /\ g.strategy # "percentage" => (executes(g) => {user, org} \cap g.targets # {})

\* Both calculations of a price agree on a rule without a fixed addition or a
\* base of its own; a price keeps its limits, of which the upper one wins; and
\* what costs more is not priced lower.
PriceIsSound(c) ==
    LET r == c.rule
        price == CalculatePrice(r, c.cost)
    IN  /\ r.type = "fixed" \/ (r.type = "competitive" /\ r.base = 100)
           \/ (r.type \in {"markup", "markdown"} /\ r.add = 0) => price = PriceOfRule(r, c.cost)
        /\ r.max > 0 => price <= r.max
        /\ r.min > 0 /\ (r.max = 0 \/ r.min <= r.max) => price >= r.min
        /\ price <= CalculatePrice(r, c.cost + 1)
        /\ r.max = 0 \/ r.min <= r.max \/ price = r.max

\* The suggested price is never above the list price, keeps its order to the
\* lowest competitor, and one competitor more never raises it.
MarketIsSound(c) ==
    LET price(strategy, competitors) == CalculateCompetitivePrice(strategy, c.price, c.msrp, competitors)
        mine == price(c.strategy, c.competitors)
    IN  c.competitors # {} =>
            /\ c.msrp > 0 => mine <= c.msrp
            /\ price("beat_by_pct", c.competitors) <= price("match_lowest", c.competitors)
            /\ price("match_lowest", c.competitors) <= price("premium", c.competitors)
            /\ \A n \in {1, 419, 900} : price(c.strategy, c.competitors \cup {n}) <= mine

\* The figures of finance and those of the profit engine are the same where
\* nothing was refunded and no tax is due; a margin never shows a gain where
\* there is a loss, and what is refunded costs the profit what it brought.
ProfitIsSound(c) ==
    LET mine == CalculateProfit(c.revenue, c.refund, c.cost, c.expenses)
        whole == CalculateProfit(c.revenue, 0, c.cost, c.expenses)
        engine == EngineProfit(c.revenue, c.cost, c.expenses, c.vat)
    IN  /\ <<whole.gross, whole.grossMargin, whole.net, whole.netMargin>>
               = <<engine.gross, engine.grossMargin, engine.operating, engine.operatingMargin>>
        /\ mine.net = whole.net - c.refund
        /\ mine.net < 0 => mine.netMargin <= 0 /\ mine.roi <= 0
        /\ mine.netMargin <= mine.grossMargin /\ engine.netMargin <= engine.operatingMargin
        /\ engine.net = whole.net - c.vat

\* The parts are the budget but for half a cent each, and in proportion to the
\* returns; a campaign with the higher return never gets less, and one without
\* any is not left out of a budget that is worth dividing.
AdBudgetIsSound(c) ==
    LET parts == OptimizeBudget(c.total, c.roas) IN
    /\ c.roas # <<>> => 2 * Max({Total(parts) - c.total, c.total - Total(parts)}) <= Len(parts)
    /\ \A i, j \in DOMAIN parts :
           LET off == parts[i] * c.roas[j] - parts[j] * c.roas[i] IN
           /\ c.roas[i] >= c.roas[j] => parts[i] >= parts[j]
           /\ c.roas[i] > 0 /\ c.roas[j] > 0 => 2 * Max({off, -off}) <= c.roas[i] + c.roas[j]
    /\ c.total = 9999 => \A i \in DOMAIN parts : parts[i] > 0

\* Spending more never reads as pacing slower, nor does the same amount later
\* as pacing faster; spending in step with the day is on track.  In the first hour of a day nothing is expected, so that
\* any spending reads as too little.
PacingIsSound(c) ==
    LET rank(status) == CASE status = "overspending" -> 3 [] status = "on_track" -> 2 [] OTHER -> 1
        pace(spent, hours) == rank(CalculateBudgetPacing(c.daily, spent, hours))
    IN  /\ pace(c.spent, c.hours) <= pace(c.spent + 1, c.hours)
        /\ c.hours > 0 => pace(c.spent, c.hours) >= pace(c.spent, c.hours + 1)
        /\ c.daily > 0 /\ c.hours > 0 /\ 24 * c.spent = c.daily * c.hours =>
               CalculateBudgetPacing(c.daily, c.spent, c.hours) = "on_track"
        /\ c.daily > 0 /\ c.hours = 0 =>
               CalculateBudgetPacing(c.daily, c.spent, c.hours) = "underspending"

\* A campaign that is as good in every respect does not come after a worse
\* one, unless it reports no cost of sales, and none is lost or repeated.
RankingIsSound(c) ==
    LET ranked == RankCampaigns(c.campaigns)
        better(a, b) == a.acos > 0 /\ a.acos <= b.acos /\ a.roas >= b.roas /\ a.ctr >= b.ctr
    IN  /\ ToBag(c.campaigns) = ToBag(ranked)
        /\ \A i, j \in DOMAIN ranked :
               i < j => ~better(ranked[j], ranked[i]) \/ EfficiencyScore(ranked[i]) = EfficiencyScore(ranked[j])

\* The scale of the figures does not matter, figures on their baseline are
\* never reported, nor is any without one; a cost that grows further from its
\* baseline is reported no less, and spending less is reported as soon as
\* spending as much more.
AdAnomalyIsSound(c) ==
    LET found(now, base) == DetectAdAnomalies(now, base)
        scaled(f) == [k \in DOMAIN f |-> 3 * f[k]]
        quiet == [spend |-> "none", acos |-> "none", ctr |-> "none"]
        rank(level) == CASE level = "high" -> 3 [] level = "medium" -> 2 [] OTHER -> 1
    IN  /\ found(scaled(c.now), scaled(c.base)) = found(c.now, c.base)
        /\ found(c.base, c.base) = quiet
        /\ \A k \in DOMAIN c.base : c.base[k] = 0 => found(c.now, c.base)[k] = "none"
        /\ rank(found(c.now, c.base).acos) <= rank(found([c.now EXCEPT !.acos = @ + 5], c.base).acos)
        /\ \A off \in {10, 21, 60, 100} : off <= c.base.spend =>
               (found([c.now EXCEPT !.spend = c.base.spend + off], c.base).spend = "none")
                   = (found([c.now EXCEPT !.spend = c.base.spend - off], c.base).spend = "none")
        /\ c.now.spend >= c.base.spend =>
               rank(found(c.now, c.base).spend) <= rank(found([c.now EXCEPT !.spend = @ + 60], c.base).spend)

\* Suggestions come by priority, what is sold out is among the first, though
\* nothing can be estimated for it: it is in no line of the plan.  The units of
\* a plan are those of its lines.
SuggestionsAreSound(c) ==
    LET suggestions == GenerateSuggestions(c.stock, c.days)
        plan == CreatePlanFromSuggestions(suggestions)
        rank(i) == CHOOSE n \in 1..4 : Priorities[n] = suggestions[i].priority
    IN  /\ \A i, j \in DOMAIN suggestions : i < j => rank(i) <= rank(j)
        /\ \A k \in DOMAIN c.stock : c.stock[k] <= 10 =>
               \E i \in DOMAIN suggestions : suggestions[i].qty = c.stock[k]
        /\ \A i \in DOMAIN suggestions : suggestions[i].qty = 0 =>
               rank(i) = 1 /\ suggestions[i] \notin ToSet(plan.items)
        /\ plan.units = Total([i \in DOMAIN plan.items |-> plan.items[i].replenish])
        /\ 50 * plan.boxes <= Max({plan.units, 50})

\* The urgency by days of supply and the priority by stock are the same where
\* something sells, but for the rounding of the days; less stock is never less
\* urgent; where nothing sells they differ only for what is sold out.
UrgencyIsSound(c) ==
    LET rank(level) == CASE level = "urgent" -> 4 [] level = "high" -> 3 [] level = "normal" -> 2 [] OTHER -> 1
        bySupply(qty) == rank(ClassifyUrgency(CalculateDaysOfSupply(qty, c.sales), c.lead))
        byStock(qty) == rank(AutoPrioritize(qty, c.sales, c.lead))
        rounded == {n \in 1..3 : c.sales > 0 /\ c.qty > n * c.lead * c.sales
                                 /\ 20 * (c.qty - n * c.lead * c.sales) < c.sales}
    IN  /\ c.sales > 0 /\ rounded = {} => bySupply(c.qty) = byStock(c.qty)
        /\ c.sales = 0 => bySupply(c.qty) = byStock(c.qty) \/ (c.qty = 0 /\ bySupply(0) = 4)
        /\ bySupply(c.qty + 1) <= bySupply(c.qty) /\ byStock(c.qty + 1) <= byStock(c.qty)

\* What is reported is what turns the known stock into that of the platform;
\* SKUs that are not known are not reported; and a greater difference is never
\* less severe, whichever side has more.
DiscrepancyIsSound(c) ==
    LET found == DetectDiscrepancies(c.platform, c.known)
        severity(off) == CHOOSE n \in 1..5 :
            <<"none", "low", "medium", "high", "critical">>[n] = DiscrepancySeverity(0, off)
    IN  /\ \A i \in DOMAIN c.platform :
               LET p == c.platform[i] IN
               p.sku \in DOMAIN c.known /\ c.known[p.sku] # p.qty =>
                   [sku |-> p.sku, difference |-> p.qty - c.known[p.sku]] \in found
        /\ \A d \in found :
               /\ d.sku \in DOMAIN c.known
               /\ [sku |-> d.sku, qty |-> c.known[d.sku] + d.difference] \in ToSet(c.platform)
        /\ \A off \in {0, 10, 11, 50, 51, 100, 101} :
               severity(off) <= severity(off + 1) /\ severity(off) = severity(-off)

\* Compared the other way round two snapshots give the inverse; the changes
\* lead from one to the other; and over three snapshots they add up for what
\* all of them have.
SnapshotsAreSound(c) ==
    LET changes(current, previous) == CompareSnapshots(current, previous)
        there == changes(c.second, c.first)
        back == changes(c.first, c.second)
        of(d, sku) == IF sku \in DOMAIN d.changed THEN d.changed[sku] ELSE 0
        kept == DOMAIN c.first \ there.removed
    IN  /\ back.added = there.removed /\ back.removed = there.added
        /\ DOMAIN back.changed = DOMAIN there.changed
        /\ kept \cup there.added = DOMAIN c.second
        /\ \A sku \in kept : c.first[sku] + of(there, sku) = c.second[sku]
        /\ \A sku \in DOMAIN c.first \cap DOMAIN c.second \cap DOMAIN c.third :
               of(changes(c.third, c.first), sku) = of(there, sku) + of(changes(c.third, c.second), sku)

\* A transfer is never negative, more stock never suggests more; a strategy
\* that fills up reaches the same level whatever there is left; and once it has
\* arrived nothing more is suggested, by a strategy that orders beyond its
\* own reorder point.
TransferIsSound(c) ==
    LET qty(stock) == CalculateTransferQty(c.strategy, stock, c.sales, c.lead, c.safety)
        point == c.sales * (c.lead + c.safety)
    IN  /\ qty(c.qty) >= 0 /\ qty(c.qty + 1) <= qty(c.qty)
        /\ c.qty <= point /\ c.sales > 0 /\ c.safety > 0 => qty(c.qty) > 0
        /\ c.qty <= point /\ c.strategy \in {"min_max", "reorder_point"} => c.qty + qty(c.qty) = qty(0)
        /\ c.qty + qty(c.qty) > point => qty(c.qty + qty(c.qty)) = 0
        /\ c.sales > 0 /\ c.safety > 0 => c.qty + qty(c.qty) > point

\* With the default conditions the alerts of too much stock imply each other,
\* as do those of too little, and a stock of more than ten in all that is free
\* and sound raises none of the latter.
StockAlertIsSound(c) ==
    LET raised == RaisedAlerts(c) IN
    /\ "overstock" \in raised => "slow_moving" \in raised
    /\ "slow_moving" \in raised => "dead_stock" \in raised
    /\ "stockout" \in raised => "low_stock" \in raised
    /\ c.onHand > 0 => "defective_high" \in RaisedAlerts([c EXCEPT !.defective = c.onHand])
    /\ RaisedAlerts([c EXCEPT !.available = @ + 1]) \subseteq raised

\* A supplier only takes goods back that would have been scrapped or exchanged,
\* and what is worst is scrapped all the same.
DefectIsSound(c) ==
    LET with == SuggestAction(c.defect, c.severity, TRUE)
        without == SuggestAction(c.defect, c.severity, FALSE)
    IN  /\ with # without => with = "return_to_supplier" /\ without \in {"scrap", "exchange_only"}
        /\ c.severity = "critical" => {with, without} = {"scrap"}
        /\ without # "return_to_supplier"

\* A product on sale only grows older, whatever becomes of its other SKUs; no
\* product on sale is taken for discontinued; and one without any SKU is.
ProductIsSound(c) ==
    LET stages == <<"launch", "growth", "mature", "decline">>
        stage(p) == IdentifyLifecycleStage(p)
        rank(p) == CHOOSE n \in 1..4 : stages[n] = stage(p)
    IN  /\ c.status = "active" /\ c.activeSkus > 0 =>
               /\ rank(c) <= rank([c EXCEPT !.days = @ + 1])
               /\ \A n \in 0..2 : stage([c EXCEPT !.inactiveSkus = n]) = stage(c)
        /\ stage(c) \in ToSet(stages) => c.status = "active"
        /\ c.status # "draft" => stage([c EXCEPT !.activeSkus = 0, !.inactiveSkus = 0, !.skus = 0]) = "discontinued"

\* One word or record more never makes a listing compliant nor lowers its risk,
\* and their order does not matter; the check agrees with the assessment of the
\* domain, except that it passes over a record of critical risk.
ComplianceIsSound(c) ==
    LET check(found, levels) == CheckListingCompliance(found, levels)
        rank(level) == CHOOSE n \in 1..5 : RiskLevels[n] = level
        mine == check(c.found, c.levels)
        known == [i \in DOMAIN c.levels |-> IF c.levels[i] = "critical" THEN "none" ELSE c.levels[i]]
    IN  /\ \A type \in {"prohibited", "trademark"} :
               LET more == check(Append(c.found, type), c.levels) IN
               ~more.compliant /\ rank(mine.risk) <= rank(more.risk)
        /\ \A level \in ToSet(RiskLevels) :
               LET more == check(c.found, Append(c.levels, level)) IN
               (more.compliant => mine.compliant) /\ rank(mine.risk) <= rank(more.risk)
        /\ check(Reverse(c.found), Reverse(c.levels)) = mine
        /\ CheckIpRisks(c.levels) = AssessRisk(known)
        /\ mine.compliant => mine.risk \in {"none", "low"}

\* Filling one thing in settles that issue and no other.
QualityIsSound(c) ==
    /\ \A part \in QualityIssues(c) :
           QualityIssues([c EXCEPT !.set = @ \cup {part}, !.wanting = @ \ {part}])
               = QualityIssues(c) \ {part}
    /\ QualityIssues(c) = {} => c.wanting = {} /\ "barcode" \in c.set

\* More sales, better or more reviews never lower a score, nor turn an approval
\* into a rejection; what is approved from elsewhere is approved from the PMS
\* too; and a score that is approved is far from one that is rejected.
SelectionIsSound(c) ==
    LET score(p) == CalculateSelectionScore(p)
        better == {[c EXCEPT !.sales = @ + 500], [c EXCEPT !.rating = @ + 5], [c EXCEPT !.reviews = @ + 100]}
        verdict(s, risk, source) == ShouldAutoApprove(s, risk, source)
        rank(v) == CASE v = "approve" -> 3 [] v = "manual" -> 2 [] v = "reject" -> 1
    IN  /\ score(c) \in 0..100
        /\ \A p \in better, risk \in ToSet(RiskLevels), source \in {"pms_ai", "manual"} :
               rank(verdict(score(c), risk, source)) <= rank(verdict(score(p), risk, source))
        /\ \A risk \in ToSet(RiskLevels) :
               /\ rank(verdict(score(c), risk, "manual")) <= rank(verdict(score(c), risk, "pms_ai"))
               /\ \A n, m \in 1..5 : n <= m =>
                      rank(verdict(score(c), RiskLevels[m], "manual")) <= rank(verdict(score(c), RiskLevels[n], "manual"))

\* Doing better in one respect never costs a grade, and no single respect
\* makes an A.
PerformanceIsSound(c) ==
    LET grade(d) == CHOOSE n \in 1..4 : <<"D", "C", "B", "A">>[n] = Grade(CalculatePerformanceScore(d)) IN
    /\ \A d \in {[c EXCEPT !.skus = @ + 10], [c EXCEPT !.orderRate = @ + 20], [c EXCEPT !.profit = @ + 400000]} :
           grade(c) <= grade(d)
    /\ grade(c) = 4 => c.orderRate >= 30 /\ c.skus >= 10 /\ c.profit >= 100000

\* Whether two products are the same does not depend on which came first; an
\* item collected twice is found if it has an address; and the order of what
\* there is only decides which one is named.
DuplicateIsSound(c) ==
    LET a == c.first
        b == c.second
        none == [url |-> "", id |-> "", platform |-> "", title |-> ""]
    IN  /\ (SameProduct(a, b) # "") = (SameProduct(b, a) # "")
        /\ a.url # "" => DetectDuplicate(<<b, a>>, a) # 0
        /\ (DetectDuplicate(<<a, b>>, b) = 0) = (DetectDuplicate(<<b, a>>, b) = 0)
        /\ DetectDuplicate(<<a, b>>, none) = 0

\* An offer that is nowhere worse never scores lower in either comparison, nor
\* does a third offer between them change that; a score lies between nothing
\* and one; for the domain service a price is as good as any other.
InquiryIsSound(c) ==
    LET q == c.quotes[1]
        r == c.quotes[2]
        total(x, quotes) == TotalScore(x, quotes)
        noWorse == q.price <= r.price /\ q.lead <= r.lead /\ q.rating >= r.rating
        three == Append(c.quotes, c.third)
    IN  /\ \A quotes \in {c.quotes, three} :
               /\ noWorse => total(q, quotes) >= total(r, quotes)
               /\ total(q, quotes) \in 0..1000
        /\ noWorse /\ q.price > 0 => EvaluationScore(q) >= EvaluationScore(r)
        /\ q.price > 0 /\ q.lead = r.lead /\ q.rating = r.rating => EvaluationScore(q) >= EvaluationScore(r)

\* The rating lies between the worst and the best of its parts, and so does
\* the level; getting better in one part never costs a level.
RatingIsSound(c) ==
    LET parts == {c.quality, c.delivery, c.price, c.service}
        level(r) == CHOOSE n \in 1..4 : <<"observation", "normal", "preferred", "strategic">>[n] = SupplierLevel(r)
        all(n) == [quality |-> n, delivery |-> n, price |-> n, service |-> n]
    IN  /\ OverallRating(c) \in 100 * Min(parts)..100 * Max(parts)
        /\ level(c) \in level(all(Min(parts)))..level(all(Max(parts)))
        /\ level(c) <= level([c EXCEPT !.service = @ + 10])

\* The methods come back by cost, each once; a larger parcel never costs less
\* by any of them; and whatever costs something costs the minimum.
ParcelIsSound(c) ==
    LET compared == CompareShippingMethods(c, c.methods)
        cost(parcel, m) == EstimateFreight(parcel, m)
    IN  /\ ToBag(compared) = ToBag(c.methods)
        /\ \A i, j \in DOMAIN compared : i < j => cost(c, compared[i]) <= cost(c, compared[j])
        /\ \A m \in ToSet(c.methods), larger \in {[c EXCEPT !.weight = @ + 1], [c EXCEPT !.volume = @ + 1],
                                                  [c EXCEPT !.items = @ + 1]} :
               /\ cost(c, m) <= cost(larger, m)
               /\ m.by \in {"volume", "item"} => cost(c, m) = 0 \/ cost(c, m) >= m.min

\* The order in which events of different times are listed does not matter; an
\* exception stays reported however the parcel goes on, also when it has been
\* delivered since; and whether it is delivered is told by the latest event.
TrackingIsSound(c) ==
    LET distinct == Cardinality({c.events[i].time : i \in DOMAIN c.events}) = Len(c.events)
        later == [time |-> 4, says |-> {"delivered"}]
    IN  /\ distinct => /\ DetectException(Reverse(c.events)) = DetectException(c.events)
                       /\ IsDelivered(Reverse(c.events)) = IsDelivered(c.events)
        /\ DetectException(Append(c.events, later)) = DetectException(c.events)
        /\ IsDelivered(<<later>> \o c.events) /\ IsDelivered(Append(c.events, later))
        /\ ~IsDelivered(Append(c.events, [time |-> 4, says |-> {"in_transit"}]))

\* A shipment is reported once at most, never milder the longer it takes, and
\* only while it is under way or after it has come back.
ShipmentIsSound(c) ==
    LET found(s) == AutoDetectExceptions(s)
        rank(e) == CASE e[2] = "critical" -> 3 [] e[2] = "high" -> 2 [] e[2] = "warning" -> 1
    IN  /\ Cardinality(found(c)) <= 1
        /\ \A e \in found(c) : \E f \in found([c EXCEPT !.days = @ + 1]) : rank(e) <= rank(f)
        /\ found(c) # {} => c.underWay \/ c.status = "returned"

\* The rate does not depend on the scale, has the sign of the change, and the
\* direction that is shown never contradicts it.
ChangeIsSound(c) ==
    LET rate == CalculateChangeRate(c.current, c.previous)
        scaled == CalculateChangeRate(c.factor * c.current, c.factor * c.previous)
        negative == c.current < c.previous
    IN  /\ scaled = rate
        /\ c.previous # 0 => (rate > 0) = (c.current > c.previous) /\ (rate < 0) = negative
        /\ (rate = 0) = (c.current = c.previous)
        /\ Direction(rate) = "up" => c.current > c.previous \/ c.previous = 0
        /\ Direction(rate) = "down" => negative

\* A moving average stays within the values it averages, over one day it is
\* the values themselves, and over all of them it ends with the average; the
\* average lies between the smallest and the greatest value.
SeriesIsSound(c) ==
    LET n == Len(c.values)
        average(window) == CalculateMovingAverage(c.values, window)
        figureOf(aggregation) == AggregateValues(c.values, aggregation)
    IN  n > 0 =>
            /\ \A i \in 1..n : LET last == ToSet(SubSeq(c.values, Max({1, i - c.window + 1}), i)) IN
                   average(c.window)[i] \in Min(last)..Max(last)
            /\ average(1) = c.values
            /\ average(n)[n] = figureOf("avg")
            /\ figureOf("avg") \in figureOf("min")..figureOf("max")
            /\ figureOf("sum") \in n * figureOf("min")..n * figureOf("max")

\* Fewer values than one in z squared are reported, so that none of ten is at
\* three deviations, however far off it is; adding the same to all of them, or
\* listing them backwards, reports the same ones, and equal values alike.
OutliersAreSound(c) ==
    LET found == DetectAnomalies(c.values, c.z)
        n == Len(c.values)
        raised == [i \in 1..n |-> c.values[i] + 5]
    IN  /\ n > 0 => Cardinality(found) * c.z * c.z < n
        /\ c.z = 3 /\ n <= 10 => found = {}
        /\ DetectAnomalies(raised, c.z) = found
        /\ DetectAnomalies(Reverse(c.values), c.z) = {n + 1 - i : i \in found}
        /\ \A i, j \in 1..n : c.values[i] = c.values[j] => (i \in found) = (j \in found)
        /\ DetectAnomalies(c.values, c.z + 1) \subseteq found

\* The alerts of two domains decide alike where both know the comparison; each
\* of two opposite comparisons holds where the other does not; a comparison
\* that is not known never alerts.
ThresholdIsSound(c) ==
    LET bi(op) == EvaluateThreshold(c.value, op, c.threshold)
        som(op) == EvaluateCondition(c.value, op, c.threshold, c.most)
    IN  /\ \A op \in {"gt", "gte", "lt", "lte", "eq"} : bi(op) = som(op)
        /\ bi("gt") # bi("lte") /\ bi("gte") # bi("lt") /\ bi("eq") # bi("neq")
        /\ som("between") = (som("gte") /\ EvaluateCondition(c.value, "lte", c.most, 0))
        /\ som("change_rate") = EvaluateCondition(-c.value, "change_rate", c.threshold, c.most)
        /\ ~bi("between") /\ ~som("neq")

\* One day more never worsens the status; over at most a hundred days only
\* complete data are excellent; present and missing days make up the period.
PresenceIsSound(c) ==
    LET check(present) == CheckDataCompleteness(present, c.days)
        present == 0..c.days \ c.missing
        levels == <<"poor", "warning", "good", "excellent">>
        rank(s) == CHOOSE n \in 1..4 : levels[n] = s
    IN  /\ check(present).missing = c.missing
        /\ rank(check(present).status) <= rank(check(present \cup {c.more}).status)
        /\ c.days < 99 => (check(present).status = "excellent") = (c.missing = {})
        /\ (check(present).rate = 10000) = (c.missing = {})

\* Setting right the field a rule complains of settles it, or brings up the
\* next field it requires; a rule that is not active is not asked; and a record
\* that lacks a field altogether is treated as if it were blank.
MasterIsSound(c) ==
    LET faults(record) == ValidateRecord(c.rules, record)
        filled(f) == [g \in DOMAIN c.record \cup {f} |-> IF g = f THEN "x" ELSE c.record[g]]
        blanks == [g \in DOMAIN c.record \cup {"f", "g"} |-> IF g \in DOMAIN c.record THEN c.record[g] ELSE ""]
    IN  /\ \A i \in DOMAIN c.rules : \A fault \in faults(c.record)[i] :
               /\ c.rules[i].active
               /\ fault \notin faults(filled(fault.field))[i]
        /\ \A i \in DOMAIN c.rules : Cardinality(faults(c.record)[i]) <= 1
        /\ faults(blanks) = faults(c.record)
        /\ \A i \in DOMAIN c.rules : faults([f \in {"f", "g"} |-> "x"])[i] = {}

\* One rule more is never more lenient, the order of the rules does not matter,
\* and one that is not active, not found or for another kind changes nothing.
ReviewIsSound(c) ==
    LET rank(result) == CASE result = "reject" -> 3 [] result = "warning" -> 2 [] OTHER -> 1
        results(rules) == <<ReviewText(rules, c.language), ReviewImage(rules)>>
        mine == results(c.rules)
        idle(r) == ~r.active \/ ~r.found
    IN  /\ results(Reverse(c.rules)) = mine
        /\ \A i \in DOMAIN c.rules :
               LET less == results(RemoveAt(c.rules, i)) IN
               /\ \A k \in 1..2 : rank(less[k]) <= rank(mine[k])
               /\ idle(c.rules[i]) => less = mine
               /\ c.rules[i].kind = "image" \/ c.rules[i].language \notin {"*", c.language} => less[1] = mine[1]
               /\ c.rules[i].kind = "text" => less[2] = mine[2]
        /\ (\A i \in DOMAIN c.rules : c.rules[i].severity = "warning") => "reject" \notin ToSet(mine)

\* Whatever is upstream of a node has that node downstream; what is downstream
\* of something downstream is so too; a node counts as its own, and nothing is
\* reached but along edges.
LineageIsSound(c) ==
    LET down(n) == TraceDownstream(c.edges, n)
        up(n) == TraceUpstream(c.edges, n)
    IN  \A n, m \in Nodes :
            /\ n \in down(n)
            /\ (m \in down(n)) = (n \in up(m))
            /\ m \in down(n) => down(m) \subseteq down(n)
            /\ m \in down(n) /\ m # n => \E k \in down(n) : <<k, m>> \in c.edges

DecisionIsSound(c) ==
    CASE c.of = "strategies" -> StrategiesAreSound(c)
      [] c.of = "permission" -> PermissionIsSound(c)
      [] c.of = "query" -> QueryIsSound(c)
      [] c.of = "gray" -> GrayIsSound(c)
      [] c.of = "price" -> PriceIsSound(c)
      [] c.of = "market" -> MarketIsSound(c)
      [] c.of = "profit" -> ProfitIsSound(c)
      [] c.of = "ad_budget" -> AdBudgetIsSound(c)
      [] c.of = "pacing" -> PacingIsSound(c)
      [] c.of = "ranking" -> RankingIsSound(c)
      [] c.of = "ad_anomaly" -> AdAnomalyIsSound(c)
      [] c.of = "suggestions" -> SuggestionsAreSound(c)
      [] c.of = "urgency" -> UrgencyIsSound(c)
      [] c.of = "discrepancy" -> DiscrepancyIsSound(c)
      [] c.of = "snapshots" -> SnapshotsAreSound(c)
      [] c.of = "transfer" -> TransferIsSound(c)
      [] c.of = "stock_alerts" -> StockAlertIsSound(c)
      [] c.of = "defect" -> DefectIsSound(c)
      [] c.of = "product" -> ProductIsSound(c)
      [] c.of = "compliance" -> ComplianceIsSound(c)
      [] c.of = "quality" -> QualityIsSound(c)
      [] c.of = "selection" -> SelectionIsSound(c)
      [] c.of = "performance" -> PerformanceIsSound(c)
      [] c.of = "duplicate" -> DuplicateIsSound(c)
      [] c.of = "inquiry" -> InquiryIsSound(c)
      [] c.of = "rating" -> RatingIsSound(c)
      [] c.of = "parcel" -> ParcelIsSound(c)
      [] c.of = "tracking" -> TrackingIsSound(c)
      [] c.of = "shipment" -> ShipmentIsSound(c)
      [] c.of = "change" -> ChangeIsSound(c)
      [] c.of = "series" -> SeriesIsSound(c)
      [] c.of = "outliers" -> OutliersAreSound(c)
      [] c.of = "threshold" -> ThresholdIsSound(c)
      [] c.of = "presence" -> PresenceIsSound(c)
      [] c.of = "master" -> MasterIsSound(c)
      [] c.of = "review" -> ReviewIsSound(c)
      [] c.of = "lineage" -> LineageIsSound(c)
      [] OTHER -> TRUE

\* Every calculation, score and choice agrees with what it is for: see the
\* properties of this module, of Assessments and of Figures.
CalculationsAgree == CalculationIsSound(figure) /\ AssessmentIsSound(figure) /\ DecisionIsSound(figure)

=============================================================================
