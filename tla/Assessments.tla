----------------------------- MODULE Assessments -----------------------------
(***************************************************************************)
(* Scores, levels and choices of the domain services, as functions of what *)
(* they look at.  What is looked at in a text is given (how long it is,    *)
(* whether it has capitals only), not the text.                            *)
(***************************************************************************)
EXTENDS Figures

Points(n, earned) == IF earned THEN n ELSE 0

-----------------------------------------------------------------------------
(* The content and the health of a listing *)

WordPoints(n) == Points(15, n >= 3) + Points(10, n >= 5)

\* ListingOptimizationDomainService.
ScoreTitle(t) ==
    IF t.length = "none" THEN 0
    ELSE Points(25, t.length = "fits") + WordPoints(t.words) + Points(15, ~t.oneCase)
         + Points(10, ~t.special) + Points(15, ~t.dense) + Points(10, ~t.promises)

ScoreKeywords(k) ==
    IF k.length = "none" THEN 0
    ELSE Points(30, k.length = "fits") + WordPoints(k.words) + Points(20, ~k.inTitle)
         + Points(15, ~k.inBullets) + Points(10, ~k.oneCase)

ScoreBullets(b) ==
    IF b.count = 0 THEN 0
    ELSE Points(25, b.count >= 5) + Points(20, ~b.short) + Points(20, ~b.long)
         + Points(15, ~b.oneCase) + Points(20, ~b.promises)

\* main is "none" when there is no main image.
ScoreImages(main, images) ==
    LET all == IF main = "none" THEN images ELSE <<main>> \o images
        n == Len(all)
    IN  IF n = 0 THEN 0
        ELSE Points(20, n >= 3) + Points(15, n >= 5) + Points(25, main # "none")
             + Points(15, Cardinality(ToSet(all)) = n)
             + Points(15, n >= 5 /\ "scene" \in ToSet(all))
             + Points(10, n >= 2 /\ "chart" \in ToSet(all))

\* In hundredths of a point.
ComputeOverallScore(s) == 30 * s.title + 25 * s.keyword + 25 * s.image + 20 * s.bullet

\* ListingHealthService: what is wanting in a listing h, out of 100 in each part.
HealthParts(h) ==
    [title |-> 100 - (CASE h.title = "blank" -> 50 [] h.title = "short" -> 20
                        [] h.title = "long" -> 10 [] OTHER -> 0)
                   - Points(10, ~h.english) - Points(15, ~h.bullets),
     images |-> 100 - Points(50, ~h.main) - Points(20, h.images < 3)
                    - Points(10, h.images < 1 /\ h.main),
     price |-> 100 - Points(50, h.price <= 0) - Points(20, h.msrp > 0 /\ h.price > h.msrp)
                   - Points(10, h.sale > 0 /\ h.sale >= h.price),
     inventory |-> 100 - (IF h.quantity <= 0 THEN 60 ELSE IF h.quantity < 5 THEN 30
                          ELSE IF h.quantity < 20 THEN 10 ELSE 0),
     status |-> 100 - Points(60, h.onPlatform = "suppressed") - Points(40, h.onPlatform = "inactive")
                    - Points(20, h.status # "published")]

HealthScore(h) ==
    LET p == HealthParts(h) IN
    25 * p.title + 20 * p.images + 20 * p.price + 20 * p.inventory + 15 * p.status

HealthLevels == <<"critical", "poor", "fair", "good", "excellent">>

\* How many of the limits n has reached, and one.
Reached(n, limits) == Cardinality({i \in DOMAIN limits : n >= limits[i]}) + 1

HealthLevel(h) == HealthLevels[Reached(HealthScore(h), <<4000, 6000, 7500, 9000>>)]

-----------------------------------------------------------------------------
(* Customers: silence is the number of days since the last order.  The only *)
(* order of a customer is the first and the last.                           *)

Recency(silence) ==
    5 - Cardinality({i \in 1..4 : silence > <<30, 60, 90, 180>>[i]})

\* CustomerLifecycleService._calculate_rfm; the average order is rated.
LifecycleRfm(c) ==
    [r |-> Recency(c.silence), f |-> Reached(c.orders, <<2, 3, 5, 10>>),
     m |-> IF c.orders = 0 THEN 1
           ELSE Reached(c.amount, [i \in 1..4 |-> <<50, 100, 200, 500>>[i] * c.orders])]

\* RFMAnalysisService.calculate_rfm_scores; what was spent in all is rated.
RfmScores(c) ==
    [r |-> Recency(c.silence), f |-> Reached(c.orders, <<2, 5, 10, 20>>),
     m |-> Reached(c.amount, <<200, 1000, 5000, 10000>>)]

ClassifySegment(s) ==
    CASE s.r >= 4 /\ s.f >= 4 /\ s.m >= 4 -> "vip"
      [] s.r >= 3 /\ s.f >= 3 /\ s.m >= 3 /\ (s.r < 4 \/ s.f < 4 \/ s.m < 4) -> "high_value"
      [] s.r >= 3 /\ s.f < 3 -> "new_potential"
      [] s.r < 3 /\ s.f >= 3 -> "at_risk"
      [] s.r < 2 /\ s.f < 2 -> "churned"
      [] OTHER -> "normal"

\* CustomerLifecycleService.evaluate_lifecycle; gap is the average number of
\* days between orders.
EvaluateLifecycle(c) ==
    IF c.orders = 0 THEN "prospect"
    ELSE IF c.orders = 1 /\ c.silence <= 30 THEN "new"
    ELSE IF c.silence <= 90 /\ c.gap <= 30 THEN "loyal"
    ELSE IF c.orders >= 2 /\ c.silence <= 90 THEN "active"
    ELSE IF c.orders >= 2 /\ c.silence <= 180 THEN "at_risk"
    ELSE IF c.silence > 180 THEN "churned"
    ELSE "new"

\* The service of the same name in the application layer.
IdentifyStage(c) ==
    IF c.orders = 0 THEN "prospect"
    ELSE IF c.orders = 1 THEN (IF c.silence <= 30 THEN "new" ELSE "one_time")
    ELSE IF c.silence <= 30 THEN "active"
    ELSE IF c.silence <= 90 THEN "declining"
    ELSE IF c.silence <= 180 THEN "at_risk"
    ELSE "churned"

\* ChurnPredictionService; tickets are those of the last month.
ChurnScore(c) ==
    (IF c.orders = 0 THEN 0
     ELSE Points(10, c.silence > 60) + Points(15, c.silence > 90) + Points(15, c.silence > 180))
    + Points(5, c.tickets >= 1) + Points(15, c.tickets >= 3) + Points(15, c.orders = 1)

ChurnRisk(c) == <<"low", "medium", "high", "critical">>[Reached(ChurnScore(c), <<30, 50, 70>>)]

-----------------------------------------------------------------------------
(* The risk of an order: what is remarkable about it *)

Remarks ==
    [high_amount |-> 30, high_quantity |-> 20, suspicious_email |-> 15, risky_country |-> 25,
     high_frequency_buyer |-> 20, previous_fraud_history |-> 35,
     different_billing_shipping |-> 5, ip_country_mismatch |-> 15]

\* OrderRiskChecker.check: an order of high risk does not pass.
RiskCheck(flags) ==
    LET score == MapThenSumSet(LAMBDA flag : Remarks[flag], flags) IN
    <<"low", "medium", "high">>[Reached(score, <<25, 50>>)]

\* OrderRiskControlService.evaluate_risk.  The orders of an unknown buyer
\* cannot be counted.
EvaluateRisk(o) ==
    LET score == Points(25, o.large) + Points(10, o.many) + Points(15, o.buyer = "unknown")
                 + Points(15, o.buyer # "unknown" /\ o.others >= 3)
    IN  <<"low", "medium", "high", "critical">>[Reached(score, <<10, 25, 40>>)]

-----------------------------------------------------------------------------
(* Stock and sales *)

\* ReplenishmentDomainService of purchasing.
CalculateReplenishQty(c) ==
    LET point == c.daily * (c.lead + c.cycle) + c.daily * c.safety
        need == point - c.stock - c.inbound
        gap == IF c.maxDays > 0 THEN Min({need, Max({0, c.daily * c.maxDays - c.stock})}) ELSE need
    IN  IF c.daily <= 0 \/ gap <= 0 THEN 0 ELSE Max({gap, c.least})

Ordinary(days) == SelectSeq(days, LAMBDA d : ~d.special)

\* The days without promotions and without shortage, but those farther than
\* one and a half times the interquartile range from the quartiles.
DenoiseSales(days) ==
    LET qtys == SortSeq([i \in DOMAIN Ordinary(days) |-> Ordinary(days)[i].qty], <)
        n == Len(qtys)
        q1 == qtys[n \div 4 + 1]
        q3 == qtys[(3 * n) \div 4 + 1]
    IN  IF n = 0 THEN days
        ELSE SelectSeq(Ordinary(days),
                       LAMBDA d : 2 * d.qty \in 2 * q1 - 3 * (q3 - q1)..2 * q3 + 3 * (q3 - q1))

\* SlowMovingService.classify_movement; sales are those of thirty days.
ClassifyMovement(stock, sales) ==
    LET days == IF sales <= 0 THEN 999 ELSE Rounded(30 * stock, sales) IN
    IF stock <= 0 THEN "out_of_stock"
    ELSE IF days >= 180 THEN "slow_moving"
    ELSE IF days >= 90 THEN "warning"
    ELSE "normal"

SuggestClearancePrice(cost, price, stock) ==
    IF stock <= 0 THEN 0
    ELSE LET share == IF stock <= 10 THEN 70 ELSE IF stock <= 50 THEN 60 ELSE 50 IN
         Max({Rounded(price * share, 100), Rounded(cost * 80, 100)})

\* MetricAggregationService: each run for a day adds a row with the sum of the
\* hours of that day, the run for the month sums up the rows.
AggregateToMonthly(hours, runs) ==
    LET aggregateToDaily(day) ==
            Total([i \in DOMAIN hours |-> Points(hours[i].value, hours[i].day = day)])
    IN  Total([i \in DOMAIN runs |-> aggregateToDaily(runs[i])])

-----------------------------------------------------------------------------
(* Orders: parts, discounts, fees, declared values, freight *)

\* OrderSplitEngine: the parts as lists of the positions of items.
PartsByWarehouse(items) ==
    LET warehouses ==
            FoldLeft(LAMBDA seen, item : IF item.warehouse \in ToSet(seen) THEN seen
                                         ELSE Append(seen, item.warehouse), <<>>, items)
    IN  [w \in DOMAIN warehouses |->
             SelectSeq([i \in DOMAIN items |-> i],
                       LAMBDA i : items[i].warehouse = warehouses[w])]

PartsByWeight(items, max) ==
    LET batches == SplitPlan([i \in DOMAIN items |-> items[i].weight], max)
        before(b) == Total([k \in 1..b - 1 |-> Len(batches[k])])
    IN  [b \in DOMAIN batches |-> [j \in DOMAIN batches[b] |-> before(b) + j]]

\* The first rule of a known type decides.
EvaluateSplit(items, rules, max) ==
    LET whole == <<[i \in DOMAIN items |-> i]>>
        known == {"by_warehouse", "by_platform", "by_weight", "by_sku"}
        r == SelectInSeq(rules, LAMBDA rule : rule \in known)
    IN  IF r = 0 \/ items = <<>> THEN whole
        ELSE CASE rules[r] = "by_warehouse" -> PartsByWarehouse(items)
               [] rules[r] = "by_weight" -> PartsByWeight(items, max)
               [] OTHER -> whole

\* The query of the active promotions: one of a platform is left out whenever
\* the order names its platform.
ListActiveForDiscount(promos, order) ==
    SelectSeq(promos, LAMBDA p : /\ p.minimum <= order.amount
                                 /\ order.platform # "none" => p.platform = "all")

IsApplicable(p, sku) == p.skus = {} \/ sku = "none" \/ sku \in p.skus

IsWithinUsageLimit(p) == p.limit <= 0 \/ p.used < p.limit

\* The promotions in the order of their priority.
CalculateOrderDiscount(promos, order) ==
    FoldLeft(LAMBDA acc, p :
                 LET discount == CalculateDiscount(p, order.amount) IN
                 IF \/ acc.closed \/ discount <= 0
                    \/ ~IsApplicable(p, order.sku) \/ ~IsWithinUsageLimit(p)
                 THEN acc
                 ELSE [total |-> acc.total + discount, applied |-> Append(acc.applied, p),
                       closed |-> ~p.canStack],
             [total |-> 0, applied |-> <<>>, closed |-> FALSE],
             ListActiveForDiscount(promos, order))

FinalAmount(promos, order) == Max({0, order.amount - CalculateOrderDiscount(promos, order).total})

MatchTier(tier, call) ==
    tier.min <= call[tier.by] /\ (tier.max = 0 \/ call[tier.by] < tier.max)

\* In cents, where amounts are whole.
TierFee(tier, call) ==
    CASE tier.charge = "fee" -> 100 * tier.n
      [] tier.charge = "rate" -> call.amount * tier.n
      [] tier.charge = "fee_per_kg" -> 100 * call.weight * tier.n
      [] tier.charge = "rate_per_unit_per_day" -> 100 * call.quantity * call.days * tier.n

StrategyFee(s, call) ==
    CASE s.method = "percentage" -> call.amount * s.n
      [] s.method = "fixed" -> 100 * s.n
      [] s.method = "tiered" ->
             LET t == SelectInSeq(s.tiers, LAMBDA tier : MatchTier(tier, call)) IN
             IF t = 0 THEN 0 ELSE TierFee(s.tiers[t], call)
      [] s.method = "formula" -> 100 * s.n      \* the base fee, whatever the formula says

\* The strategies of one kind of fee, that of the highest priority first.
MatchedStrategy(strategies, call) ==
    SelectInSeq(strategies, LAMBDA s : s.inForce /\ s.platform \in {"any", call.platform})

WithinLimits(s, fee) ==
    LET raised == IF s.least # 0 /\ fee < s.least THEN s.least ELSE fee IN
    IF s.most > 0 /\ raised > s.most THEN s.most ELSE raised

\* Only when a strategy matches.
CalculateFee(strategies, call) ==
    LET s == strategies[MatchedStrategy(strategies, call)] IN WithinLimits(s, StrategyFee(s, call))

\* ratio in hundredths; fixed is the amount of the rule, 0 for none.
CalculateDeclaredValue(total, fixed, ratio, least, most) ==
    LET declared == IF fixed > 0 THEN fixed ELSE Rounded(total * ratio, 100) IN
    IF least > 0 /\ declared < least THEN least
    ELSE IF most > 0 /\ declared > most THEN most
    ELSE declared

\* FreightSettlementService: a method that nobody quoted costs nothing.
QuotedCost(s, quotes) ==
    LET q == SelectInSeq(quotes, LAMBDA quote : quote.method = s.method) IN
    IF q = 0 THEN 0 ELSE quotes[q].base + s.weight * quotes[q].perKg

CompareWithQuotation(shipments, quotes) ==
    LET diff(i) == shipments[i].cost - QuotedCost(shipments[i], quotes) IN
    [total |-> Total([i \in DOMAIN shipments |-> shipments[i].cost])
               - Total([i \in DOMAIN shipments |-> QuotedCost(shipments[i], quotes)]),
     differences |-> SelectSeq([i \in DOMAIN shipments |-> [shipment |-> i, diff |-> diff(i)]],
                               LAMBDA d : d.diff # 0)]

-----------------------------------------------------------------------------
(* Calls *)

Titles == [length : {"none", "short", "fits", "long"}, words : {1, 3, 5}, oneCase : BOOLEAN,
           special : BOOLEAN, dense : BOOLEAN, promises : BOOLEAN]
Keywords == [length : {"none", "short", "fits"}, words : {0, 3, 5}, inTitle : BOOLEAN,
             inBullets : BOOLEAN, oneCase : BOOLEAN]
BulletLists == [count : {0, 4, 5}, short : BOOLEAN, long : BOOLEAN, oneCase : BOOLEAN,
                promises : BOOLEAN]
Contents ==
    [of : {"content"}, part : {"title"}, text : Titles]
    \cup [of : {"content"}, part : {"keyword"}, text : Keywords]
    \cup [of : {"content"}, part : {"bullet"}, text : BulletLists]
Overalls == [of : {"overall"}, title : {0, 45, 100}, keyword : {0, 70, 100}, image : {0, 60, 100},
             bullet : {0, 75, 100}]
Pictures == {"plain", "side", "scene", "chart"}
Galleries == [of : {"images"}, main : {"none", "front", "plain"}, images : BoundedSeq(Pictures, 5)]
Healths ==
    [of : {"health"}, title : {"blank", "short", "fits", "long"}, english : BOOLEAN,
     bullets : BOOLEAN, main : BOOLEAN, images : {0, 2, 3}, price : {0, 2}, msrp : {0, 1},
     sale : {0, 2}, quantity : {0, 4, 5, 19, 20}, onPlatform : {"active", "inactive", "suppressed"},
     status : {"draft", "published"}]
Silences == {0, 30, 31, 60, 61, 90, 91, 180, 181}
Customers ==
    [of : {"customer"}, orders : {0, 1, 2, 4, 5, 10, 20}, amount : {0, 199, 1000, 5000, 20000},
     silence : Silences, gap : {0, 30, 31}, tickets : {0, 1, 3}]
Suspicions == [of : {"risk"}, flags : SUBSET DOMAIN Remarks]
Evaluations == [of : {"evaluation"}, large : BOOLEAN, many : BOOLEAN, buyer : {"known", "unknown"},
                others : {0, 2, 3}]
Purchasings ==
    [of : {"purchasing"}, daily : 0..2, stock : {0, 3, 9}, inbound : {0, 2, 9}, safety : {0, 2},
     lead : {1, 2}, cycle : {0, 1}, maxDays : {0, 2, 4}, least : {1, 5}]
Sales == [of : {"sales"}, days : BoundedSeq([qty : {1, 2, 9}, special : BOOLEAN], 5)]
Clearances == [of : {"clearance"}, stock : {0, 1, 10, 11, 50, 51, 300}, sales : {0, 1, 15, 90},
               cost : {100, 999}, price : {100, 1001}]
Hours == [day : {1, 2}, value : {1, 3}]
Aggregations == [of : {"aggregation"}, hours : Lists(Hours), runs : Lists({1, 2})]
OrderSplits ==
    [of : {"order_split"}, items : Lists([warehouse : {"x", "y"}, weight : {1, 2, 4}]), max : {3},
     rules : {<<>>, <<"other">>, <<"by_sku">>, <<"by_weight">>, <<"other", "by_warehouse", "by_weight">>}]
Promotions ==
    [type : {"percentage", "fixed_amount"}, value : {50}, minimum : {0, 60}, maximum : {0},
     platform : {"all", "x"}, skus : {{}, {"a"}}, limit : {0, 1}, used : {1}, canStack : BOOLEAN]
Orders ==
    [of : {"order"}, promos : BoundedSeq(Promotions, 2),
     order : [amount : {40, 100}, platform : {"none", "x"}, sku : {"a", "b"}]]
TierLists(by, charge) ==
    {<<[by |-> by, charge |-> charge, min |-> 0, max |-> 2, n |-> 6],
       [by |-> by, charge |-> charge, min |-> 2, max |-> 4, n |-> n],
       [by |-> by, charge |-> charge, min |-> 4, max |-> 0, n |-> 1]>> : n \in {2, 5}}
AllTiers ==
    TierLists("amount", "rate") \cup TierLists("weight", "fee") \cup TierLists("weight", "fee_per_kg")
    \cup TierLists("days", "rate_per_unit_per_day")
Strategies ==
    [method : {"tiered"}, tiers : AllTiers, inForce : {TRUE}, platform : {"any"},
     least : {0, 300}, most : {0, 500}]
    \cup [method : {"percentage", "fixed", "formula"}, n : {3}, inForce : BOOLEAN,
          platform : {"any", "x"}, least : {0, 300}, most : {500}]
Fees ==
    [of : {"fee"}, strategies : BoundedSeq(Strategies, 2),
     call : [platform : {"x", "y"}, amount : {3}, weight : {1, 2, 4}, days : {2}, quantity : {2}]]
DeclaredValues ==
    [of : {"declared"}, total : {0, 1, 150, 1000}, fixed : {0, 700}, ratio : {0, 33, 100},
     least : {0, 100}, most : {0, 500}]
FreightBills ==
    [of : {"freight_bill"}, shipments : BoundedSeq([method : {"m", "n"}, weight : {1, 2}, cost : {3, 5}], 2),
     quotes : BoundedSeq([method : {"m", "n"}, base : {1}, perKg : {1, 2}], 2)]

Assessed ==
    Contents \cup Overalls \cup Galleries \cup Healths \cup Customers \cup Suspicions \cup Evaluations
    \cup Purchasings \cup Sales \cup Clearances \cup Aggregations \cup OrderSplits \cup Orders
    \cup Fees \cup DeclaredValues \cup FreightBills
-----------------------------------------------------------------------------
(* Properties *)

ContentScore(part, text) ==
    CASE part = "title" -> ScoreTitle(text) [] part = "keyword" -> ScoreKeywords(text)
      [] part = "bullet" -> ScoreBullets(text)

\* The text better has none of the faults that worse has not.
Improves(worse, better) ==
    \A f \in DOMAIN worse :
        CASE f = "length" -> better[f] \in {worse[f], "fits"} \/ worse[f] = "none"
          [] f \in {"words", "count"} -> better[f] >= worse[f]
          [] OTHER -> better[f] => worse[f]

\* A text that is improved never loses points, and the best has all of them.
ContentIsSound(c) ==
    LET texts == CASE c.part = "title" -> Titles [] c.part = "keyword" -> Keywords
                   [] c.part = "bullet" -> BulletLists
    IN  /\ \A t \in texts : Improves(c.text, t) => ContentScore(c.part, c.text) <= ContentScore(c.part, t)
        /\ (\A t \in texts : Improves(t, c.text)) => ContentScore(c.part, c.text) = 100
        /\ ContentScore(c.part, c.text) \in 0..100

\* The whole is neither worse than all of its parts nor better than all.
OverallIsSound(c) ==
    LET parts == {c.title, c.keyword, c.image, c.bullet} IN
    ComputeOverallScore(c) \in 100 * Min(parts)..100 * Max(parts)

\* Another image never costs points unless it is there already, a main image
\* not even then.  (To repeat an image can earn points: the fifth earns what
\* the repetition costs.)
ImagesAreSound(c) ==
    /\ \A p \in Pictures :
           p \notin ToSet(c.images) \cup {c.main}
               => ScoreImages(c.main, c.images) <= ScoreImages(c.main, Append(c.images, p))
    /\ ScoreImages("none", c.images) <= ScoreImages(c.main, c.images)
    /\ ScoreImages(c.main, c.images) <= 100

\* What is out of stock is never excellent, more stock never lowers the level,
\* and only a listing wanting in all five parts is critical.  (A suppressed
\* one may be excellent.)
HealthIsSound(h) ==
    LET level(g) == SelectInSeq(HealthLevels, LAMBDA l : l = HealthLevel(g)) IN
    /\ h.quantity <= 0 => HealthLevel(h) # "excellent"
    /\ \A q \in {0, 4, 5, 19, 20} : q >= h.quantity => level([h EXCEPT !.quantity = q]) >= level(h)
    /\ HealthLevel(h) = "critical" => \A part \in DOMAIN HealthParts(h) : HealthParts(h)[part] < 100

\* The two services agree on how recent the last order is and, of a customer
\* with two orders, on the risk and on the loss; longer silence never warms
\* such a customer, and a segment of value needs an order in ninety days.
\* Critical is only the risk of who ordered once, long ago, and complains.
CustomerIsSound(c) ==
    LET warmth(d) == SelectInSeq(<<"churned", "at_risk", "active", "loyal">>,
                                 LAMBDA s : s = EvaluateLifecycle(d)) IN
    /\ LifecycleRfm(c).r = RfmScores(c).r
    /\ c.orders >= 2 =>
           /\ \A s \in {"at_risk", "churned"} : EvaluateLifecycle(c) = s <=> IdentifyStage(c) = s
           /\ \A s \in Silences : s >= c.silence => warmth([c EXCEPT !.silence = s]) <= warmth(c)
    /\ ClassifySegment(RfmScores(c)) \in {"vip", "high_value", "new_potential"} => c.silence <= 90
    /\ \A s \in Silences : s >= c.silence => ChurnScore([c EXCEPT !.silence = s]) >= ChurnScore(c)
    /\ ChurnRisk(c) = "critical" => c.orders = 1 /\ c.silence > 180 /\ c.tickets >= 3

\* One remark never stops an order, two only when one of them is the amount or
\* an earlier fraud, and such a fraud never goes unnoticed.
RiskIsSound(c) ==
    LET grave == {"high_amount", "previous_fraud_history"} IN
    /\ RiskCheck(c.flags) = "high" =>
           /\ Cardinality(c.flags) >= 2
           /\ Cardinality(c.flags) = 2 => c.flags \cap grave # {}
    /\ "previous_fraud_history" \in c.flags => RiskCheck(c.flags) # "low"

\* Critical, the level of three approvals, are large orders only.
EvaluationIsSound(o) ==
    /\ EvaluateRisk(o) = "critical" => o.large
    /\ o.large => EvaluateRisk(o) \in {"high", "critical"}

\* What is suggested stays under the reorder point or is the least that can be
\* ordered, and under the greatest stock with what is there.  Unless that
\* greatest stock is near, once it is on its way nothing more is suggested.
PurchasingIsSound(c) ==
    LET qty == CalculateReplenishQty(c)
        point == c.daily * (c.lead + c.cycle + c.safety)
    IN  qty > 0 =>
            /\ c.stock + c.inbound < point
            /\ qty > c.least => c.stock + c.inbound + qty <= point
            /\ c.maxDays > 0 /\ qty > c.least => c.stock + qty <= c.daily * c.maxDays
            /\ c.maxDays = 0 => CalculateReplenishQty([c EXCEPT !.inbound = @ + qty]) = 0

\* At least half of the ordinary days are kept, and no day between two that
\* are kept is left out.
SalesAreSound(c) ==
    LET kept == DenoiseSales(c.days)
        qtys == {kept[i].qty : i \in DOMAIN kept}
    IN  Ordinary(c.days) # <<>> =>
            /\ 2 * Len(kept) >= Len(Ordinary(c.days))
            /\ SelectSeq(Ordinary(c.days), LAMBDA d : d.qty \in Min(qtys)..Max(qtys)) = kept

\* More stock of what sells no faster never counts as moving faster, and is
\* never cleared at a higher price; none is cleared far below its cost.
ClearanceIsSound(c) ==
    LET pace(stock) == SelectInSeq(<<"slow_moving", "warning", "normal">>,
                                   LAMBDA m : m = ClassifyMovement(stock, c.sales)) IN
    c.stock > 0 =>
        /\ \A stock \in {10, 11, 50, 51, 300} :
               stock >= c.stock =>
                   /\ pace(stock) <= pace(c.stock)
                   /\ SuggestClearancePrice(c.cost, c.price, stock)
                          <= SuggestClearancePrice(c.cost, c.price, c.stock)
        /\ 100 * SuggestClearancePrice(c.cost, c.price, c.stock) >= 80 * c.cost - 50

\* The month is the sum of its hours when every day was aggregated once, and
\* more only when one was aggregated again.
AggregationIsSound(c) ==
    LET hours == Total([i \in DOMAIN c.hours |-> c.hours[i].value]) IN
    /\ {c.hours[i].day : i \in DOMAIN c.hours} \subseteq ToSet(c.runs)
           => AggregateToMonthly(c.hours, c.runs) >= hours
    /\ Cardinality(ToSet(c.runs)) = Len(c.runs) => AggregateToMonthly(c.hours, c.runs) <= hours

\* Every item is in one part, no part is empty, the items keep their order,
\* and a part has one warehouse or is not too heavy where the rule says so.
OrderSplitIsSound(c) ==
    LET parts == EvaluateSplit(c.items, c.rules, c.max)
        whole == FlattenSeq(parts)
        decided(rule) == SelectSeq(c.rules, LAMBDA r : r # "other") \in {<<rule>>, <<rule, "by_weight">>}
    IN  c.items # <<>> =>
            /\ Len(whole) = Len(c.items) /\ ToSet(whole) = DOMAIN c.items
            /\ \A p \in DOMAIN parts :
                   /\ parts[p] # <<>>
                   /\ \A i, j \in DOMAIN parts[p] : i < j => parts[p][i] < parts[p][j]
                   /\ decided("by_weight") =>
                          Fits([i \in DOMAIN parts[p] |-> c.items[parts[p][i]].weight], c.max)
                   /\ decided("by_warehouse") =>
                          ToSet(parts[p]) = {i \in DOMAIN c.items :
                                  c.items[i].warehouse = c.items[Head(parts[p])].warehouse}

\* Only the last promotion applied may be one that cannot be combined, what is
\* left out after none such does not apply, and another promotion at the end
\* never makes the order dearer.
OrderIsSound(c) ==
    LET result == CalculateOrderDiscount(c.promos, c.order) IN
    /\ \A i \in 1..Len(result.applied) - 1 : result.applied[i].canStack
    /\ ~result.closed =>
           \A p \in ToSet(c.promos) \ ToSet(result.applied) :
               \/ p.minimum > c.order.amount \/ (p.platform # "all" /\ c.order.platform # "none")
               \/ (p.skus # {} /\ c.order.sku \notin p.skus) \/ p.limit = 1
    /\ \A i \in DOMAIN c.promos :
           FinalAmount(c.promos, c.order) <= FinalAmount(SubSeq(c.promos, 1, i), c.order)

\* A strategy that is not in force or for another platform decides nothing,
\* the fee keeps its limits, and tiers that adjoin give one fee in any order.
FeeIsSound(c) ==
    LET i == MatchedStrategy(c.strategies, c.call)
        s == c.strategies[i]
        fee == CalculateFee(c.strategies, c.call)
    IN  IF i = 0
        THEN \A k \in DOMAIN c.strategies :
                 ~c.strategies[k].inForce \/ c.strategies[k].platform \notin {"any", c.call.platform}
        ELSE /\ s.inForce
             /\ fee >= s.least /\ (s.most > 0 => fee <= s.most)
             /\ s.method = "tiered" =>
                    /\ fee = CalculateFee(<<[s EXCEPT !.tiers = Reverse(@)]>>, c.call)
                    /\ Cardinality({t \in DOMAIN s.tiers : MatchTier(s.tiers[t], c.call)}) = 1

\* The value lies within its limits, and goods worth more are never declared
\* at less.
DeclaredIsSound(c) ==
    LET value(total) == CalculateDeclaredValue(total, c.fixed, c.ratio, c.least, c.most) IN
    /\ c.least > 0 => value(c.total) >= c.least
    /\ c.most > 0 => value(c.total) <= c.most
    /\ value(c.total) <= value(c.total + 1)

\* The difference in all is the sum of those that are listed, and a bill that
\* is what was quoted has none.
FreightBillIsSound(c) ==
    LET bill == CompareWithQuotation(c.shipments, c.quotes) IN
    /\ bill.total = Total([i \in DOMAIN bill.differences |-> bill.differences[i].diff])
    /\ CompareWithQuotation([i \in DOMAIN c.shipments |->
           [c.shipments[i] EXCEPT !.cost = QuotedCost(c.shipments[i], c.quotes)]], c.quotes).differences
           = <<>>

AssessmentIsSound(c) ==
    CASE c.of = "content" -> ContentIsSound(c)
      [] c.of = "overall" -> OverallIsSound(c)
      [] c.of = "images" -> ImagesAreSound(c)
      [] c.of = "health" -> HealthIsSound(c)
      [] c.of = "customer" -> CustomerIsSound(c)
      [] c.of = "risk" -> RiskIsSound(c)
      [] c.of = "evaluation" -> EvaluationIsSound(c)
      [] c.of = "purchasing" -> PurchasingIsSound(c)
      [] c.of = "sales" -> SalesAreSound(c)
      [] c.of = "clearance" -> ClearanceIsSound(c)
      [] c.of = "aggregation" -> AggregationIsSound(c)
      [] c.of = "order_split" -> OrderSplitIsSound(c)
      [] c.of = "order" -> OrderIsSound(c)
      [] c.of = "fee" -> FeeIsSound(c)
      [] c.of = "declared" -> DeclaredIsSound(c)
      [] c.of = "freight_bill" -> FreightBillIsSound(c)
      [] OTHER -> TRUE
=============================================================================
