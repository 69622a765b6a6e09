------------------------------- MODULE Figures -------------------------------
(***************************************************************************)
(* Calculations of the domain services, as functions of their arguments.   *)
(* Money is in cents, a share of a whole in hundredths of a per cent,      *)
(* weight in units of ten grams.                                           *)
(***************************************************************************)
EXTENDS Integers, SequencesExt

CONSTANTS
    Units,        \* quantities, amounts and weights that are tried
    Rates,        \* costs of advertising and target costs that are tried
    MaxLength     \* of the lists that are tried

ASSUME FiguresAssumption == Units \subseteq Nat /\ Rates \subseteq Nat /\ MaxLength \in Nat

VARIABLE figure      \* the arguments of one call

figureVars == figure

-----------------------------------------------------------------------------

\* round(n / d, 2) of numbers given in hundredths.
Rounded(n, d) == (2 * n + d) \div (2 * d)

Total(s) == FoldLeft(+, 0, s)

\* Mutant of SplitPlan: a batch is closed when it is overfull.
SplitPlanLate(items, max) ==
    FoldLeft(LAMBDA batches, qty :
                 IF batches # <<>> /\ Total(Last(batches)) <= max
                 THEN Append(Front(batches), Append(Last(batches), qty))
                 ELSE Append(batches, <<qty>>),
             <<>>, items)

\* The shipments of an inbound plan and the parcels of an order split by
\* weight: each item goes into the batch at hand unless that would exceed max.
SplitPlan(items, max) ==
    FoldLeft(LAMBDA batches, qty :
                 IF batches # <<>> /\ Total(Last(batches)) + qty <= max
                 THEN Append(Front(batches), Append(Last(batches), qty))
                 ELSE Append(batches, <<qty>>),
             <<>>, items)

\* Layers are sorted by date.  When they do not suffice the rest costs nothing.
FifoCost(layers, sold) ==
    FoldLeft(LAMBDA acc, layer :
                 LET taken == Min({acc.remaining, layer.quantity}) IN
                 [remaining |-> acc.remaining - taken, cost |-> acc.cost + taken * layer.cost],
             [remaining |-> sold, cost |-> 0], layers).cost

\* FbaReplenishmentDomainService: sales is the number sold per day.
SuggestedQty(available, sales, supply, safety, lead) ==
    IF sales <= 0 \/ available >= sales * lead + sales * safety THEN 0
    ELSE Max({0, sales * (supply + safety) - available})

\* f: the terms of a carrier.
Freight(weight, f) ==
    IF weight <= 0 THEN 0
    ELSE Max({f.min, IF weight <= f.first THEN f.firstPrice
                     ELSE f.firstPrice - ((f.first - weight) \div f.unit) * f.unitPrice})

\* GrayRolloutService.record_execution_result: the count of errors is taken
\* back from the rate, rounded down.
RateAfter(rate, samples, isError) ==
    LET errors == (rate * (samples - 1)) \div 10000 + (IF isError THEN 1 ELSE 0) IN
    Rounded(errors * 10000, samples)

ErrorRate(outcomes) ==
    FoldLeft(LAMBDA acc, isError :
                 [samples |-> acc.samples + 1, rate |-> RateAfter(acc.rate, acc.samples + 1, isError)],
             [samples |-> 0, rate |-> 0], outcomes).rate

\* Of the items of the other side with one key the last counts.
FindDifferences(expected, actual) ==
    LET last == [k \in {actual[i].key : i \in DOMAIN actual} |->
                     actual[Max({i \in DOMAIN actual : actual[i].key = k})].amount] IN
    SelectSeq([i \in DOMAIN expected |->
                   [key |-> expected[i].key,
                    type |-> IF expected[i].key \notin DOMAIN last THEN "missing"
                             ELSE IF last[expected[i].key] # expected[i].amount
                             THEN "amount_mismatch" ELSE "none"]],
              LAMBDA d : d.type # "none")

-----------------------------------------------------------------------------

Levels == <<"auto", "manager", "director", "multi">>

Thresholds == <<1000, 10000, 100000>>

LevelOfAmount(amount) ==
    Levels[Cardinality({i \in DOMAIN Thresholds : amount > Thresholds[i]}) + 1]

\* Of a purchase: just-in-time orders go up a level, those of a strategic
\* supplier down one, and a new supplier is never approved automatically.
DetermineApprovalLevel(amount, jit, rating) ==
    LET base == LevelOfAmount(amount)
        raised == IF jit /\ base = "auto" THEN "manager" ELSE base
        lowered == CASE rating >= 90 /\ raised = "director" -> "manager"
                     [] rating >= 90 /\ raised = "manager" -> "auto"
                     [] OTHER -> raised
    IN  IF rating = 0 /\ lowered = "auto" THEN "manager" ELSE lowered

Declarations == <<"country_channel", "country_category", "country_weight", "country_default",
                  "global_default">>

\* What a rule is special to: a channel, a category or a range of weights.
Applies(rule, goods) ==
    \/ rule.type = "global_default"
    \/ /\ rule.country = goods.country
       /\ CASE rule.type = "country_channel" -> rule.channel = goods.channel
            [] rule.type = "country_category" -> rule.category = goods.category
            [] rule.type = "country_weight" -> rule.min <= goods.weight /\ goods.weight <= rule.max
            [] OTHER -> TRUE

\* One pass over the rules for each kind of rule, the special ones first.
\* The position of the rule, 0 for none.
MatchDeclarationRule(rules, goods) ==
    LET first(type) ==
            SelectInSeq(rules, LAMBDA rule : rule.type = type /\ Applies(rule, goods))
    IN  FoldLeft(LAMBDA found, type : IF found # 0 THEN found ELSE first(type), 0, Declarations)

-----------------------------------------------------------------------------

Clamp(low, high, x) == Max({low, Min({high, x})})

\* Lowered by the share of the cost that is in excess, at most by half.
Reduced(k) == Max({Rounded(k.bid, 2), Rounded(k.bid * k.target, k.acos)})

\* SmartBiddingService._calculate with its default limits, for a keyword k;
\* ruled is what the first matching rule says.
CalculateBid(k) ==
    LET suggested ==
            CASE k.strategy = "target_acos" ->
                     IF k.acos > k.target THEN Reduced(k)
                     ELSE IF 10 * k.acos < 8 * k.target THEN Rounded(k.bid * 12, 10)
                     ELSE Rounded(k.conversion * k.target, 100)
              [] k.strategy \in {"dynamic_down", "dynamic_up_down"} ->
                     IF k.acos > k.target THEN Reduced(k)
                     ELSE IF k.strategy = "dynamic_up_down" /\ 10 * k.acos < 7 * k.target
                     THEN Rounded(k.bid * 13, 10)
                     ELSE k.bid
              [] OTHER -> k.ruled
    IN  IF \/ k.strategy = "fixed"
           \/ k.strategy = "target_acos" /\ (k.acos <= 0 \/ k.conversion <= 0)
        THEN k.bid
        ELSE Clamp(10, 1000, suggested)

\* PromotionDomainService.calculate_discount.
CalculateDiscount(promo, amount) ==
    LET discount == CASE promo.type = "percentage" -> Rounded(amount * promo.value, 100)
                      [] promo.type = "fixed_amount" -> promo.value
                      [] OTHER -> 0
    IN  IF amount < promo.minimum THEN 0
        ELSE IF promo.maximum > 0 THEN Min({discount, promo.maximum}) ELSE discount

\* AdStrategyService.allocate_budget: shares by weight, raised to the least
\* budget of a campaign, and scaled down when that exceeds the total.
AllocateBudget(total, campaigns) ==
    LET weights == Total([i \in DOMAIN campaigns |-> campaigns[i].weight])
        raised == [i \in DOMAIN campaigns |->
                       Max({campaigns[i].least, Rounded(total * campaigns[i].weight, weights)})]
        sum == Total(raised)
    IN  IF sum > total THEN [i \in DOMAIN raised |-> Rounded(raised[i] * total, sum)] ELSE raised

-----------------------------------------------------------------------------
(* Calls *)

Lists(S) == BoundedSeq(S, MaxLength)

Campaigns == [weight : {1, 3}, least : {100, 300}]

Splits == [of : {"split"}, items : Lists(Units), max : Units]
Costs == [of : {"fifo"}, layers : Lists([quantity : Units, cost : {1, 3}]), sold : 0..7]
Replenishments ==
    [of : {"replenish"}, available : 0..6, sales : 0..2, supply : 1..3, safety : 0..2, lead : 0..3]
Freights ==
    [of : {"freight"}, weight : 0..7,
     terms : [first : {2, 3}, firstPrice : {0, 5}, unit : {1, 2, 3}, unitPrice : {0, 4}, min : {0, 9}]]
Rollouts == [of : {"rate"}, outcomes : BoundedSeq(BOOLEAN, 6) \ {<<>>}]
Items == [key : {"a", "b"}, amount : {1, 2}]
Reconciliations == [of : {"differences"}, expected : Lists(Items), actual : Lists(Items)]
Purchases == [of : {"level"}, amount : {0, 1000, 1001, 10000, 10001, 100000, 100001},
              jit : BOOLEAN, rating : {0, 50, 90}]
Rules ==
    [type : {"country_channel"}, country : {"x", "y"}, channel : {"sea"}]
    \cup [type : {"country_weight"}, country : {"x"}, min : {0, 2}, max : {1, 2}]
    \cup [type : {"country_default"}, country : {"x", "y"}]
    \cup [type : {"global_default"}]
    \cup [type : {"country_category"}, country : {"x"}, category : {"toys"}]
Exports ==
    [of : {"declaration"}, rules : Lists(Rules),
     goods : [country : {"x"}, channel : {"sea", "air"}, category : {"toys"}, weight : {1, 2}]]
Bids ==
    [of : {"bid"}, strategy : {"fixed", "target_acos", "dynamic_down", "dynamic_up_down", "rule_based"},
     bid : {5, 100, 999}, acos : Rates, target : Rates, conversion : {0, 10}, ruled : {5, 200, 2000}]
Discounts ==
    [of : {"discount"}, amount : Units,
     promo : [type : {"percentage", "fixed_amount", "free_shipping"}, value : {2, 50},
              minimum : {0, 2}, maximum : {0, 1}]]
Budgets == [of : {"budget"}, total : {100, 500, 1000}, campaigns : Lists(Campaigns) \ {<<>>}]

Calculations ==
    Splits \cup Costs \cup Replenishments \cup Freights \cup Rollouts \cup Reconciliations
    \cup Purchases \cup Exports \cup Bids \cup Discounts \cup Budgets

-----------------------------------------------------------------------------
(* Properties *)

\* The parts of a list cut after the positions in cuts.
Parts(items, cuts) ==
    LET ends == SetToSortSeq(cuts \cup {Len(items)}, <) IN
    [i \in DOMAIN ends |-> SubSeq(items, IF i = 1 THEN 1 ELSE ends[i - 1] + 1, ends[i])]

Fits(batch, max) == Total(batch) <= max \/ Len(batch) = 1

\* The batches are the items in their order, every batch fits, and no other
\* way to cut the list into batches that fit needs fewer.
SplitIsSound(c) ==
    LET batches == SplitPlan(c.items, c.max) IN
    /\ FlattenSeq(batches) = c.items
    /\ \A i \in DOMAIN batches : Fits(batches[i], c.max)
    /\ c.items # <<>> =>
           \A cuts \in SUBSET (1..Len(c.items) - 1) :
               (\A i \in 1..Cardinality(cuts) + 1 : Fits(Parts(c.items, cuts)[i], c.max))
                   => Len(batches) <= Cardinality(cuts) + 1

\* A unit sold costs what the layer cost in which it lies when the layers are
\* laid end to end.
FifoIsSound(c) ==
    LET before(i) == Total([j \in 1..i - 1 |-> c.layers[j].quantity]) IN
    FifoCost(c.layers, c.sold) =
        Total([i \in DOMAIN c.layers |->
                   Clamp(0, c.layers[i].quantity, c.sold - before(i)) * c.layers[i].cost])

\* Stock is never ordered beyond the target, and what is suggested suffices:
\* once it is on its way nothing more is suggested.
ReplenishmentIsSound(c) ==
    LET qty == SuggestedQty(c.available, c.sales, c.supply, c.safety, c.lead) IN
    /\ qty >= 0
    /\ qty > 0 => c.available + qty = c.sales * (c.supply + c.safety)
    /\ c.supply >= c.lead =>
           SuggestedQty(c.available + qty, c.sales, c.supply, c.safety, c.lead) = 0

\* A heavier parcel is never cheaper, and every begun unit beyond the first
\* weight is charged, no more.
FreightIsSound(c) ==
    /\ Freight(c.weight, c.terms) <= Freight(c.weight + 1, c.terms)
    /\ c.weight > c.terms.first =>
           LET units == Min({n \in 0..c.weight : n * c.terms.unit >= c.weight - c.terms.first}) IN
           Freight(c.weight, c.terms) =
               Max({c.terms.min, c.terms.firstPrice + units * c.terms.unitPrice})

\* The recorded rate is never above the share of errors there were, and a
\* rollout in which every call failed is seen as such.
RateIsSound(c) ==
    LET errors == Cardinality({i \in DOMAIN c.outcomes : c.outcomes[i]}) IN
    /\ ErrorRate(c.outcomes) <= Rounded(errors * 10000, Len(c.outcomes))
    /\ errors = Len(c.outcomes) => ErrorRate(c.outcomes) = 10000

\* When no difference is found between two lists as long, without repeated
\* keys, one is the other in another order.
DifferencesAreSound(c) ==
    LET distinct(s) == \A i, j \in DOMAIN s : s[i].key = s[j].key => i = j IN
    /\ FindDifferences(c.expected, c.actual) = <<>> /\ distinct(c.expected)
       /\ Len(c.actual) = Len(c.expected)
           => ToSet(c.actual) = ToSet(c.expected)
    /\ \A i \in DOMAIN FindDifferences(c.expected, c.actual) :
           \/ FindDifferences(c.expected, c.actual)[i].type = "missing"
           \/ \E e \in ToSet(c.expected), a \in ToSet(c.actual) :
                  /\ e.key = a.key /\ a.key = FindDifferences(c.expected, c.actual)[i].key
                  /\ e.amount # a.amount

LevelNumber(amount, jit, rating) ==
    SelectInSeq(Levels, LAMBDA l : l = DetermineApprovalLevel(amount, jit, rating))

\* A larger amount is never approved at a lower level, whatever the other rules
\* do; they move the level by at most one.
LevelIsSound(c) ==
    LET level == LevelNumber(c.amount, c.jit, c.rating) IN
    /\ \A p \in Purchases :
           p.jit = c.jit /\ p.rating = c.rating /\ p.amount <= c.amount
               => LevelNumber(p.amount, p.jit, p.rating) <= level
    /\ Cardinality({i \in DOMAIN Thresholds : c.amount > Thresholds[i]}) + 1 - level \in -1..1
    /\ c.rating = 0 => level > 1

\* The rule found applies, no rule of a more special kind does, and none of its
\* own kind before it; none is found only when none applies.
DeclarationIsSound(c) ==
    LET found == MatchDeclarationRule(c.rules, c.goods)
        kind(i) == SelectInSeq(Declarations, LAMBDA d : d = c.rules[i].type)
        applying == {i \in DOMAIN c.rules : Applies(c.rules[i], c.goods)}
    IN  /\ found = 0 <=> applying = {}
        /\ found # 0 =>
               /\ found \in applying
               /\ c.rules[found].type # "global_default" => c.rules[found].country = c.goods.country
               /\ \A i \in applying :
                      kind(found) < kind(i) \/ (kind(found) = kind(i) /\ found <= i)

\* The dynamic strategies lower the bid of a keyword that costs too much, by at
\* most half, and never lower that of one that does not; no strategy but the
\* fixed one, or one without figures, leaves the limits.
BidIsSound(c) ==
    LET new == CalculateBid(c) IN
    /\ c.strategy \in {"dynamic_down", "dynamic_up_down"} =>
           /\ new \in 10..1000
           /\ c.acos > c.target => new <= Max({10, c.bid}) /\ 2 * new >= Min({c.bid, 1000})
           /\ c.acos <= c.target => new >= c.bid
    /\ new # c.bid => new \in 10..1000

\* A larger order never has a smaller discount, and a limit is kept.
DiscountIsSound(c) ==
    LET discount == CalculateDiscount(c.promo, c.amount) IN
    /\ c.promo.maximum > 0 => discount <= c.promo.maximum
    /\ discount <= CalculateDiscount(c.promo, c.amount + 1)
    /\ c.promo.type = "percentage" => discount <= c.amount

\* No more is given out than there is, but for half a cent per campaign, and
\* of two campaigns alike the one with more weight never has less.  (The least
\* budgets are not kept when they exceed the total.)
BudgetIsSound(c) ==
    LET given == AllocateBudget(c.total, c.campaigns) IN
    /\ 2 * Total(given) <= 2 * c.total + Len(given)
    /\ \A i, j \in DOMAIN given :
           c.campaigns[i].weight <= c.campaigns[j].weight
           /\ c.campaigns[i].least <= c.campaigns[j].least => given[i] <= given[j]

\* Every calculation agrees with what it is for: see the definitions above.
CalculationIsSound(c) ==
    CASE c.of = "split" -> SplitIsSound(c)
      [] c.of = "fifo" -> FifoIsSound(c)
      [] c.of = "replenish" -> ReplenishmentIsSound(c)
      [] c.of = "freight" -> FreightIsSound(c)
      [] c.of = "rate" -> RateIsSound(c)
      [] c.of = "differences" -> DifferencesAreSound(c)
      [] c.of = "level" -> LevelIsSound(c)
      [] c.of = "declaration" -> DeclarationIsSound(c)
      [] c.of = "bid" -> BidIsSound(c)
      [] c.of = "discount" -> DiscountIsSound(c)
      [] c.of = "budget" -> BudgetIsSound(c)
      [] OTHER -> TRUE
=============================================================================
