--------------------------- MODULE DecisionProofs ---------------------------
(***************************************************************************)
(* What the calculations of Decisions answer, proved for every argument    *)
(* they take, and with CalculationProofs the invariant of the run that     *)
(* tries them.                                                             *)
(***************************************************************************)
EXTENDS CalculationProofs

-----------------------------------------------------------------------------
(* Numbers, lists and folds *)

\* A share grows with its part and is not positive when its part is not.
LEMMA ShareIs ==
    ASSUME NEW a \in Int, NEW b \in Int, NEW w \in Int
    PROVE  /\ Share(a, w) \in Int
           /\ a <= b => Share(a, w) <= Share(b, w)
           /\ a <= 0 => Share(a, w) <= 0
<1>1. CASE w > 0
  <2>1. 10000 * a \in Int /\ 10000 * b \in Int /\ w \in Nat \ {0} /\ (a <= b => 10000 * a <= 10000 * b)
        /\ (a <= 0 => 10000 * a <= w * 0) /\ 0 \in Int
    BY <1>1
  <2>2. Rounded(10000 * a, w) \in Int
    BY ONLY <2>1, Rounds
  <2>3. a <= b => Rounded(10000 * a, w) <= Rounded(10000 * b, w)
    BY ONLY <2>1, RoundedMonotone
  <2>4. a <= 0 => Rounded(10000 * a, w) <= 0
    BY ONLY <2>1, RoundedBounds
  <2>. QED BY <1>1, <2>2, <2>3, <2>4 DEF Share
<1>2. CASE w <= 0
  BY <1>2 DEF Share
<1>. QED BY <1>1, <1>2

\* A list of three or four steps, as a choice.
Step4(n, a, b, d) == IF n >= d THEN 4 ELSE IF n >= b THEN 3 ELSE IF n >= a THEN 2 ELSE 1

\* A sum lies between as many times a lower and an upper bound of its summands.
LEMMA TotalBetween ==
    ASSUME NEW n \in Nat, NEW s \in [1..n -> Int], NEW low \in Int, NEW high \in Int,
           \A i \in 1..n : low <= s[i] /\ s[i] <= high
    PROVE  n * low <= Total(s) /\ Total(s) <= n * high
<1>. DEFINE a == [i \in 1..n |-> low]
            b == [i \in 1..n |-> high]
<1>1. a \in [1..n -> Int] /\ b \in [1..n -> Int] /\ \A i \in 1..n : a[i] <= s[i] /\ s[i] <= b[i]
  OBVIOUS
<1>2. Total(a) = n * low /\ Total(b) = n * high
  BY TotalSame
<1>. HIDE DEF a, b
<1>3. Total(a) <= Total(s) /\ Total(s) <= Total(b)
  BY <1>1, TotalGrows
<1>. QED BY <1>2, <1>3

-----------------------------------------------------------------------------
(* What an AI may execute *)

Policies(A) == [enabled : BOOLEAN, exists : BOOLEAN, single : Nat, daily : Nat, allowed : SUBSET A,
                blocked : SUBSET A, ips : SUBSET A, hours : Seq(Nat)]

\* The statements about what an AI may execute hold for any policy and amount.
LEMMA PermissionHolds ==
    ASSUME NEW A, NEW c, c.policy \in Policies(A), c.amount \in Int
    PROVE  PermissionIsSound(c)
<1>. DEFINE p == c.policy
            lifted == {[p EXCEPT !.single = 0], [p EXCEPT !.daily = 0], [p EXCEPT !.allowed = {}],
                       [p EXCEPT !.blocked = {}], [p EXCEPT !.ips = {}], [p EXCEPT !.hours = <<>>],
                       [p EXCEPT !.exists = FALSE], [p EXCEPT !.enabled = TRUE]}
<1>0. p \in Policies(A)
  OBVIOUS
<1>. HIDE DEF p
<1>1. SUFFICES ASSUME NEW operation \in {"a", "b"}, NEW ip \in {"unknown", "i", "j"}, NEW hour \in 0..3
      PROVE  /\ CheckExecutionAllowed(p, c.amount, operation, ip, hour) =>
                    /\ p.enabled
                    /\ \A q \in lifted : CheckExecutionAllowed(q, c.amount, operation, ip, hour)
                    /\ CheckExecutionAllowed(p, c.amount - 1, operation, ip, hour)
             /\ p.exists /\ p.hours = <<2, 1>> => ~CheckExecutionAllowed(p, c.amount, operation, ip, hour)
  BY DEF PermissionIsSound, p
<1>2. p.exists /\ p.hours = <<2, 1>> => ~CheckExecutionAllowed(p, c.amount, operation, ip, hour)
  BY DEF CheckExecutionAllowed
<1>3. ASSUME CheckExecutionAllowed(p, c.amount, operation, ip, hour)
      PROVE  p.enabled /\ CheckExecutionAllowed(p, c.amount - 1, operation, ip, hour)
  <2>. p.single \in Nat /\ p.daily \in Nat
    BY <1>0 DEF Policies
  <2>. QED BY <1>3 DEF CheckExecutionAllowed
<1>4. ASSUME CheckExecutionAllowed(p, c.amount, operation, ip, hour), NEW q \in lifted
      PROVE  CheckExecutionAllowed(q, c.amount, operation, ip, hour)
  <2>1. /\ q.enabled = p.enabled \/ q.enabled = TRUE
        /\ q.exists = p.exists \/ q.exists = FALSE
        /\ q.single = p.single \/ q.single = 0
        /\ q.daily = p.daily \/ q.daily = 0
        /\ q.allowed = p.allowed \/ q.allowed = {}
        /\ q.blocked = p.blocked \/ q.blocked = {}
        /\ q.ips = p.ips \/ q.ips = {}
        /\ q.hours = p.hours \/ q.hours = <<>>
    BY <1>0, <1>4 DEF Policies
  <2>. QED BY <1>4, <2>1 DEF CheckExecutionAllowed
<1>. QED BY <1>2, <1>3, <1>4

-----------------------------------------------------------------------------
(* What the PMS may see *)

\* The statements about what the PMS may see hold for any policy and request.
LEMMA QueryHolds ==
    ASSUME NEW A, NEW c,
           c.policy \in [active : BOOLEAN, scopes : SUBSET A, allowed : SUBSET A,
                         masked : SUBSET A, denied : SUBSET A]
    PROVE  QueryIsSound(c)
<1>. DEFINE p == c.policy
            visible(q) == {f \in c.requested \ q.denied : q.allowed = {} \/ f \in q.allowed \cup q.masked}
            answer(q) == QueryData(q, "s", c.requested, c.ofScope)
            asked(q) == IF c.requested = {} THEN q.allowed ELSE visible(q)
            fields(q) == (IF asked(q) = {} THEN c.ofScope ELSE asked(q)) \ q.denied
            granted(q) == q.active /\ ("s" \in q.scopes \/ "full" \in q.scopes)
<1>1. \A q : /\ answer(q).granted = granted(q)
             /\ answer(q).fields = IF granted(q) THEN fields(q) ELSE {}
             /\ answer(q).masked = IF granted(q) THEN fields(q) \cap q.masked ELSE {}
  <2>. TAKE q
  <2>1. {f \in c.requested \ q.denied : q.allowed # {} => f \in q.allowed \cup q.masked} = visible(q)
    OBVIOUS
  <2>. QED BY <2>1 DEF QueryData
<1>2. \A q : visible(q) \cap q.denied = {}
  OBVIOUS
<1>3. \A q : visible(q) # {} => c.requested # {}
  OBVIOUS
<1>4. ASSUME NEW f \in Fields
      PROVE  answer([p EXCEPT !.denied = @ \cup {f}]).fields \subseteq answer(p).fields \/ visible(p) = {f}
  <2>. DEFINE q == [p EXCEPT !.denied = @ \cup {f}]
  <2>1. q.active = p.active /\ q.scopes = p.scopes /\ q.allowed = p.allowed /\ q.masked = p.masked
        /\ q.denied = p.denied \cup {f}
    OBVIOUS
  <2>. HIDE DEF q, p
  <2>2. visible(q) = visible(p) \ {f} /\ granted(q) = granted(p)
    BY <2>1
  <2>3. asked(q) = {} => asked(p) = {} \/ visible(p) = {f}
    BY <2>1, <2>2
  <2>4. fields(q) \subseteq fields(p) \/ visible(p) = {f}
    <3>. HIDE DEF visible
    <3>. QED BY <2>1, <2>2, <2>3
  <2>. HIDE DEF visible, fields, granted, answer
  <2>5. answer(q).fields \subseteq answer(p).fields \/ visible(p) = {f}
    BY <1>1, <2>2, <2>4
  <2>. QED BY <2>5 DEF q, answer
<1>. HIDE DEF p
<1>5. /\ answer(p).fields \cap p.denied = {} /\ answer(p).masked = answer(p).fields \cap p.masked
      /\ ~answer(p).granted => answer(p).fields = {}
      /\ answer(p).granted /\ visible(p) # {} => answer(p).fields = visible(p)
      /\ answer(p).granted /\ c.requested # {} /\ visible(p) = {} => answer(p).fields = c.ofScope \ p.denied
  <2>. HIDE DEF visible, answer
  <2>. QED BY <1>1, <1>2, <1>3
<1>. QED BY <1>4, <1>5 DEF QueryIsSound, p

-----------------------------------------------------------------------------
(* Gray rollout *)

\* The statements about a gray rollout hold for any configuration.
LEMMA GrayHolds ==
    ASSUME NEW A, NEW c,
           c.config \in [exists : BOOLEAN, active : BOOLEAN, rolledBack : BOOLEAN,
                         strategy : {"percentage", "user_list", "org_list"}, targets : SUBSET A, percent : Nat]
    PROVE  GrayIsSound(c)
<1>. DEFINE g == c.config
<1>1. SUFFICES ASSUME NEW user \in {"u", "v"}, NEW org \in {"o", "p"}, NEW drawn \in {1, 50, 51, 100}
      PROVE LET executes(h) == CheckShouldExecute(h, user, org, drawn) IN
        /\ executes(g) => ~g.rolledBack /\ g.active
        /\ executes(g) => \A more \in g.percent..100 : executes([g EXCEPT !.percent = more])
        /\ g.strategy = "percentage" /\ executes([g EXCEPT !.percent = 100]) =>
               executes(g) = (drawn <= g.percent)
        /\ g.strategy # "percentage" => (executes(g) => {user, org} \cap g.targets # {})
  BY DEF GrayIsSound
<1>2. \A more \in Int :
          LET h == [g EXCEPT !.percent = more] IN
          /\ h.exists = g.exists /\ h.active = g.active /\ h.rolledBack = g.rolledBack
          /\ h.strategy = g.strategy /\ h.targets = g.targets /\ h.percent = more
  OBVIOUS
<1>3. g.percent \in Nat /\ g.strategy \in {"percentage", "user_list", "org_list"} /\ drawn \in 1..100
  OBVIOUS
<1>. DEFINE h(more) == [g EXCEPT !.percent = more]
<1>. DEFINE may(n) == /\ g.exists /\ g.active /\ ~g.rolledBack
                      /\ CASE g.strategy = "user_list" -> user \in g.targets
                           [] g.strategy = "org_list" -> org \in g.targets
                           [] OTHER -> drawn <= n
<1>4. \A more \in Int : CheckShouldExecute(h(more), user, org, drawn) <=> may(more)
  BY <1>2 DEF CheckShouldExecute
<1>5. CheckShouldExecute(g, user, org, drawn) <=> may(g.percent)
  BY DEF CheckShouldExecute
<1>. HIDE DEF g, h
<1>6. CheckShouldExecute(g, user, org, drawn) => ~g.rolledBack /\ g.active
  BY <1>5
<1>7. CheckShouldExecute(g, user, org, drawn) =>
          \A more \in g.percent..100 : CheckShouldExecute(h(more), user, org, drawn)
  <2>1. ASSUME NEW more \in g.percent..100, may(g.percent) PROVE may(more)
    BY <1>3, <2>1
  <2>2. \A more \in g.percent..100 : more \in Int
    BY <1>3
  <2>. HIDE DEF may
  <2>. QED BY <1>4, <1>5, <2>1, <2>2
<1>8. g.strategy = "percentage" /\ CheckShouldExecute(h(100), user, org, drawn) =>
          (CheckShouldExecute(g, user, org, drawn) <=> drawn <= g.percent)
  <2>1. CheckShouldExecute(h(100), user, org, drawn) <=> may(100)
    BY <1>4
  <2>. QED BY <2>1, <1>5
<1>9. g.strategy # "percentage" => (CheckShouldExecute(g, user, org, drawn) => {user, org} \cap g.targets # {})
  <2>1. g.strategy # "percentage" /\ may(g.percent) => user \in g.targets \/ org \in g.targets
    BY <1>3
  <2>. HIDE DEF may
  <2>. QED BY <2>1, <1>5
<1>10. CheckShouldExecute(g, user, org, drawn) \in BOOLEAN
  BY DEF CheckShouldExecute
<1>11. (drawn <= g.percent) \in BOOLEAN
  BY <1>3
<1>12. g.strategy = "percentage" /\ CheckShouldExecute(h(100), user, org, drawn) =>
          (CheckShouldExecute(g, user, org, drawn) = (drawn <= g.percent))
  BY <1>8, <1>10, <1>11
<1>. QED BY <1>6, <1>7, <1>9, <1>12 DEF h

-----------------------------------------------------------------------------
(* Prices by rule *)

\* A price keeps limits through rounding to cents.
LEMMA LimitedIs ==
    ASSUME NEW raw \in Int, NEW r, r.min \in Nat, r.max \in Nat
    PROVE  /\ Limited(raw, r) \in Int
           /\ Limited(raw, r) = LET least == IF r.min > 0 /\ 100 * r.min > raw THEN 100 * r.min ELSE raw
                                IN  IF r.max > 0 /\ 100 * r.max < least THEN 100 * r.max ELSE least
<1>. DEFINE least == IF r.min > 0 THEN Max({raw, 100 * r.min}) ELSE raw
<1>1. Max({raw, 100 * r.min}) = IF raw >= 100 * r.min THEN raw ELSE 100 * r.min
  BY MaxOfTwo
<1>2. least \in Int /\ least = IF r.min > 0 /\ 100 * r.min > raw THEN 100 * r.min ELSE raw
  BY <1>1
<1>3. Limited(raw, r) = IF r.max > 0 THEN Min({least, 100 * r.max}) ELSE least
  BY DEF Limited
<1>. HIDE DEF least
<1>4. Min({least, 100 * r.max}) = IF least <= 100 * r.max THEN least ELSE 100 * r.max
  BY <1>2, MinOfTwo
<1>. QED BY <1>2, <1>3, <1>4

PriceRules == [type : {"markup", "markdown", "fixed", "competitive"}, percent : 0..100, add : Int,
               fixed : Int, base : Nat, min : Nat, max : Nat]

\* The statements about prices by rule hold for any cost and rule.
LEMMA PriceHolds ==
    ASSUME NEW c, c.cost \in Nat, c.rule \in PriceRules
    PROVE  PriceIsSound(c)
<1>. DEFINE r == c.rule
            raw(cost) == ApplyPriceFormula(r, cost)
<1>1. /\ r.type \in {"markup", "markdown", "fixed", "competitive"} /\ r.percent \in 0..100 /\ r.add \in Int
      /\ r.fixed \in Int /\ r.base \in Nat /\ r.min \in Nat /\ r.max \in Nat
  BY DEF PriceRules
<1>. HIDE DEF r
<1>2. raw(c.cost) \in Int /\ raw(c.cost + 1) \in Int /\ raw(c.cost) <= raw(c.cost + 1)
  <2>1. CASE r.type = "markup"
    <3>1. /\ c.cost * (100 + r.percent) \in Int
          /\ (c.cost + 1) * (100 + r.percent) = c.cost * (100 + r.percent) + (100 + r.percent)
      <4>. DEFINE k == 100 + r.percent
      <4>1. k \in Int
        BY <1>1
      <4>. HIDE DEF k
      <4>2. c.cost * k \in Int /\ (c.cost + 1) * k = c.cost * k + k
        BY <4>1
      <4>. QED BY <4>2 DEF k
    <3>. QED BY <1>1, <2>1, <3>1 DEF ApplyPriceFormula
  <2>2. CASE r.type = "markdown"
    <3>1. /\ c.cost * (100 - r.percent) \in Int
          /\ (c.cost + 1) * (100 - r.percent) = c.cost * (100 - r.percent) + (100 - r.percent)
      BY <1>1
    <3>. QED BY <1>1, <2>2, <3>1 DEF ApplyPriceFormula
  <2>3. CASE r.type = "fixed"
    BY <1>1, <2>3 DEF ApplyPriceFormula
  <2>4. CASE r.type = "competitive"
    <3>1. c.cost * r.base \in Int /\ (c.cost + 1) * r.base = c.cost * r.base + r.base
      BY <1>1
    <3>. QED BY <1>1, <2>4, <3>1 DEF ApplyPriceFormula
  <2>. QED BY <1>1, <2>1, <2>2, <2>3, <2>4
<1>3. r.type = "fixed" \/ (r.type = "competitive" /\ r.base = 100)
      \/ (r.type \in {"markup", "markdown"} /\ r.add = 0) => CalculatePrice(r, c.cost) = PriceOfRule(r, c.cost)
  <2>1. r.type = "fixed" => CalculatePrice(r, c.cost) = PriceOfRule(r, c.cost)
    BY DEF CalculatePrice, PriceOfRule, ApplyPriceFormula
  <2>2. r.type = "competitive" /\ r.base = 100 => CalculatePrice(r, c.cost) = PriceOfRule(r, c.cost)
    <3>1. SUFFICES ASSUME r.type = "competitive", r.base = 100 PROVE CalculatePrice(r, c.cost) = PriceOfRule(r, c.cost)
      OBVIOUS
    <3>2. c.cost * r.base + 100 * r.add = 100 * (c.cost + r.add)
      BY <1>1, <3>1
    <3>. QED BY <3>1, <3>2 DEF CalculatePrice, PriceOfRule, ApplyPriceFormula
  <2>3. r.type \in {"markup", "markdown"} /\ r.add = 0 => CalculatePrice(r, c.cost) = PriceOfRule(r, c.cost)
    <3>1. SUFFICES ASSUME r.type \in {"markup", "markdown"}, r.add = 0
          PROVE CalculatePrice(r, c.cost) = PriceOfRule(r, c.cost)
      OBVIOUS
    <3>2. /\ c.cost * (100 + r.percent) + 100 * r.add = c.cost * (100 + r.percent)
          /\ c.cost * (100 - r.percent) - 100 * r.add = c.cost * (100 - r.percent)
      BY <1>1, <3>1
    <3>. QED BY <3>1, <3>2 DEF CalculatePrice, PriceOfRule, ApplyPriceFormula
  <2>. QED BY <2>1, <2>2, <2>3
<1>. DEFINE lim(cost) == Limited(raw(cost), r)
<1>4. \A cost \in {c.cost, c.cost + 1} : CalculatePrice(r, cost) = Rounded(lim(cost), 100)
  BY DEF CalculatePrice
<1>. HIDE DEF raw
<1>5. \A cost \in {c.cost, c.cost + 1} :
          /\ lim(cost) \in Int
          /\ lim(cost) = LET least == IF r.min > 0 /\ 100 * r.min > raw(cost) THEN 100 * r.min ELSE raw(cost)
                         IN  IF r.max > 0 /\ 100 * r.max < least THEN 100 * r.max ELSE least
  BY <1>1, <1>2, LimitedIs
<1>. HIDE DEF lim
<1>6. /\ r.max > 0 => lim(c.cost) <= 100 * r.max
      /\ r.min > 0 /\ (r.max = 0 \/ r.min <= r.max) => lim(c.cost) >= 100 * r.min
      /\ lim(c.cost) <= lim(c.cost + 1)
      /\ r.max = 0 \/ r.min <= r.max \/ lim(c.cost) = 100 * r.max
  BY <1>1, <1>2, <1>5
<1>. DEFINE price == Rounded(lim(c.cost), 100)
            dearer == Rounded(lim(c.cost + 1), 100)
<1>7. /\ r.max > 0 => price <= r.max
      /\ r.min > 0 /\ (r.max = 0 \/ r.min <= r.max) => price >= r.min
      /\ price <= dearer
      /\ r.max = 0 \/ r.min <= r.max \/ price = r.max
  <2>1. lim(c.cost) \in Int /\ lim(c.cost + 1) \in Int
    BY <1>5
  <2>. QED BY <1>1, <1>6, <2>1 DEF Rounded
<1>. QED BY <1>3, <1>4, <1>7 DEF PriceIsSound, r

-----------------------------------------------------------------------------
(* Competitive prices *)

\* The statements about competitive prices hold for any prices of the market.
LEMMA MarketHolds ==
    ASSUME NEW c, c.price \in Nat, c.msrp \in Nat, c.competitors \in SUBSET Nat,
           c.strategy \in {"match_lowest", "beat_by_pct", "premium", "other"}
    PROVE  MarketIsSound(c)
<1>. DEFINE asked(strategy, lowest) ==
                CASE strategy = "match_lowest" -> lowest
                  [] strategy = "beat_by_pct" -> Rounded(95 * lowest, 100)
                  [] strategy = "premium" -> Rounded(110 * lowest, 100)
                  [] OTHER -> c.price
            limit(n) == IF c.msrp > 0 /\ n > c.msrp THEN c.msrp ELSE n
            price(strategy, competitors) == CalculateCompetitivePrice(strategy, c.price, c.msrp, competitors)
<1>1. SUFFICES ASSUME c.competitors # {}
      PROVE  /\ c.msrp > 0 => price(c.strategy, c.competitors) <= c.msrp
             /\ price("beat_by_pct", c.competitors) <= price("match_lowest", c.competitors)
             /\ price("match_lowest", c.competitors) <= price("premium", c.competitors)
             /\ \A n \in Nat : price(c.strategy, c.competitors \cup {n}) <= price(c.strategy, c.competitors)
  BY DEF MarketIsSound
<1>2. ASSUME NEW T \in SUBSET Nat, T # {}, NEW strategy \in {"match_lowest", "beat_by_pct", "premium", "other"}
      PROVE  price(strategy, T) = limit(asked(strategy, Min(T)))
  BY <1>2 DEF CalculateCompetitivePrice
<1>3. ASSUME NEW T \in SUBSET Nat, T # {}
      PROVE  Min(T) \in Nat /\ \A y \in T : Min(T) <= y
  BY <1>3, MinOf
<1>4. ASSUME NEW a \in Nat, NEW b \in Nat, a <= b, NEW strategy \in {"match_lowest", "beat_by_pct", "premium", "other"}
      PROVE  limit(asked(strategy, a)) <= limit(asked(strategy, b))
  <2>1. Rounded(95 * a, 100) <= Rounded(95 * b, 100) /\ Rounded(95 * a, 100) \in Int /\ Rounded(95 * b, 100) \in Int
    BY <1>4 DEF Rounded
  <2>2. Rounded(110 * a, 100) <= Rounded(110 * b, 100) /\ Rounded(110 * a, 100) \in Int /\ Rounded(110 * b, 100) \in Int
    BY <1>4 DEF Rounded
  <2>. QED BY <1>4, <2>1, <2>2
<1>5. ASSUME NEW a \in Nat
      PROVE  /\ limit(asked("beat_by_pct", a)) <= limit(asked("match_lowest", a))
             /\ limit(asked("match_lowest", a)) <= limit(asked("premium", a))
  <2>1. Rounded(95 * a, 100) \in Int /\ Rounded(95 * a, 100) <= a
        /\ Rounded(110 * a, 100) \in Int /\ a <= Rounded(110 * a, 100)
    BY DEF Rounded
  <2>. QED BY <2>1
<1>6. ASSUME NEW a \in Nat, NEW strategy \in {"match_lowest", "beat_by_pct", "premium", "other"}, c.msrp > 0 PROVE limit(asked(strategy, a)) <= c.msrp
  <2>1. Rounded(95 * a, 100) \in Int /\ Rounded(110 * a, 100) \in Int
    BY DEF Rounded
  <2>. QED BY <1>6, <2>1
<1>. HIDE DEF limit, asked, price
<1>8. ASSUME NEW n \in Nat
      PROVE  price(c.strategy, c.competitors \cup {n}) <= price(c.strategy, c.competitors)
  <2>. DEFINE T == c.competitors \cup {n}
  <2>1. T \in SUBSET Nat /\ T # {} /\ c.competitors \in SUBSET T
    OBVIOUS
  <2>. HIDE DEF T
  <2>2. Min(c.competitors) \in c.competitors /\ Min(c.competitors) \in Nat
    BY <1>1, MinOf
  <2>3. Min(T) \in Nat /\ Min(T) <= Min(c.competitors)
    BY <2>1, <2>2, <1>3
  <2>4. limit(asked(c.strategy, Min(T))) <= limit(asked(c.strategy, Min(c.competitors)))
    BY <2>2, <2>3, <1>4
  <2>5. price(c.strategy, T) <= price(c.strategy, c.competitors)
    BY <2>1, <2>4, <1>1, <1>2
  <2>. QED BY <2>5 DEF T
<1>9. Min(c.competitors) \in Nat
  BY <1>1, <1>3
<1>. QED BY <1>1, <1>2, <1>5, <1>6, <1>8, <1>9

-----------------------------------------------------------------------------
(* Profit *)

\* The statements about profit hold for any amounts.
LEMMA ProfitHolds ==
    ASSUME NEW c, c.revenue \in Int, c.refund \in Int, c.cost \in Int, c.expenses \in Nat, c.vat \in Nat
    PROVE  ProfitIsSound(c)
<1>. DEFINE mine == CalculateProfit(c.revenue, c.refund, c.cost, c.expenses)
            whole == CalculateProfit(c.revenue, 0, c.cost, c.expenses)
            engine == EngineProfit(c.revenue, c.cost, c.expenses, c.vat)
            net == c.revenue - c.refund
<1>1. /\ whole.gross = c.revenue - c.cost /\ whole.grossMargin = Share(c.revenue - c.cost, c.revenue)
      /\ whole.net = c.revenue - c.cost - c.expenses
      /\ whole.netMargin = Share(c.revenue - c.cost - c.expenses, c.revenue)
  <2>. c.revenue - 0 = c.revenue
    OBVIOUS
  <2>. QED BY DEF CalculateProfit
<1>2. /\ engine.gross = c.revenue - c.cost /\ engine.grossMargin = Share(c.revenue - c.cost, c.revenue)
      /\ engine.operating = c.revenue - c.cost - c.expenses
      /\ engine.operatingMargin = Share(c.revenue - c.cost - c.expenses, c.revenue)
      /\ engine.net = c.revenue - c.cost - c.expenses - c.vat
      /\ engine.netMargin = Share(c.revenue - c.cost - c.expenses - c.vat, c.revenue)
  BY DEF EngineProfit
<1>3. /\ mine.net = net - c.cost - c.expenses /\ mine.grossMargin = Share(net - c.cost, net)
      /\ mine.netMargin = Share(net - c.cost - c.expenses, net)
      /\ mine.roi = Share(net - c.cost - c.expenses, c.cost)
  BY DEF CalculateProfit
<1>. HIDE DEF mine, whole, engine
<1>4. <<whole.gross, whole.grossMargin, whole.net, whole.netMargin>>
          = <<engine.gross, engine.grossMargin, engine.operating, engine.operatingMargin>>
  BY <1>1, <1>2
<1>5. mine.net = whole.net - c.refund /\ engine.net = whole.net - c.vat
  BY <1>1, <1>2, <1>3
<1>6. mine.net < 0 => mine.netMargin <= 0 /\ mine.roi <= 0
  <2>1. net - c.cost - c.expenses \in Int /\ net \in Int /\ c.cost \in Int
    OBVIOUS
  <2>2. net - c.cost - c.expenses <= 0 => /\ Share(net - c.cost - c.expenses, net) <= 0
                                          /\ Share(net - c.cost - c.expenses, c.cost) <= 0
    BY ONLY <2>1, ShareIs
  <2>. HIDE DEF net
  <2>. QED BY <1>3, <2>1, <2>2
<1>7. mine.netMargin <= mine.grossMargin
  <2>. net - c.cost - c.expenses \in Int /\ net - c.cost \in Int /\ net \in Int
       /\ net - c.cost - c.expenses <= net - c.cost
    OBVIOUS
  <2>. QED BY <1>3, ShareIs
<1>8. engine.netMargin <= engine.operatingMargin
  <2>. c.revenue - c.cost - c.expenses - c.vat \in Int /\ c.revenue - c.cost - c.expenses \in Int
       /\ c.revenue - c.cost - c.expenses - c.vat <= c.revenue - c.cost - c.expenses
    OBVIOUS
  <2>1. Share(c.revenue - c.cost - c.expenses - c.vat, c.revenue) <= Share(c.revenue - c.cost - c.expenses, c.revenue)
    BY ShareIs
  <2>. QED BY <1>2, <2>1
<1>. QED BY <1>4, <1>5, <1>6, <1>7, <1>8 DEF ProfitIsSound, mine, whole, engine

-----------------------------------------------------------------------------
(* Shares of an advertising budget *)

\* The statements about the shares of an advertising budget hold up to sixty
\* campaigns: with more, rounding hides what one more campaign takes away.
LEMMA AdBudgetHolds ==
    ASSUME NEW c, c.total \in Nat, c.roas \in Seq(Nat),
           c.total = 9999 => Len(c.roas) <= 60 /\ \A i \in 1..Len(c.roas) : c.roas[i] <= 333
    PROVE  AdBudgetIsSound(c)
<1>. DEFINE s == c.roas
            n == Len(s)
            k == c.total
            score == [i \in 1..n |-> Max({s[i], 1})]
            sum == Total(score)
            parts == OptimizeBudget(k, s)
<1>1. n \in Nat /\ DOMAIN s = 1..n /\ k \in Nat
  OBVIOUS
<1>2. \A i \in 1..n : s[i] \in Nat
  OBVIOUS
<1>0. k = 9999 => n <= 60 /\ \A i \in 1..n : s[i] <= 333
  OBVIOUS
<1>. HIDE DEF k
<1>3. parts = [i \in 1..n |-> Rounded(k * score[i], sum)]
  BY <1>1 DEF OptimizeBudget
<1>4. ASSUME NEW i \in 1..n PROVE score[i] = (IF s[i] = 0 THEN 1 ELSE s[i]) /\ score[i] \in Nat \ {0}
  <2>. DEFINE x == s[i]
  <2>1. x \in Nat /\ score[i] = Max({x, 1})
    BY <1>2
  <2>. HIDE DEF x, score
  <2>2. Max({x, 1}) = IF x >= 1 THEN x ELSE 1
    BY <2>1, MaxOfTwo
  <2>3. score[i] = (IF x = 0 THEN 1 ELSE x) /\ score[i] \in Nat \ {0}
    BY <2>1, <2>2
  <2>. QED BY <2>3 DEF x
<1>5. score \in [1..n -> Nat] /\ score \in [1..n -> Int]
  <2>1. score = [i \in 1..n |-> score[i]]
    OBVIOUS
  <2>. HIDE DEF score, n
  <2>2. score \in [1..n -> Nat]
    BY <1>4, <2>1
  <2>. QED BY <2>2
<1>. HIDE DEF score
<1>6. sum \in Nat /\ \A i \in 1..n : score[i] <= sum
  <2>. HIDE DEF n
  <2>. QED BY <1>1, <1>5, TotalNat
<1>7. ASSUME k = 9999 PROVE sum <= 333 * n /\ n <= 60
  <2>1. \A i \in 1..n : 0 <= score[i] /\ score[i] <= 333
    BY <1>0, <1>2, <1>4, <1>7
  <2>2. 0 \in Int /\ 333 \in Int
    OBVIOUS
  <2>. HIDE DEF n
  <2>3. Total(score) <= n * 333
    BY <1>1, <1>5, <2>1, <2>2, TotalBetween, ZenonT(30)
  <2>4. n * 333 = 333 * n
    BY <1>1
  <2>. QED BY <1>0, <1>7, <2>3, <2>4
<1>. HIDE DEF sum
<1>8. ASSUME NEW i \in 1..n
      PROVE  /\ sum \in Nat \ {0} /\ parts[i] = Rounded(k * score[i], sum) /\ parts[i] \in Int
             /\ k * score[i] \in Int
             /\ 2 * sum * parts[i] <= 2 * (k * score[i]) + sum
             /\ 2 * (k * score[i]) + sum < 2 * sum * parts[i] + 2 * sum
  <2>. DEFINE x == k * score[i]
  <2>1. score[i] <= sum /\ score[i] \in Nat \ {0} /\ sum \in Nat
    BY <1>4, <1>6
  <2>2. sum \in Nat \ {0} /\ x \in Int
    BY <1>1, <2>1
  <2>3. parts[i] = Rounded(x, sum)
    BY <1>3
  <2>. HIDE DEF x, parts
  <2>4. /\ Rounded(x, sum) \in Int
        /\ 2 * sum * Rounded(x, sum) <= 2 * x + sum
        /\ 2 * x + sum < 2 * sum * Rounded(x, sum) + 2 * sum
    BY ONLY <2>2, Rounds
  <2>5. /\ parts[i] \in Int /\ 2 * sum * parts[i] <= 2 * x + sum
        /\ 2 * x + sum < 2 * sum * parts[i] + 2 * sum
    BY <2>3, <2>4
  <2>. QED BY <2>2, <2>3, <2>5 DEF x
<1>9. parts \in [1..n -> Int] /\ Len(parts) = n /\ DOMAIN parts = 1..n
  <2>1. parts = [i \in 1..n |-> parts[i]]
    BY <1>3
  <2>. HIDE DEF parts
  <2>2. \A i \in 1..n : parts[i] \in Int
    BY <1>8
  <2>3. parts \in [1..n -> Int]
    <3>. HIDE DEF n
    <3>. QED BY <2>1, <2>2
  <2>4. DOMAIN parts = 1..n
    <3>. HIDE DEF n
    <3>. QED BY <2>1
  <2>5. Len(parts) = n
    <3>. HIDE DEF n
    <3>. QED BY <1>1, <2>1
  <2>. QED BY <2>3, <2>4, <2>5
<1>. HIDE DEF parts
<1>10. s # <<>> => 2 * Max({Total(parts) - k, k - Total(parts)}) <= Len(parts)
  <2>. SUFFICES ASSUME s # <<>> PROVE 2 * Max({Total(parts) - k, k - Total(parts)}) <= Len(parts)
    OBVIOUS
  <2>1. 1 \in 1..n
    BY <1>1
  <2>2. sum > 0
    BY <1>8, <2>1
  <2>3. /\ Total(parts) \in Int
        /\ 2 * Total(parts) <= 2 * k + n /\ 2 * k <= 2 * Total(parts) + n
    <3>1. \A i \in 1..n : parts[i] = Rounded(k * score[i], sum)
      BY <1>8
    <3>. HIDE DEF n
    <3>. QED BY <1>1, <1>5, <1>9, <2>2, <3>1, RoundedShares, ZenonT(30) DEF sum
  <2>. DEFINE t == Total(parts)
  <2>. HIDE DEF t, n
  <2>4. t \in Int /\ k \in Int /\ t - k \in Int /\ k - t \in Int
    BY <1>1, <2>3 DEF t
  <2>5. Max({t - k, k - t}) = IF t - k >= k - t THEN t - k ELSE k - t
    BY ONLY <2>4, MaxOfTwo
  <2>6. 2 * t <= 2 * k + n /\ 2 * k <= 2 * t + n
    BY <2>3 DEF t
  <2>7. 2 * Max({t - k, k - t}) <= n
    BY <1>1, <2>4, <2>5, <2>6
  <2>. QED BY <1>9, <2>7 DEF t
<1>11. ASSUME NEW i \in 1..n, NEW j \in 1..n, s[i] >= s[j] PROVE parts[i] >= parts[j]
  <2>. DEFINE a == score[j]
              b == score[i]
  <2>1. a \in Nat /\ b \in Nat
    BY <1>4, SMTT(30)
  <2>2. s[i] \in Nat /\ s[j] \in Nat /\ a = (IF s[j] = 0 THEN 1 ELSE s[j]) /\ b = (IF s[i] = 0 THEN 1 ELSE s[i])
    BY <1>2, <1>4
  <2>. HIDE DEF a, b
  <2>3. a <= b /\ a \in Int /\ b \in Int /\ k \in Nat
    BY <1>1, <1>11, <2>1, <2>2
  <2>. DEFINE x == k * a
              y == k * b
  <2>4. x <= y
    BY ONLY <2>3, TimesMonotone
  <2>5. x \in Int /\ y \in Int
    BY ONLY <2>3
  <2>6. parts[j] = Rounded(x, sum) /\ parts[i] = Rounded(y, sum) /\ sum \in Nat \ {0}
    BY <1>8 DEF a, b
  <2>. HIDE DEF x, y
  <2>7. Rounded(x, sum) <= Rounded(y, sum)
    BY ONLY <2>4, <2>5, <2>6, RoundedMonotone
  <2>8. parts[i] \in Int /\ parts[j] \in Int
    BY <1>8
  <2>. QED BY <2>6, <2>7, <2>8
<1>12. ASSUME NEW i \in 1..n, NEW j \in 1..n, s[i] > 0, s[j] > 0
       PROVE  LET off == parts[i] * s[j] - parts[j] * s[i] IN
              off \in Int /\ 2 * off <= s[i] + s[j]
  <2>. DEFINE p == parts[i]
              q == parts[j]
              a == s[i]
              b == s[j]
              off == p * b - q * a
  <2>0. a \in Nat \ {0} /\ b \in Nat \ {0} /\ score[i] = a /\ score[j] = b
    BY <1>2, <1>4, <1>12
  <2>1. /\ sum \in Nat \ {0} /\ p \in Int /\ q \in Int
        /\ 2 * sum * p <= 2 * (k * a) + sum
        /\ 2 * (k * b) + sum < 2 * sum * q + 2 * sum
    BY <1>8, <2>0, ZenonT(30)
  <2>. HIDE DEF p, q, a, b
  <2>. DEFINE x == 2 * sum * p
              y == 2 * (k * a) + sum
              z == 2 * (k * b) + sum
              w == 2 * sum * q + 2 * sum
  <2>2. x \in Int /\ y \in Int /\ z \in Int /\ w \in Int /\ x <= y /\ z <= w
    <3>. DEFINE f == k * a
                g == k * b
                e == sum * p
                h == sum * q
    <3>1. f \in Int /\ g \in Int /\ e \in Int /\ h \in Int
      BY <1>1, <2>0, <2>1
    <3>2. 2 * sum * p = 2 * e /\ 2 * sum * q = 2 * h
      BY <2>1
    <3>3. x \in Int /\ y \in Int /\ z \in Int /\ w \in Int
      <4>. HIDE DEF f, g, e, h
      <4>1. x = 2 * e /\ w = 2 * h + 2 * sum
        BY <3>2
      <4>2. y = 2 * f + sum /\ z = 2 * g + sum
        BY DEF f, g
      <4>. HIDE DEF x, y, z, w
      <4>. QED BY <2>1, <3>1, <4>1, <4>2
    <3>. HIDE DEF f, g, e, h
    <3>4. x <= y
      BY <2>1
    <3>5. z <= w
      <4>1. z < w
        BY <2>1
      <4>. HIDE DEF z, w
      <4>. QED BY <3>3, <4>1
    <3>. QED BY <3>3, <3>4, <3>5
  <2>3. b * x <= b * y /\ a * z <= a * w
    <3>. HIDE DEF x, y, z, w
    <3>. QED BY ONLY <2>0, <2>2, TimesMonotone
  <2>4. /\ b * x = (2 * sum) * (p * b)
        /\ b * y = 2 * (k * (a * b)) + sum * b
        /\ a * z = 2 * (k * (a * b)) + sum * a
        /\ a * w = (2 * sum) * (q * a) + 2 * (sum * a)
    BY <1>1, <2>0, <2>1
  <2>. DEFINE u == p * b
              v == q * a
              m == k * (a * b)
  <2>5. u \in Int /\ v \in Int /\ m \in Int /\ sum * b \in Int /\ sum * a \in Int
    BY <1>1, <2>0, <2>1
  <2>. HIDE DEF x, y, z, w, u, v, m
  <2>6. /\ (2 * sum) * u <= 2 * m + sum * b
        /\ 2 * m + sum * a <= (2 * sum) * v + 2 * (sum * a)
    BY <2>3, <2>4 DEF u, v, m
  <2>7. (2 * sum) * u \in Int /\ (2 * sum) * v \in Int
    BY <2>1, <2>5
  <2>8. (2 * sum) * u <= (2 * sum) * v + sum * a + sum * b
    BY <2>5, <2>6, <2>7
  <2>9. sum * (2 * (u - v)) <= sum * (a + b)
    <3>1. sum * (2 * (u - v)) = (2 * sum) * u - (2 * sum) * v /\ sum * (a + b) = sum * a + sum * b
      BY <2>0, <2>1, <2>5
    <3>. QED BY <2>5, <2>7, <2>8, <3>1
  <2>10. 2 * (u - v) <= a + b
    <3>. SUFFICES ASSUME a + b + 1 <= 2 * (u - v) PROVE FALSE
      BY <2>0, <2>5
    <3>1. a + b + 1 \in Int /\ 2 * (u - v) \in Int /\ sum \in Nat
      BY <2>0, <2>1, <2>5
    <3>2. sum * (a + b + 1) <= sum * (2 * (u - v))
      BY <3>1, TimesMonotone, ZenonT(30)
    <3>3. sum * (a + b + 1) = sum * (a + b) + sum
      BY <2>0, <2>1
    <3>4. sum * (a + b) \in Int /\ sum * (2 * (u - v)) \in Int
      BY <2>0, <2>1, <2>5
    <3>. QED BY <2>1, <2>9, <3>2, <3>3, <3>4
  <2>11. off \in Int /\ 2 * off <= a + b
    BY <2>5, <2>10 DEF u, v
  <2>. QED BY <2>11 DEF a, b, p, q
<1>13. ASSUME k = 9999, NEW i \in 1..n PROVE parts[i] > 0
  <2>. DEFINE x == k * score[i]
              p == parts[i]
  <2>1. x \in Int /\ x >= 9999 /\ sum \in Nat \ {0} /\ sum <= 19998
    <3>1. score[i] \in Nat \ {0}
      BY <1>4
    <3>2. sum \in Nat \ {0}
      BY <1>8
    <3>. HIDE DEF n
    <3>. QED BY <1>1, <1>7, <1>13, <3>1, <3>2, SMT
  <2>2. p \in Int /\ 2 * x + sum < 2 * sum * p + 2 * sum
    BY <1>8
  <2>. HIDE DEF x, p
  <2>3. SUFFICES ASSUME p <= 0 PROVE FALSE
    BY <2>2, SMT DEF p
  <2>4. (2 * sum) * p <= (2 * sum) * 0
    <3>1. 2 * sum \in Nat /\ p \in Int /\ 0 \in Int /\ p <= 0
      BY <2>1, <2>2, <2>3, SMT
    <3>. QED BY ONLY <3>1, TimesMonotone
  <2>5. 2 * sum * p \in Int /\ 2 * sum * p <= 0
    BY <2>1, <2>2, <2>4, SMT
  <2>. QED BY <2>1, <2>2, <2>5, SMT
<1>14. \A i, j \in DOMAIN parts :
           LET off == parts[i] * s[j] - parts[j] * s[i] IN
           /\ s[i] >= s[j] => parts[i] >= parts[j]
           /\ s[i] > 0 /\ s[j] > 0 => 2 * Max({off, -off}) <= s[i] + s[j]
  <2>. TAKE i, j \in DOMAIN parts
  <2>. DEFINE off == parts[i] * s[j] - parts[j] * s[i]
              back == parts[j] * s[i] - parts[i] * s[j]
  <2>1. i \in 1..n /\ j \in 1..n
    BY <1>9
  <2>2. s[i] > 0 /\ s[j] > 0 => 2 * Max({off, -off}) <= s[i] + s[j]
    <3>. SUFFICES ASSUME s[i] > 0, s[j] > 0 PROVE 2 * Max({off, -off}) <= s[i] + s[j]
      OBVIOUS
    <3>1. off \in Int /\ 2 * off <= s[i] + s[j]
      BY <1>12, <2>1, SMTT(30)
    <3>2. back \in Int /\ 2 * back <= s[j] + s[i]
      BY <1>12, <2>1, SMTT(30)
    <3>3. back = -off
      <4>0. parts[i] \in Int /\ parts[j] \in Int
        <5>. HIDE DEF parts, n
        <5>. QED BY ONLY <1>8, <2>1
      <4>1. parts[i] \in Int /\ parts[j] \in Int /\ s[i] \in Int /\ s[j] \in Int
        <5>. HIDE DEF parts, n
        <5>. QED BY ONLY <1>2, <2>1, <4>0
      <4>. DEFINE u == parts[i] * s[j]
                  v == parts[j] * s[i]
      <4>2. u \in Int /\ v \in Int
        BY ONLY <4>1
      <4>. HIDE DEF u, v
      <4>3. v - u = -(u - v)
        BY ONLY <4>2
      <4>. QED BY <4>3 DEF u, v
    <3>4. s[i] \in Int /\ s[j] \in Int
      BY <1>2, <2>1
    <3>. HIDE DEF off, back
    <3>5. Max({off, -off}) = IF off >= -off THEN off ELSE -off
      <4>. off \in Int /\ -off \in Int
        BY <3>1
      <4>. QED BY ONLY off \in Int, -off \in Int, MaxOfTwo
    <3>. QED BY ONLY <3>1, <3>2, <3>3, <3>4, <3>5
  <2>. QED BY <1>11, <2>1, <2>2, ZenonT(30)
<1>15. k = 9999 => \A i \in DOMAIN parts : parts[i] > 0
  BY <1>9, <1>13
<1>. QED BY ONLY <1>10, <1>14, <1>15, ZenonT(30) DEF AdBudgetIsSound, parts, k, s

-----------------------------------------------------------------------------
(* Pacing of budgets *)

\* A rounded quotient does not grow with the divisor.
LEMMA RoundedLess ==
    ASSUME NEW n \in Nat, NEW d \in Nat \ {0}, NEW e \in Nat \ {0}, d <= e
    PROVE  Rounded(n, e) <= Rounded(n, d)
<1>. DEFINE q == Rounded(n, e)
            r == Rounded(n, d)
<1>1. q \in Int /\ r \in Int /\ 2 * e * q <= 2 * n + e /\ 2 * n + d < 2 * d * r + 2 * d
  BY Rounds
<1>2. r >= 0
  BY RoundedBounds
<1>. HIDE DEF q, r
<1>3. CASE q <= 0
  <2>. q <= r
    BY <1>1, <1>2, <1>3
  <2>. QED BY DEF q, r
<1>4. CASE q >= 1
  <2>1. (2 * q - 1) * d <= (2 * q - 1) * e
    <3>. 2 * q - 1 \in Nat
      BY <1>1, <1>4
    <3>. QED BY TimesMonotone
  <2>2. (2 * q - 1) * d = 2 * (d * q) - d /\ (2 * q - 1) * e = 2 * (e * q) - e
    BY <1>1
  <2>3. 2 * e * q = 2 * (e * q) /\ 2 * d * r = 2 * (d * r) /\ d * q \in Int /\ e * q \in Int /\ d * r \in Int
    BY <1>1
  <2>4. d * q < d * (r + 1)
    <3>. d * (r + 1) = d * r + d
      BY <1>1
    <3>. QED BY <1>1, <2>1, <2>2, <2>3
  <2>5. q < r + 1
    <3>1. SUFFICES ASSUME r + 1 <= q PROVE FALSE
      BY <1>1
    <3>2. d * (r + 1) <= d * q
      BY <1>1, <3>1, TimesMonotone
    <3>3. d * (r + 1) \in Int
      BY <1>1
    <3>. QED BY <3>2, <3>3, <2>3, <2>4
  <2>. QED BY <1>1, <2>5 DEF q, r
<1>. QED BY <1>1, <1>3, <1>4 DEF q, r

\* The statements about the pacing of budgets hold for any budget and spend.
LEMMA PacingHolds ==
    ASSUME NEW c, c.daily \in Nat, c.spent \in Nat, c.hours \in Nat
    PROVE  PacingIsSound(c)
<1>. DEFINE rank(status) == CASE status = "overspending" -> 3 [] status = "on_track" -> 2 [] OTHER -> 1
            pct(spent, hours) == PacingPct(c.daily, spent, hours)
            status(spent, hours) == CalculateBudgetPacing(c.daily, spent, hours)
            value(n) == IF n >= 12001 THEN 3 ELSE IF n >= 8001 THEN 2 ELSE 1
<1>1. ASSUME NEW spent \in Nat, NEW hours \in Nat
      PROVE  /\ pct(spent, hours) \in Int
             /\ pct(spent, hours) <= pct(spent + 1, hours)
             /\ hours > 0 => pct(spent, hours + 1) <= pct(spent, hours)
             /\ hours = 0 => pct(spent, hours) = 0
             /\ c.daily > 0 /\ hours > 0 /\ 24 * spent = c.daily * hours => pct(spent, hours) = 10000
  <2>. DEFINE w == c.daily * hours
              v == c.daily * (hours + 1)
  <2>1. w \in Nat /\ v \in Nat /\ v = w + c.daily /\ (hours = 0 => w = 0)
    OBVIOUS
  <2>2. pct(spent, hours) = Share(24 * spent, w) /\ pct(spent + 1, hours) = Share(24 * (spent + 1), w)
        /\ pct(spent, hours + 1) = Share(24 * spent, v)
    BY DEF PacingPct
  <2>3. c.daily > 0 /\ hours > 0 => w > 0
    <3>1. SUFFICES ASSUME c.daily > 0, hours > 0 PROVE w > 0
      OBVIOUS
    <3>2. c.daily * 1 <= c.daily * hours
      BY <3>1, TimesMonotone
    <3>. QED BY <3>1, <3>2
  <2>4. c.daily = 0 => w = 0 /\ v = 0
    OBVIOUS
  <2>. HIDE DEF w, v, pct
  <2>5. Share(24 * spent, w) \in Int /\ Share(24 * spent, w) <= Share(24 * (spent + 1), w)
    <3>. 24 * spent \in Int /\ 24 * (spent + 1) \in Int /\ w \in Int /\ 24 * spent <= 24 * (spent + 1)
      BY <2>1
    <3>. QED BY ShareIs
  <2>6. hours > 0 => Share(24 * spent, v) <= Share(24 * spent, w)
    <3>1. CASE c.daily = 0
      BY <3>1, <2>4 DEF Share
    <3>2. CASE c.daily > 0 /\ hours > 0
      <4>1. 10000 * (24 * spent) \in Nat /\ w \in Nat \ {0} /\ v \in Nat \ {0} /\ w <= v
        BY <3>2, <2>1, <2>3
      <4>2. Rounded(10000 * (24 * spent), v) <= Rounded(10000 * (24 * spent), w)
        BY ONLY <4>1, RoundedLess
      <4>3. w > 0 /\ v > 0
        BY <4>1
      <4>. QED BY <4>2, <4>3 DEF Share
    <3>. QED BY <3>1, <3>2
  <2>7. hours = 0 => Share(24 * spent, w) = 0
    BY <2>1 DEF Share
  <2>8. c.daily > 0 /\ hours > 0 /\ 24 * spent = w => Share(24 * spent, w) = 10000
    <3>1. SUFFICES ASSUME c.daily > 0, hours > 0, 24 * spent = w PROVE Share(24 * spent, w) = 10000
      OBVIOUS
    <3>2. 10000 * w \in Int /\ 10000 \in Int /\ w \in Nat \ {0} /\ 10000 * w <= w * 10000 /\ w * 10000 <= 10000 * w
      BY <2>1, <2>3, <3>1
    <3>3. Rounded(10000 * w, w) <= 10000 /\ 10000 <= Rounded(10000 * w, w)
      BY ONLY <3>2, RoundedBounds
    <3>4. Rounded(10000 * w, w) \in Int
      BY ONLY <3>2, Rounds
    <3>5. Rounded(10000 * w, w) = 10000
      BY <3>3, <3>4
    <3>6. w > 0
      BY <3>2
    <3>. QED BY <3>1, <3>5, <3>6 DEF Share
  <2>. QED BY <2>2, <2>5, <2>6, <2>7, <2>8 DEF w
<1>2. ASSUME NEW spent \in Nat, NEW hours \in Nat
      PROVE  /\ c.daily > 0 => status(spent, hours) = <<"underspending", "on_track", "overspending">>[value(pct(spent, hours))]
             /\ c.daily <= 0 => status(spent, hours) = "unknown"
             /\ rank(status(spent, hours)) = IF c.daily <= 0 THEN 1 ELSE value(pct(spent, hours))
  <2>1. pct(spent, hours) \in Int
    BY <1>1
  <2>2. Reached(pct(spent, hours), <<8001, 12001>>) = value(pct(spent, hours))
    <3>. HIDE DEF pct
    <3>. QED BY <2>1, Reached2
  <2>3. c.daily > 0 => status(spent, hours) = <<"underspending", "on_track", "overspending">>[value(pct(spent, hours))]
    BY <2>2 DEF CalculateBudgetPacing
  <2>4. c.daily <= 0 => status(spent, hours) = "unknown"
    BY DEF CalculateBudgetPacing
  <2>5. value(pct(spent, hours)) \in 1..3
    <3>. HIDE DEF pct
    <3>. QED BY <2>1
  <2>6. \A k \in 1..3 : rank(<<"underspending", "on_track", "overspending">>[k]) = k
    OBVIOUS
  <2>7. rank("unknown") = 1
    OBVIOUS
  <2>. HIDE DEF status, value, pct, rank
  <2>. QED BY <2>3, <2>4, <2>5, <2>6, <2>7
<1>. HIDE DEF status, pct, rank
<1>3. rank(status(c.spent, c.hours)) <= rank(status(c.spent + 1, c.hours))
  <2>1. c.spent + 1 \in Nat
    OBVIOUS
  <2>2. pct(c.spent, c.hours) \in Int /\ pct(c.spent + 1, c.hours) \in Int /\ pct(c.spent, c.hours) <= pct(c.spent + 1, c.hours)
    BY <1>1, <2>1
  <2>. QED BY <1>2, <2>1, <2>2
<1>4. c.hours > 0 => rank(status(c.spent, c.hours)) >= rank(status(c.spent, c.hours + 1))
  <2>1. c.hours + 1 \in Nat
    OBVIOUS
  <2>2. pct(c.spent, c.hours) \in Int /\ pct(c.spent, c.hours + 1) \in Int
        /\ (c.hours > 0 => pct(c.spent, c.hours + 1) <= pct(c.spent, c.hours))
    BY <1>1, <2>1
  <2>. QED BY <1>2, <2>1, <2>2
<1>5. c.daily > 0 /\ c.hours > 0 /\ 24 * c.spent = c.daily * c.hours => status(c.spent, c.hours) = "on_track"
  <2>1. SUFFICES ASSUME c.daily > 0, c.hours > 0, 24 * c.spent = c.daily * c.hours
        PROVE status(c.spent, c.hours) = "on_track"
    OBVIOUS
  <2>2. pct(c.spent, c.hours) = 10000
    BY <1>1, <2>1, SMTT(30)
  <2>3. status(c.spent, c.hours) = <<"underspending", "on_track", "overspending">>[value(pct(c.spent, c.hours))]
    BY <1>2, <2>1
  <2>. QED BY <2>2, <2>3
<1>6. c.daily > 0 /\ c.hours = 0 => status(c.spent, c.hours) = "underspending"
  BY <1>1, <1>2
<1>. QED BY <1>3, <1>4, <1>5, <1>6 DEF PacingIsSound, rank, status

-----------------------------------------------------------------------------
(* Changes of advertising figures *)

\* The scale of a share does not matter.
LEMMA ShareScales ==
    ASSUME NEW a \in Int, NEW b \in Nat
    PROVE  Share(3 * a, 3 * b) = Share(a, b)
<1>1. CASE b = 0
  BY <1>1 DEF Share
<1>2. CASE b # 0
  <2>. DEFINE x == 10000 * a
              r == Rounded(x, b)
              y == 10000 * (3 * a)
              t == 2 * y + 3 * b
              d == 2 * (3 * b)
  <2>1. x \in Int /\ y = 3 * x /\ b \in Nat \ {0} /\ 3 * b > 0
    BY <1>2, SMT
  <2>. HIDE DEF x, y
  <2>2. r \in Int /\ 2 * b * r <= 2 * x + b /\ 2 * x + b < 2 * b * r + 2 * b
    BY ONLY <2>1, Rounds DEF r
  <2>. HIDE DEF r
  <2>3. t \in Int /\ d \in Nat \ {0} /\ d * r <= t /\ t < d * r + d
    <3>. DEFINE m == b * r
    <3>1. m \in Int /\ 2 * b * r = 2 * m /\ d * r = 6 * m
      BY <2>1, <2>2, SMT
    <3>. HIDE DEF m
    <3>. QED BY <2>1, <2>2, <3>1, SMT
  <2>. HIDE DEF t, d
  <2>4. t \div d = r
    BY ONLY <2>2, <2>3, DivIs
  <2>5. Rounded(y, 3 * b) = r
    BY <2>4 DEF Rounded, t, d
  <2>6. Share(3 * a, 3 * b) = Rounded(y, 3 * b)
    BY <2>1, SMT DEF Share, y
  <2>7. Share(a, b) = r
    BY <2>1, SMT DEF Share, r, x
  <2>. QED BY <2>5, <2>6, <2>7
<1>. QED BY <1>1, <1>2

\* As much more and as much less are as far from the bound of a half.
LEMMA ShareBothWays ==
    ASSUME NEW off \in {10, 21, 60, 100}, NEW b \in Nat
    PROVE  Share(off, b) <= 5000 <=> Share(-off, b) >= -5000
<1>1. CASE b = 0
  <2>1. Share(off, b) = 0 /\ Share(-off, b) = 0
    BY <1>1 DEF Share
  <2>. QED BY <2>1, SMT
<1>2. CASE b # 0
  <2>. DEFINE x == 10000 * off
              y == 10000 * (-off)
              r == Rounded(x, b)
              q == Rounded(y, b)
  <2>1. x \in Int /\ y \in Int /\ y = -x /\ b \in Nat \ {0} /\ x \in {100000, 210000, 600000, 1000000}
    BY <1>2, SMT
  <2>. HIDE DEF x, y
  <2>2. r \in Int /\ 2 * b * r <= 2 * x + b /\ 2 * x + b < 2 * b * r + 2 * b
    BY ONLY <2>1, Rounds DEF r
  <2>3. q \in Int /\ 2 * b * q <= 2 * y + b /\ 2 * y + b < 2 * b * q + 2 * b
    BY ONLY <2>1, Rounds DEF q
  <2>. HIDE DEF r, q
  <2>4. r <= 5000 <=> 2 * x + b < 10002 * b
    BY ONLY <2>1, <2>2, SMTT(30)
  <2>5. q >= -5000 <=> 2 * y + b >= -10000 * b
    BY ONLY <2>1, <2>3, SMTT(30)
  <2>6. 2 * x # 10001 * b
    BY ONLY <2>1, SMT
  <2>7. r <= 5000 <=> q >= -5000
    BY ONLY <2>1, <2>4, <2>5, <2>6, SMT
  <2>8. Share(off, b) = r /\ Share(-off, b) = q
    BY <2>1, SMT DEF Share, r, q, x, y
  <2>. QED BY <2>7, <2>8
<1>. QED BY <1>1, <1>2

AdFigureSet == [spend : Nat, acos : Nat, ctr : Nat]

\* What is found in the change of each figure.
SpendLevel(s) == IF s > 10000 THEN "high" ELSE IF s > 5000 \/ s < -5000 THEN "medium" ELSE "none"

AcosLevel(s) == IF s > 5000 THEN "high" ELSE IF s > 3000 THEN "medium" ELSE "none"

CtrLevel(s) == IF s < -3000 THEN "medium" ELSE "none"

LevelRank(level) == CASE level = "high" -> 3 [] level = "medium" -> 2 [] OTHER -> 1

\* Levels grow with the changes they stand for.
LEMMA LevelRanks ==
    /\ \A r, s \in Int : r <= s => LevelRank(AcosLevel(r)) <= LevelRank(AcosLevel(s))
    /\ \A r, s \in Int : 0 <= r /\ r <= s => LevelRank(SpendLevel(r)) <= LevelRank(SpendLevel(s))
    /\ \A s \in Int : SpendLevel(s) = "none" <=> s <= 5000 /\ s >= -5000
    /\ SpendLevel(0) = "none" /\ AcosLevel(0) = "none" /\ CtrLevel(0) = "none"
<1>1. LevelRank("none") = 1 /\ LevelRank("medium") = 2 /\ LevelRank("high") = 3
  BY DEF LevelRank
<1>2. \A s : LevelRank(AcosLevel(s)) = IF s > 5000 THEN 3 ELSE IF s > 3000 THEN 2 ELSE 1
  BY <1>1, SMT DEF AcosLevel
<1>3. \A s : LevelRank(SpendLevel(s)) = IF s > 10000 THEN 3 ELSE IF s > 5000 \/ s < -5000 THEN 2 ELSE 1
  BY <1>1, SMT DEF SpendLevel
<1>4. \A r, s \in Int : r <= s => LevelRank(AcosLevel(r)) <= LevelRank(AcosLevel(s))
  BY <1>2, SMT
<1>5. \A r, s \in Int : 0 <= r /\ r <= s => LevelRank(SpendLevel(r)) <= LevelRank(SpendLevel(s))
  BY <1>3, SMT
<1>6. \A s \in Int : SpendLevel(s) = "none" <=> s <= 5000 /\ s >= -5000
  BY SMT DEF SpendLevel
<1>7. SpendLevel(0) = "none" /\ AcosLevel(0) = "none" /\ CtrLevel(0) = "none"
  BY SMT DEF SpendLevel, AcosLevel, CtrLevel
<1>. QED BY <1>4, <1>5, <1>6, <1>7

\* No change is a share of nothing, and so is any change of nothing.
LEMMA ShareOfNothing ==
    ASSUME NEW w \in Nat
    PROVE  /\ Share(0, w) = 0
           /\ \A a : Share(a, 0) = 0
<1>1. CASE w > 0
  <2>1. w \in Nat \ {0} /\ 2 * w \in Nat \ {0} /\ (2 * w) * 0 <= w /\ w < (2 * w) * 0 + 2 * w
    BY <1>1, SMT
  <2>2. w \div (2 * w) = 0
    BY ONLY <2>1, DivIs
  <2>3. 2 * (10000 * 0) + w = w
    BY SMT
  <2>. QED BY <1>1, <2>2, <2>3 DEF Share, Rounded
<1>2. CASE ~ w > 0
  BY <1>2 DEF Share
<1>3. \A a : Share(a, 0) = 0
  BY SMT DEF Share
<1>. QED BY <1>1, <1>2, <1>3

\* The findings are those of the change of each figure.
LEMMA AdFindingsAre ==
    ASSUME NEW now, NEW base
    PROVE  DetectAdAnomalies(now, base) =
               [spend |-> SpendLevel(Share(now.spend - base.spend, base.spend)),
                acos |-> AcosLevel(Share(now.acos - base.acos, base.acos)),
                ctr |-> CtrLevel(Share(now.ctr - base.ctr, base.ctr))]
BY DEF DetectAdAnomalies, CalcChange, SpendLevel, AcosLevel, CtrLevel

\* A finding follows from the figure it is about.
LEMMA FindingOf ==
    ASSUME NEW now, NEW base, NEW x, NEW w
    PROVE  /\ now.spend - base.spend = x /\ base.spend = w => DetectAdAnomalies(now, base).spend = SpendLevel(Share(x, w))
           /\ now.acos - base.acos = x /\ base.acos = w => DetectAdAnomalies(now, base).acos = AcosLevel(Share(x, w))
           /\ now.ctr - base.ctr = x /\ base.ctr = w => DetectAdAnomalies(now, base).ctr = CtrLevel(Share(x, w))
BY AdFindingsAre

\* More of a change is a greater share, and of the same sign.
LEMMA SharesOrdered ==
    ASSUME NEW w \in Nat, NEW x \in Int, NEW y \in Int, x <= y
    PROVE  /\ Share(x, w) \in Int /\ Share(y, w) \in Int
           /\ Share(x, w) <= Share(y, w)
           /\ 0 <= x => 0 <= Share(x, w)
           /\ x <= 0 => Share(x, w) <= 0
<1>1. w \in Int /\ 0 \in Int
  OBVIOUS
<1>2. Share(x, w) \in Int /\ Share(x, w) <= Share(y, w) /\ (x <= 0 => Share(x, w) <= 0)
  BY <1>1, ShareIs
<1>3. Share(y, w) \in Int
  BY <1>1, ShareIs
<1>4. 0 <= x => Share(0, w) <= Share(x, w)
  BY <1>1, ShareIs
<1>5. Share(0, w) = 0
  BY ShareOfNothing
<1>. QED BY <1>2, <1>3, <1>4, <1>5

\* The comparison of a campaign's figures with their baseline holds for any
\* figures.
LEMMA AdAnomalyHolds ==
    ASSUME NEW c, NEW n, NEW b, c.now = n, c.base = b, n \in AdFigureSet, b \in AdFigureSet
    PROVE  AdAnomalyIsSound(c)
<1>. DEFINE scaled(f) == [k \in DOMAIN f |-> 3 * f[k]]
            quiet == [spend |-> "none", acos |-> "none", ctr |-> "none"]
<1>1. /\ n = [spend |-> n.spend, acos |-> n.acos, ctr |-> n.ctr]
      /\ b = [spend |-> b.spend, acos |-> b.acos, ctr |-> b.ctr]
      /\ n.spend \in Nat /\ n.acos \in Nat /\ n.ctr \in Nat
      /\ b.spend \in Nat /\ b.acos \in Nat /\ b.ctr \in Nat
  BY DEF AdFigureSet
<1>2. DetectAdAnomalies(scaled(n), scaled(b)) = DetectAdAnomalies(n, b)
  <2>1. /\ scaled(n).spend = 3 * n.spend /\ scaled(n).acos = 3 * n.acos /\ scaled(n).ctr = 3 * n.ctr
        /\ scaled(b).spend = 3 * b.spend /\ scaled(b).acos = 3 * b.acos /\ scaled(b).ctr = 3 * b.ctr
    BY DEF AdFigureSet
  <2>2. \A x, y \in Nat : Share(3 * x - 3 * y, 3 * y) = Share(x - y, y)
    <3>. TAKE x, y \in Nat
    <3>1. 3 * x - 3 * y = 3 * (x - y) /\ x - y \in Int
      BY SMT
    <3>. QED BY <3>1, ShareScales
  <2>3. /\ Share(3 * n.spend - 3 * b.spend, 3 * b.spend) = Share(n.spend - b.spend, b.spend)
        /\ Share(3 * n.acos - 3 * b.acos, 3 * b.acos) = Share(n.acos - b.acos, b.acos)
        /\ Share(3 * n.ctr - 3 * b.ctr, 3 * b.ctr) = Share(n.ctr - b.ctr, b.ctr)
    BY <1>1, <2>2
  <2>. HIDE DEF scaled
  <2>. QED BY <2>1, <2>3, AdFindingsAre
<1>3. \A y \in Nat : Share(y - y, y) = 0 /\ \A x : Share(x, 0) = 0
  <2>. TAKE y \in Nat
  <2>1. y - y = 0
    BY SMT
  <2>. QED BY <2>1, ShareOfNothing
<1>4. DetectAdAnomalies(b, b) = quiet
  <2>1. /\ Share(b.spend - b.spend, b.spend) = 0
        /\ Share(b.acos - b.acos, b.acos) = 0
        /\ Share(b.ctr - b.ctr, b.ctr) = 0
    BY <1>1, <1>3
  <2>. QED BY <2>1, AdFindingsAre, LevelRanks
<1>5. \A k \in DOMAIN b : b[k] = 0 => DetectAdAnomalies(n, b)[k] = "none"
  <2>1. DOMAIN b = {"spend", "acos", "ctr"}
    BY DEF AdFigureSet
  <2>2. SUFFICES ASSUME NEW k \in {"spend", "acos", "ctr"}, b[k] = 0
                 PROVE  DetectAdAnomalies(n, b)[k] = "none"
    BY <2>1
  <2>3. CASE k = "spend"
    <3>1. b.spend = 0
      BY <2>2, <2>3
    <3>2. Share(n.spend - b.spend, b.spend) = 0
      BY <3>1, ShareOfNothing
    <3>3. DetectAdAnomalies(n, b).spend = "none"
      BY <3>2, AdFindingsAre, LevelRanks
    <3>. QED BY <3>3, <2>3
  <2>4. CASE k = "acos"
    <3>1. b.acos = 0
      BY <2>2, <2>4
    <3>2. Share(n.acos - b.acos, b.acos) = 0
      BY <3>1, ShareOfNothing
    <3>3. DetectAdAnomalies(n, b).acos = "none"
      BY <3>2, AdFindingsAre, LevelRanks
    <3>. QED BY <3>3, <2>4
  <2>5. CASE k = "ctr"
    <3>1. b.ctr = 0
      BY <2>2, <2>5
    <3>2. Share(n.ctr - b.ctr, b.ctr) = 0
      BY <3>1, ShareOfNothing
    <3>3. DetectAdAnomalies(n, b).ctr = "none"
      BY <3>2, AdFindingsAre, LevelRanks
    <3>. QED BY <3>3, <2>5
  <2>. QED BY <2>2, <2>3, <2>4, <2>5
<1>6. LevelRank(DetectAdAnomalies(n, b).acos) <= LevelRank(DetectAdAnomalies([n EXCEPT !.acos = @ + 5], b).acos)
  <2>. DEFINE m == [n EXCEPT !.acos = @ + 5]
  <2>1. m.acos = n.acos + 5
    BY DEF AdFigureSet
  <2>. HIDE DEF m
  <2>2. PICK w \in Nat, x \in Int, y \in Int :
            b.acos = w /\ n.acos - b.acos = x /\ m.acos - b.acos = y /\ x <= y
    <3>1. n.acos - b.acos \in Int /\ n.acos + 5 - b.acos \in Int /\ n.acos - b.acos <= n.acos + 5 - b.acos
      BY <1>1, SMT
    <3>. QED BY <1>1, <2>1, <3>1
  <2>3. Share(x, w) \in Int /\ Share(y, w) \in Int /\ Share(x, w) <= Share(y, w)
    BY <2>2, SharesOrdered
  <2>4. DetectAdAnomalies(n, b).acos = AcosLevel(Share(x, w)) /\ DetectAdAnomalies(m, b).acos = AcosLevel(Share(y, w))
    BY <2>2, FindingOf
  <2>5. LevelRank(AcosLevel(Share(x, w))) <= LevelRank(AcosLevel(Share(y, w)))
    BY <2>3, LevelRanks
  <2>6. LevelRank(DetectAdAnomalies(n, b).acos) <= LevelRank(DetectAdAnomalies(m, b).acos)
    BY <2>4, <2>5
  <2>. QED BY <2>6 DEF m
<1>7. \A off \in {10, 21, 60, 100} : off <= b.spend =>
          (DetectAdAnomalies([n EXCEPT !.spend = b.spend + off], b).spend = "none")
              = (DetectAdAnomalies([n EXCEPT !.spend = b.spend - off], b).spend = "none")
  <2>. TAKE off \in {10, 21, 60, 100}
  <2>. DEFINE m == [n EXCEPT !.spend = b.spend + off]
              l == [n EXCEPT !.spend = b.spend - off]
  <2>1. m.spend = b.spend + off /\ l.spend = b.spend - off
    BY DEF AdFigureSet
  <2>. HIDE DEF m, l
  <2>2. PICK w \in Nat, x \in Int, y \in Int :
            /\ b.spend = w /\ m.spend - b.spend = x /\ l.spend - b.spend = y
            /\ x = off /\ y = -off /\ y <= x /\ 0 <= x /\ y <= 0
    <3>1. b.spend + off - b.spend = off /\ b.spend - off - b.spend = -off /\ off \in Int /\ -off \in Int /\ 0 <= off /\ -off <= 0 /\ -off <= off
      BY <1>1, SMT
    <3>2. m.spend - b.spend = off /\ l.spend - b.spend = -off
      BY <1>1, <2>1, SMT
    <3>. QED BY <1>1, <3>1, <3>2
  <2>3. Share(x, w) \in Int /\ Share(y, w) \in Int /\ Share(y, w) <= 0
    BY <2>2, SharesOrdered
  <2>4. 0 <= Share(x, w)
    <3>1. x <= x
      BY SMT
    <3>. QED BY <2>2, <3>1, SharesOrdered
  <2>5. DetectAdAnomalies(m, b).spend = SpendLevel(Share(x, w)) /\ DetectAdAnomalies(l, b).spend = SpendLevel(Share(y, w))
    BY <2>2, FindingOf
  <2>6. Share(x, w) <= 5000 <=> Share(y, w) >= -5000
    <3>1. Share(off, w) <= 5000 <=> Share(-off, w) >= -5000
      BY ShareBothWays
    <3>. QED BY <2>2, <3>1
  <2>7. SpendLevel(Share(x, w)) = "none" <=> Share(x, w) <= 5000 /\ Share(x, w) >= -5000
    BY <2>3, LevelRanks
  <2>8. SpendLevel(Share(y, w)) = "none" <=> Share(y, w) <= 5000 /\ Share(y, w) >= -5000
    BY <2>3, LevelRanks
  <2>9. SpendLevel(Share(x, w)) = "none" <=> SpendLevel(Share(y, w)) = "none"
    BY ONLY <2>3, <2>4, <2>6, <2>7, <2>8, SMT
  <2>10. (DetectAdAnomalies(m, b).spend = "none") = (DetectAdAnomalies(l, b).spend = "none")
    BY <2>5, <2>9
  <2>. QED BY <2>10 DEF m, l
<1>8. n.spend >= b.spend =>
          LevelRank(DetectAdAnomalies(n, b).spend) <= LevelRank(DetectAdAnomalies([n EXCEPT !.spend = @ + 60], b).spend)
  <2>. HAVE n.spend >= b.spend
  <2>. DEFINE m == [n EXCEPT !.spend = @ + 60]
  <2>1. m.spend = n.spend + 60
    BY DEF AdFigureSet
  <2>. HIDE DEF m
  <2>2. PICK w \in Nat, x \in Int, y \in Int :
            b.spend = w /\ n.spend - b.spend = x /\ m.spend - b.spend = y /\ x <= y /\ 0 <= x
    <3>1. /\ n.spend - b.spend \in Int /\ n.spend + 60 - b.spend \in Int
          /\ n.spend - b.spend <= n.spend + 60 - b.spend /\ 0 <= n.spend - b.spend
      BY <1>1, SMT
    <3>. QED BY <1>1, <2>1, <3>1
  <2>3. Share(x, w) \in Int /\ Share(y, w) \in Int /\ Share(x, w) <= Share(y, w) /\ 0 <= Share(x, w)
    BY <2>2, SharesOrdered
  <2>4. DetectAdAnomalies(n, b).spend = SpendLevel(Share(x, w)) /\ DetectAdAnomalies(m, b).spend = SpendLevel(Share(y, w))
    BY <2>2, FindingOf
  <2>5. LevelRank(SpendLevel(Share(x, w))) <= LevelRank(SpendLevel(Share(y, w)))
    BY <2>3, LevelRanks
  <2>6. LevelRank(DetectAdAnomalies(n, b).spend) <= LevelRank(DetectAdAnomalies(m, b).spend)
    BY <2>4, <2>5
  <2>. QED BY <2>6 DEF m
<1>. HIDE DEF scaled, quiet
<1>. QED BY <1>2, <1>4, <1>5, <1>6, <1>7, <1>8 DEF AdAnomalyIsSound, LevelRank, scaled, quiet

-----------------------------------------------------------------------------
(* Urgency *)

\* When rounding to tenths takes a stock over a limit.
LEMMA OverLimit ==
    ASSUME NEW q \in Nat, NEW s \in Nat \ {0}, NEW m \in Nat
    PROVE  Rounded(10 * q, s) > 10 * m <=> 20 * (q - m * s) >= s
<1>. DEFINE r == Rounded(10 * q, s)
<1>1. r \in Int /\ 2 * s * r <= 2 * (10 * q) + s /\ 2 * (10 * q) + s < 2 * s * r + 2 * s
  <2>1. 10 * q \in Int
    OBVIOUS
  <2>. QED BY <2>1, Rounds
<1>. HIDE DEF r
<1>2. 2 * s * r = 2 * (s * r) /\ s * r \in Int /\ s * (10 * m) = 10 * (m * s) /\ m * s \in Int
      /\ s * (10 * m + 1) = 10 * (m * s) + s
  BY <1>1
<1>3. ASSUME r > 10 * m PROVE 20 * (q - m * s) >= s
  <2>1. s * (10 * m + 1) <= s * r
    <3>. 10 * m + 1 <= r /\ 10 * m + 1 \in Int
      BY <1>1, <1>3
    <3>. QED BY <1>1, TimesMonotone
  <2>. QED BY <1>1, <1>2, <2>1
<1>4. ASSUME r <= 10 * m PROVE 20 * (q - m * s) < s
  <2>1. s * r <= s * (10 * m)
    BY <1>1, <1>4, TimesMonotone
  <2>. QED BY <1>1, <1>2, <2>1
<1>5. r > 10 * m \/ r <= 10 * m
  BY <1>1
<1>6. r > 10 * m <=> 20 * (q - m * s) >= s
  BY <1>1, <1>2, <1>3, <1>4, <1>5
<1>. QED BY <1>6 DEF r

\* The statements about urgency hold for any stock, sales and lead time.
LEMMA UrgencyHolds ==
    ASSUME NEW c, c.qty \in Nat, c.sales \in Nat, c.lead \in Nat
    PROVE  UrgencyIsSound(c)
<1>. DEFINE rank(level) == CASE level = "urgent" -> 4 [] level = "high" -> 3 [] level = "normal" -> 2 [] OTHER -> 1
            bySupply(qty) == rank(ClassifyUrgency(CalculateDaysOfSupply(qty, c.sales), c.lead))
            byStock(qty) == rank(AutoPrioritize(qty, c.sales, c.lead))
            rounded == {n \in 1..3 : c.sales > 0 /\ c.qty > n * c.lead * c.sales
                                     /\ 20 * (c.qty - n * c.lead * c.sales) < c.sales}
            s == c.sales
            L == c.lead
            m == L * s
            over(q, n) == 20 * (q - n * m) >= s
<1>1. m \in Nat /\ 1 * L * s = m /\ 2 * L * s = 2 * m /\ 3 * L * s = 3 * m
  OBVIOUS
<1>2. ASSUME NEW q \in Nat
      PROVE  byStock(q) = IF s <= 0 \/ q > 3 * m THEN 1 ELSE IF q <= m THEN 4 ELSE IF q <= 2 * m THEN 3 ELSE 2
  <2>1. AutoPrioritize(q, s, L) = IF s <= 0 \/ q > 3 * m THEN "low"
                                  ELSE IF q <= m THEN "urgent" ELSE IF q <= 2 * m THEN "high" ELSE "normal"
    BY <1>1 DEF AutoPrioritize
  <2>. QED BY <2>1
<1>3. ASSUME NEW q \in Nat, s > 0
      PROVE  bySupply(q) = IF over(q, 3) THEN 1 ELSE IF ~over(q, 1) THEN 4 ELSE IF ~over(q, 2) THEN 3 ELSE 2
  <2>. DEFINE r == Rounded(10 * q, s)
  <2>1. CalculateDaysOfSupply(q, s) = r
    BY <1>3 DEF CalculateDaysOfSupply
  <2>2. r \in Int /\ r >= 0
    <3>1. 10 * q \in Int /\ s \in Nat \ {0} /\ s * 0 <= 10 * q /\ 0 \in Int
      BY <1>3
    <3>2. r \in Int
      BY ONLY <3>1, Rounds
    <3>3. 0 <= r
      BY ONLY <3>1, RoundedBounds
    <3>. QED BY <3>2, <3>3
  <2>3. (r > 10 * L <=> over(q, 1)) /\ (r > 20 * L <=> over(q, 2)) /\ (r > 30 * L <=> over(q, 3))
    <3>1. L \in Nat /\ 2 * L \in Nat /\ 3 * L \in Nat /\ s \in Nat \ {0}
      BY <1>3
    <3>2. /\ Rounded(10 * q, s) > 10 * L <=> 20 * (q - L * s) >= s
          /\ Rounded(10 * q, s) > 10 * (2 * L) <=> 20 * (q - (2 * L) * s) >= s
          /\ Rounded(10 * q, s) > 10 * (3 * L) <=> 20 * (q - (3 * L) * s) >= s
      BY <3>1, OverLimit
    <3>3. (2 * L) * s = 2 * m /\ (3 * L) * s = 3 * m /\ L * s = 1 * m /\ 10 * (2 * L) = 20 * L /\ 10 * (3 * L) = 30 * L
      OBVIOUS
    <3>. HIDE DEF m
    <3>. QED BY <3>2, <3>3
  <2>. HIDE DEF r, over
  <2>4. ClassifyUrgency(r, L) = IF over(q, 3) THEN "low" ELSE IF ~over(q, 1) THEN "urgent"
                                ELSE IF ~over(q, 2) THEN "high" ELSE "normal"
    BY <2>2, <2>3 DEF ClassifyUrgency
  <2>5. bySupply(q) = rank(ClassifyUrgency(r, L))
    BY <2>1
  <2>. HIDE DEF bySupply
  <2>. QED BY <2>4, <2>5
<1>4. ASSUME NEW q \in Nat, s = 0
      PROVE  bySupply(q) = IF q > 0 THEN 1 ELSE 4
  <2>1. CalculateDaysOfSupply(q, s) = IF q > 0 THEN -1 ELSE 0
    BY <1>4 DEF CalculateDaysOfSupply
  <2>2. ClassifyUrgency(-1, L) = "low" /\ ClassifyUrgency(0, L) = "urgent"
    BY DEF ClassifyUrgency
  <2>. QED BY <2>1, <2>2
<1>. HIDE DEF rank, bySupply, byStock, m
<1>5. c.qty + 1 \in Nat /\ s \in Nat
  OBVIOUS
<1>6. ASSUME s > 0, rounded = {} PROVE bySupply(c.qty) = byStock(c.qty)
  <2>1. \A n \in 1..3 : c.qty > n * L * s => 20 * (c.qty - n * L * s) >= s
    <3>. TAKE n \in 1..3
    <3>1. n \notin rounded
      BY <1>6
    <3>2. n * L * s \in Int
      OBVIOUS
    <3>. QED BY <3>1, <3>2, <1>6
  <2>2. (c.qty > m => over(c.qty, 1)) /\ (c.qty > 2 * m => over(c.qty, 2)) /\ (c.qty > 3 * m => over(c.qty, 3))
    <3>1. 1 \in 1..3 /\ 2 \in 1..3 /\ 3 \in 1..3 /\ 1 * m = m
      BY <1>1
    <3>. QED BY <2>1, <3>1, <1>1
  <2>3. (over(c.qty, 1) => c.qty > m) /\ (over(c.qty, 2) => c.qty > 2 * m) /\ (over(c.qty, 3) => c.qty > 3 * m)
    BY <1>1, <1>5, <1>6
  <2>4. c.qty \in Nat /\ s > 0
    BY <1>6
  <2>5. (c.qty > m <=> ~(c.qty <= m)) /\ (c.qty > 2 * m <=> ~(c.qty <= 2 * m))
    BY <1>1
  <2>. HIDE DEF over
  <2>6. byStock(c.qty) = IF c.qty > 3 * m THEN 1 ELSE IF c.qty <= m THEN 4 ELSE IF c.qty <= 2 * m THEN 3 ELSE 2
    BY <1>2, <2>4, <1>5
  <2>7. bySupply(c.qty) = IF over(c.qty, 3) THEN 1 ELSE IF ~over(c.qty, 1) THEN 4 ELSE IF ~over(c.qty, 2) THEN 3 ELSE 2
    BY <1>3, <2>4
  <2>. QED BY <2>2, <2>3, <2>5, <2>6, <2>7
<1>7. s = 0 => bySupply(c.qty) = byStock(c.qty) \/ (c.qty = 0 /\ bySupply(0) = 4)
  BY <1>2, <1>4
<1>8. bySupply(c.qty + 1) <= bySupply(c.qty)
  <2>1. CASE s = 0
    BY <2>1, <1>4, <1>5
  <2>2. CASE s > 0
    <3>1. \A n \in 1..3 : over(c.qty, n) => over(c.qty + 1, n)
      BY <1>1, <1>5
    <3>2. over(c.qty, 3) => over(c.qty, 2)
      BY <1>1, <1>5
    <3>3. over(c.qty, 2) => over(c.qty, 1)
      BY <1>1, <1>5
    <3>4. over(c.qty + 1, 3) => over(c.qty + 1, 2)
      BY <1>1, <1>5
    <3>5. over(c.qty + 1, 2) => over(c.qty + 1, 1)
      BY <1>1, <1>5
    <3>. HIDE DEF over
    <3>. QED BY <2>2, <1>3, <1>5, <3>1, <3>2, <3>3, <3>4, <3>5
  <2>. QED BY <1>5, <2>1, <2>2
<1>9. byStock(c.qty + 1) <= byStock(c.qty)
  BY <1>1, <1>2, <1>5
<1>. HIDE DEF rounded
<1>. QED BY <1>6, <1>7, <1>8, <1>9 DEF UrgencyIsSound, rank, bySupply, byStock, rounded

-----------------------------------------------------------------------------
(* Discrepancies of stock *)

\* The statements about discrepancies hold for any list of the platform.
LEMMA DiscrepancyHolds ==
    ASSUME NEW K, NEW c, c.platform \in Seq([sku : K, qty : Int]),
           c.known \in UNION {[S -> Int] : S \in SUBSET K}
    PROVE  DiscrepancyIsSound(c)
<1>. DEFINE names == <<"none", "low", "medium", "high", "critical">>
            severity(off) == CHOOSE n \in 1..5 : names[n] = DiscrepancySeverity(0, off)
            size(off) == IF off >= 0 THEN off ELSE -off
            of(x) == IF x = 0 THEN 1 ELSE Step4(x, 11, 51, 101) + 1
            found == DetectDiscrepancies(c.platform, c.known)
<1>1. \A i \in DOMAIN c.platform : c.platform[i].sku \in K /\ c.platform[i].qty \in Int
                                   /\ c.platform[i] = [sku |-> c.platform[i].sku, qty |-> c.platform[i].qty]
  <2>. TAKE i \in DOMAIN c.platform
  <2>. DEFINE R == [sku : K, qty : Int]
  <2>1. c.platform \in Seq(R)
    OBVIOUS
  <2>. HIDE DEF R
  <2>2. c.platform[i] \in R
    BY <2>1
  <2>. QED BY <2>2 DEF R
<1>2. \A k \in DOMAIN c.known : c.known[k] \in Int
  OBVIOUS
<1>3. ASSUME NEW i \in DOMAIN c.platform, c.platform[i].sku \in DOMAIN c.known,
             c.known[c.platform[i].sku] # c.platform[i].qty
      PROVE  [sku |-> c.platform[i].sku, difference |-> c.platform[i].qty - c.known[c.platform[i].sku]] \in found
  BY <1>3 DEF DetectDiscrepancies
<1>4. ASSUME NEW e \in found
      PROVE  /\ e.sku \in DOMAIN c.known
             /\ [sku |-> e.sku, qty |-> c.known[e.sku] + e.difference] \in ToSet(c.platform)
  <2>1. PICK i \in DOMAIN c.platform : /\ c.platform[i].sku \in DOMAIN c.known
                                       /\ e = [sku |-> c.platform[i].sku,
                                               difference |-> c.platform[i].qty - c.known[c.platform[i].sku]]
    BY <1>4 DEF DetectDiscrepancies
  <2>. DEFINE sku == c.platform[i].sku
              qty == c.platform[i].qty
              known == c.known[sku]
  <2>0. qty \in Int /\ known \in Int /\ e.sku = sku /\ e.difference = qty - known
    BY <1>1, <1>2, <2>1
  <2>. HIDE DEF qty, known
  <2>2. known + e.difference = qty
    BY <2>0
  <2>4. c.known[e.sku] + e.difference = c.platform[i].qty
    BY <2>0, <2>2 DEF qty, known
  <2>3. [sku |-> e.sku, qty |-> c.known[e.sku] + e.difference] = c.platform[i]
    BY <1>1, <2>1, <2>4
  <2>. QED BY <2>1, <2>3 DEF ToSet
<1>5. ASSUME NEW off \in Int PROVE severity(off) = of(size(off))
  <2>. DEFINE x == Max({off - 0, 0 - off})
              k == of(x)
  <2>1. x = size(off)
    <3>. x = IF off - 0 >= 0 - off THEN off - 0 ELSE 0 - off
      BY MaxOfTwo
    <3>. QED OBVIOUS
  <2>2. x \in Nat
    BY <2>1
  <2>. HIDE DEF x
  <2>3. Reached(x, <<11, 51, 101>>) = Step4(x, 11, 51, 101)
    BY <2>2, Reached3 DEF Step4
  <2>4. DiscrepancySeverity(0, off) = IF x = 0 THEN "none"
                                      ELSE <<"low", "medium", "high", "critical">>[Step4(x, 11, 51, 101)]
    BY <2>3 DEF DiscrepancySeverity, x
  <2>5. k \in 1..5 /\ DiscrepancySeverity(0, off) = names[k]
    BY <2>2, <2>4 DEF Step4
  <2>. HIDE DEF k
  <2>6. \A n \in 1..5 : names[n] = DiscrepancySeverity(0, off) <=> n = k
    BY <2>5
  <2>. HIDE DEF names
  <2>7. severity(off) = k
    BY <2>5, <2>6
  <2>. QED BY <2>1, <2>7 DEF k
<1>. HIDE DEF severity
<1>6. \A off \in Nat : severity(off) <= severity(off + 1) /\ severity(off) = severity(-off)
  <2>. TAKE off \in Nat
  <2>1. severity(off) = of(off) /\ severity(off + 1) = of(off + 1) /\ severity(-off) = of(off)
    BY <1>5
  <2>. QED BY <2>1 DEF Step4
<1>7. {0, 10, 11, 50, 51, 100, 101} \in SUBSET Nat
  OBVIOUS
<1>8. \A off \in {0, 10, 11, 50, 51, 100, 101} :
          severity(off) <= severity(off + 1) /\ severity(off) = severity(-off)
  BY <1>6, <1>7
<1>9. \A i \in DOMAIN c.platform :
          c.platform[i].sku \in DOMAIN c.known /\ c.known[c.platform[i].sku] # c.platform[i].qty =>
              [sku |-> c.platform[i].sku, difference |-> c.platform[i].qty - c.known[c.platform[i].sku]] \in found
  BY <1>3
<1>10. \A e \in found : /\ e.sku \in DOMAIN c.known
                        /\ [sku |-> e.sku, qty |-> c.known[e.sku] + e.difference] \in ToSet(c.platform)
  BY <1>4
<1>. HIDE DEF found
<1>. QED BY ONLY <1>8, <1>9, <1>10 DEF DiscrepancyIsSound, severity, names, found

-----------------------------------------------------------------------------
(* Snapshots *)

\* The statements about snapshots hold for any three snapshots.
LEMMA SnapshotsHold ==
    ASSUME NEW K, NEW c,
           c.first \in UNION {[S -> Int] : S \in SUBSET K},
           c.second \in UNION {[S -> Int] : S \in SUBSET K},
           c.third \in UNION {[S -> Int] : S \in SUBSET K}
    PROVE  SnapshotsAreSound(c)
<1>. DEFINE a == c.first
            b == c.second
            d == c.third
            changes(current, previous) == CompareSnapshots(current, previous)
            of(x, sku) == IF sku \in DOMAIN x.changed THEN x.changed[sku] ELSE 0
            kept == DOMAIN a \ changes(b, a).removed
<1>1. /\ \A sku \in DOMAIN a : a[sku] \in Int
      /\ \A sku \in DOMAIN b : b[sku] \in Int
      /\ \A sku \in DOMAIN d : d[sku] \in Int
  OBVIOUS
<1>. HIDE DEF a, b, d
<1>2. ASSUME NEW x, NEW y
      PROVE  /\ changes(x, y).added = DOMAIN x \ DOMAIN y
             /\ changes(x, y).removed = DOMAIN y \ DOMAIN x
             /\ DOMAIN changes(x, y).changed = {k \in DOMAIN x \cap DOMAIN y : x[k] # y[k]}
             /\ \A k \in DOMAIN changes(x, y).changed : changes(x, y).changed[k] = x[k] - y[k]
  BY DEF CompareSnapshots
<1>. HIDE DEF changes
<1>3. ASSUME NEW x, NEW y, \A k \in DOMAIN x : x[k] \in Int, \A k \in DOMAIN y : y[k] \in Int,
             NEW k \in DOMAIN x \cap DOMAIN y
      PROVE  of(changes(x, y), k) = x[k] - y[k]
  <2>1. CASE x[k] = y[k]
    <3>. k \notin DOMAIN changes(x, y).changed
      BY <1>2, <2>1
    <3>. x[k] \in Int
      BY <1>3
    <3>. QED BY <2>1
  <2>2. CASE x[k] # y[k]
    <3>. k \in DOMAIN changes(x, y).changed
      BY <1>2, <2>2
    <3>. QED BY <1>2
  <2>. QED BY <2>1, <2>2
<1>. HIDE DEF of
<1>4. changes(a, b).added = changes(b, a).removed /\ changes(a, b).removed = changes(b, a).added
  <2>1. changes(a, b).added = DOMAIN a \ DOMAIN b /\ changes(a, b).removed = DOMAIN b \ DOMAIN a
    BY <1>2
  <2>2. changes(b, a).added = DOMAIN b \ DOMAIN a /\ changes(b, a).removed = DOMAIN a \ DOMAIN b
    BY <1>2
  <2>. QED BY <2>1, <2>2
<1>5. DOMAIN changes(a, b).changed = DOMAIN changes(b, a).changed
  <2>1. DOMAIN changes(a, b).changed = {k \in DOMAIN a \cap DOMAIN b : a[k] # b[k]}
    BY <1>2
  <2>2. DOMAIN changes(b, a).changed = {k \in DOMAIN b \cap DOMAIN a : b[k] # a[k]}
    BY <1>2
  <2>. QED BY <2>1, <2>2
<1>6. kept = DOMAIN a \cap DOMAIN b /\ kept \cup changes(b, a).added = DOMAIN b
  <2>1. changes(b, a).added = DOMAIN b \ DOMAIN a /\ changes(b, a).removed = DOMAIN a \ DOMAIN b
    BY <1>2
  <2>. QED BY <2>1
<1>7. \A sku \in kept : a[sku] + of(changes(b, a), sku) = b[sku]
  <2>. TAKE sku \in kept
  <2>1. of(changes(b, a), sku) = b[sku] - a[sku] /\ a[sku] \in Int /\ b[sku] \in Int
    BY <1>1, <1>3, <1>6
  <2>. QED BY <2>1
<1>8. \A sku \in DOMAIN a \cap DOMAIN b \cap DOMAIN d :
          of(changes(d, a), sku) = of(changes(b, a), sku) + of(changes(d, b), sku)
  <2>. TAKE sku \in DOMAIN a \cap DOMAIN b \cap DOMAIN d
  <2>1. of(changes(d, a), sku) = d[sku] - a[sku] /\ of(changes(b, a), sku) = b[sku] - a[sku]
        /\ of(changes(d, b), sku) = d[sku] - b[sku]
    BY <1>1, <1>3
  <2>2. a[sku] \in Int /\ b[sku] \in Int /\ d[sku] \in Int
    BY <1>1
  <2>. QED BY <2>1, <2>2
<1>. HIDE DEF kept
<1>. QED BY <1>4, <1>5, <1>6, <1>7, <1>8 DEF SnapshotsAreSound, changes, of, kept, a, b, d

-----------------------------------------------------------------------------
(* Transfers *)

\* The integral square root, whose square does not pass the number.
LEMMA FloorRootIs ==
    ASSUME NEW n \in Nat
    PROVE  /\ FloorRoot(n) \in 0..n
           /\ FloorRoot(n) * FloorRoot(n) <= n /\ n < (FloorRoot(n) + 1) * (FloorRoot(n) + 1)
<1>. DEFINE T == {y \in Nat : n < (y + 1) * (y + 1)}
<1>1. n \in T
  <2>1. (n + 1) * 1 <= (n + 1) * (n + 1)
    BY TimesMonotone
  <2>. QED BY <2>1
<1>2. PICK x \in T : \A y \in T : x <= y
  <2>. T \in SUBSET Nat /\ T # {}
    BY <1>1
  <2>. HIDE DEF T
  <2>. QED BY Smallest
<1>3. x <= n
  BY <1>1, <1>2
<1>4. x * x <= n
  <2>1. CASE x = 0
    BY <2>1
  <2>2. CASE x > 0
    <3>1. x - 1 \in Nat /\ x - 1 \notin T
      BY <1>2, <2>2
    <3>2. (x - 1) + 1 = x
      BY <1>2
    <3>3. ~(n < x * x)
      BY <3>1, <3>2
    <3>. QED BY <3>3, <1>2
  <2>. QED BY <1>2, <2>1, <2>2
<1>5. x \in 0..n /\ x * x <= n /\ n < (x + 1) * (x + 1)
  BY <1>2, <1>3, <1>4
<1>6. \E z \in 0..n : z * z <= n /\ n < (z + 1) * (z + 1)
  BY <1>5
<1>. QED BY <1>6 DEF FloorRoot

TransferStrategies == {"min_max", "fixed_quantity", "eoq", "reorder_point"}

\* The economic quantity covers what was sold in the time of supply, as long as
\* that is less than thirty days and the sales are at most four hundred a day.
LEMMA RootCovers ==
    ASSUME NEW s \in Nat, s <= 400, NEW p \in Nat, s > 0 => p + 1 <= 30 * s
    PROVE  FloorRoot(365000 * s) \in Nat /\ (s > 0 => FloorRoot(365000 * s) >= p + 1)
<1>. DEFINE big == 365000 * s
            root == FloorRoot(big)
<1>0. big \in Nat
  BY SMT
<1>1. root \in 0..big /\ big < (root + 1) * (root + 1)
  <2>. HIDE DEF big
  <2>. QED BY ONLY <1>0, FloorRootIs, SMT
<1>2. root \in Nat
  BY <1>0, <1>1, SMT
<1>. DEFINE side == root + 1
            span == 30 * s
<1>3. ASSUME s > 0, root <= p PROVE FALSE
  <2>1. side \in Nat /\ span \in Nat /\ side <= span
    <3>. HIDE DEF root
    <3>. QED BY <1>2, <1>3, SMT
  <2>2. big < side * side
    BY <1>1
  <2>. HIDE DEF side, span
  <2>3. side * side <= side * span /\ span * side <= span * span
    BY ONLY <2>1, TimesMonotone, SMT
  <2>4. side * side \in Nat /\ side * span = span * side /\ span * span \in Nat
    BY ONLY <2>1, SMT
  <2>5. span * span = 900 * (s * s)
    BY SMT DEF span
  <2>6. s * s <= s * 400 /\ s * s \in Nat
    BY TimesMonotone, SMT
  <2>7. big = 365000 * s
    OBVIOUS
  <2>8. side * span \in Nat /\ span * side \in Nat
    BY ONLY <2>1, SMT
  <2>. DEFINE x == side * side
              y == side * span
              z == span * span
              w == s * s
  <2>9. big < x /\ x <= y /\ y <= z /\ z = 900 * w /\ w <= 400 * s /\ big = 365000 * s
        /\ x \in Nat /\ y \in Nat /\ z \in Nat /\ w \in Nat
    BY <2>2, <2>3, <2>4, <2>5, <2>6, <2>7, <2>8, SMT
  <2>. HIDE DEF big, x, y, z, w
  <2>. QED BY <1>0, <1>3, <2>9, SMT
<1>. QED
  <2>. HIDE DEF root
  <2>1. root \in Nat /\ (s > 0 => root >= p + 1)
    BY <1>2, <1>3, SMT
  <2>. QED BY <2>1 DEF root, big

\* The statements about transfers hold for those.
LEMMA TransferHolds ==
    ASSUME NEW c, c.strategy \in TransferStrategies, c.qty \in Nat, c.sales \in Nat, c.lead \in Nat,
           c.safety \in Nat, c.lead + c.safety < 30, c.sales <= 400
    PROVE  TransferIsSound(c)
<1>. DEFINE s == c.sales
            point == s * (c.lead + c.safety)
            root == FloorRoot(365000 * s)
            spare == s * c.safety
            qty(stock) == CalculateTransferQty(c.strategy, stock, s, c.lead, c.safety)
<1>1. point \in Nat /\ spare \in Nat /\ s \in Nat /\ c.qty \in Nat
  OBVIOUS
<1>2. s > 0 => point + 1 <= 30 * s
  <2>. SUFFICES ASSUME s > 0 PROVE point + 1 <= 30 * s
    OBVIOUS
  <2>1. s * (c.lead + c.safety) <= s * 29
    BY TimesMonotone
  <2>. QED BY <2>1
<1>3. s > 0 /\ c.safety > 0 => spare > 0 /\ point > 0
  <2>. SUFFICES ASSUME s > 0, c.safety > 0 PROVE spare > 0 /\ point > 0
    OBVIOUS
  <2>1. s * 1 <= s * c.safety
    BY TimesMonotone
  <2>2. s * 1 <= s * (c.lead + c.safety)
    BY TimesMonotone
  <2>. QED BY <2>1, <2>2
<1>4. root \in Nat /\ (s > 0 => root >= point + 1)
  <2>. HIDE DEF point
  <2>. QED BY <1>1, <1>2, RootCovers, SMT
<1>5. ASSUME NEW q \in Nat
      PROVE  qty(q) = IF q > point THEN 0
                      ELSE IF c.strategy = "min_max" THEN 2 * point - q
                      ELSE IF c.strategy = "fixed_quantity" THEN 30 * s
                      ELSE IF c.strategy = "eoq" THEN root
                      ELSE point - q + spare
  <2>. HIDE DEF root, point, spare
  <2>. QED BY DEF CalculateTransferQty, TransferStrategies, root, point, spare
<1>. HIDE DEF qty, point, spare, root, s
<1>6. \A q \in Nat : qty(q) \in Nat
  BY <1>1, <1>4, <1>5
<1>7. c.qty + 1 \in Nat /\ c.qty + qty(c.qty) \in Nat /\ 0 \in Nat
  BY <1>1, <1>6
<1>8. qty(c.qty) >= 0 /\ qty(c.qty + 1) <= qty(c.qty)
  BY <1>1, <1>4, <1>5, <1>7
<1>9. c.qty <= point /\ s > 0 /\ c.safety > 0 => qty(c.qty) > 0
  BY <1>1, <1>3, <1>4, <1>5
<1>10. c.qty <= point /\ c.strategy \in {"min_max", "reorder_point"} => c.qty + qty(c.qty) = qty(0)
  BY <1>1, <1>5, <1>7
<1>11. c.qty + qty(c.qty) > point => qty(c.qty + qty(c.qty)) = 0
  BY <1>5, <1>7
<1>12. s > 0 /\ c.safety > 0 => c.qty + qty(c.qty) > point
  BY <1>1, <1>2, <1>3, <1>4, <1>5
<1>. QED BY <1>8, <1>9, <1>10, <1>11, <1>12 DEF TransferIsSound, qty, point, s

-----------------------------------------------------------------------------
(* Stock alerts *)

\* The statements about stock alerts hold for any quantities.
LEMMA StockAlertHolds ==
    ASSUME NEW c \in [of : {"stock_alerts"}, available : Nat, onHand : Nat, defective : Nat]
    PROVE  StockAlertIsSound(c)
<1>. DEFINE d == [c EXCEPT !.defective = c.onHand]
            e == [c EXCEPT !.available = @ + 1]
<1>1. /\ d.available = c.available /\ d.onHand = c.onHand /\ d.defective = c.onHand
      /\ e.available = c.available + 1 /\ e.onHand = c.onHand /\ e.defective = c.defective
      /\ c.available \in Nat /\ c.onHand \in Nat /\ c.defective \in Nat
  OBVIOUS
<1>. HIDE DEF d, e
<1>2. c.onHand > 0 => "defective_high" \in RaisedAlerts(d)
  BY <1>1 DEF RaisedAlerts
<1>3. ASSUME NEW type \in RaisedAlerts(e) PROVE type \in RaisedAlerts(c)
  <2>1. type \in {"low_stock", "stockout", "overstock", "slow_moving", "dead_stock", "defective_high"}
    BY <1>3 DEF RaisedAlerts
  <2>2. /\ type = "low_stock" => e.available <= 10
        /\ type = "stockout" => e.available = 0
        /\ type = "overstock" => e.onHand >= 100
        /\ type = "slow_moving" => e.onHand >= 20
        /\ type = "dead_stock" => e.onHand >= 10
        /\ type = "defective_high" => e.onHand > 0 /\ 10 * e.defective >= e.onHand
    BY <1>3 DEF RaisedAlerts
  <2>3. /\ type = "low_stock" => c.available <= 10
        /\ type = "stockout" => c.available = 0
        /\ type = "overstock" => c.onHand >= 100
        /\ type = "slow_moving" => c.onHand >= 20
        /\ type = "dead_stock" => c.onHand >= 10
        /\ type = "defective_high" => c.onHand > 0 /\ 10 * c.defective >= c.onHand
    BY <2>2, <1>1
  <2>. QED BY <2>1, <2>3 DEF RaisedAlerts
<1>4. /\ "overstock" \in RaisedAlerts(c) => "slow_moving" \in RaisedAlerts(c)
      /\ "slow_moving" \in RaisedAlerts(c) => "dead_stock" \in RaisedAlerts(c)
      /\ "stockout" \in RaisedAlerts(c) => "low_stock" \in RaisedAlerts(c)
  BY <1>1 DEF RaisedAlerts
<1>. QED BY <1>2, <1>3, <1>4 DEF StockAlertIsSound, d, e

-----------------------------------------------------------------------------
(* Defects *)

\* The statements about defects hold whatever the defect and its severity.
LEMMA DefectHolds == ASSUME NEW c PROVE DefectIsSound(c)
BY DEF DefectIsSound, SuggestAction

-----------------------------------------------------------------------------
(* The life of products *)

Stages == <<"launch", "growth", "mature", "decline">>

\* The statements about the life of products hold for any product.
LEMMA ProductHolds ==
    ASSUME NEW A, NEW c \in [of : {"product"}, status : A, skus : Nat, activeSkus : Nat,
                      inactiveSkus : Nat, days : Nat]
    PROVE  ProductIsSound(c)
<1>. DEFINE stage(p) == IdentifyLifecycleStage(p)
            rank(p) == CHOOSE n \in 1..4 : Stages[n] = stage(p)
            older == [c EXCEPT !.days = @ + 1]
            none == [c EXCEPT !.activeSkus = 0, !.inactiveSkus = 0, !.skus = 0]
            with(n) == [c EXCEPT !.inactiveSkus = n]
<1>1. /\ older.status = c.status /\ older.activeSkus = c.activeSkus /\ older.days = c.days + 1
      /\ none.status = c.status /\ none.activeSkus = 0 /\ none.inactiveSkus = 0 /\ none.skus = 0
      /\ \A n \in Nat : with(n).status = c.status /\ with(n).activeSkus = c.activeSkus /\ with(n).days = c.days
      /\ c.days \in Nat /\ c.activeSkus \in Nat
  OBVIOUS
<1>. HIDE DEF older, none, with
<1>2. ASSUME NEW p, p.days \in Int, p.status = "active", p.activeSkus \in Nat, p.activeSkus > 0
      PROVE  stage(p) = Stages[Step4(p.days, 31, 181, 366)] /\ rank(p) = Step4(p.days, 31, 181, 366)
  <2>. DEFINE k == Step4(p.days, 31, 181, 366)
  <2>1. Reached(p.days, <<31, 181, 366>>) = k
    BY <1>2, Reached3 DEF Step4
  <2>2. stage(p) = Stages[k]
    BY <1>2, <2>1 DEF IdentifyLifecycleStage, Stages
  <2>3. k \in 1..4
    BY <1>2 DEF Step4
  <2>. HIDE DEF k, stage
  <2>4. \A n \in 1..4 : Stages[n] = stage(p) <=> n = k
    BY <2>2, <2>3 DEF Stages
  <2>. QED BY <2>2, <2>3, <2>4 DEF k
<1>3. c.status = "active" /\ c.activeSkus > 0 => rank(c) <= rank(older)
  <2>. HIDE DEF rank, stage
  <2>1. SUFFICES ASSUME c.status = "active", c.activeSkus > 0 PROVE rank(c) <= rank(older)
    OBVIOUS
  <2>2. c.days \in Int /\ older.days \in Int
    BY <1>1
  <2>3. rank(c) = Step4(c.days, 31, 181, 366) /\ rank(older) = Step4(c.days + 1, 31, 181, 366)
    BY <1>1, <1>2, <2>1, <2>2
  <2>. QED BY <1>1, <2>3 DEF Step4
<1>4. c.status = "active" /\ c.activeSkus > 0 => \A n \in Nat : stage(with(n)) = stage(c)
  BY <1>1 DEF IdentifyLifecycleStage
<1>5. stage(c) \in ToSet(Stages) => c.status = "active"
  BY DEF IdentifyLifecycleStage, ToSet, Stages
<1>6. c.status # "draft" => stage(none) = "discontinued"
  BY <1>1 DEF IdentifyLifecycleStage
<1>7. 0..2 \in SUBSET Nat
  OBVIOUS
<1>. QED BY <1>3, <1>4, <1>5, <1>6, <1>7 DEF ProductIsSound, older, none, with, Stages

-----------------------------------------------------------------------------
(* The compliance of listings *)

\* The place of the highest level of risk among the first k.
Top(L, k) == Max({n \in 1..k : RiskLevels[n] \in L} \cup {1})

\* The highest level of a risk among those looked for.
LEMMA TopIs ==
    ASSUME NEW k \in {4, 5}, NEW L
    PROVE  /\ Top(L, k) \in 1..k /\ HighestOf(L, k) = RiskLevels[Top(L, k)]
           /\ \A n \in 1..k : RiskLevels[n] \in L => n <= Top(L, k)
           /\ Top(L, k) # 1 => RiskLevels[Top(L, k)] \in L
<1>. DEFINE T == {n \in 1..k : RiskLevels[n] \in L} \cup {1}
<1>1. T \in SUBSET (1..k) /\ T \in SUBSET (0..k) /\ T # {} /\ k \in Nat
  OBVIOUS
<1>2. Max(T) \in T /\ \A y \in T : y <= Max(T)
  <2>. HIDE DEF T
  <2>. QED BY <1>1, MaxOf
<1>3. Top(L, k) = Max(T)
  BY DEF Top
<1>4. HighestOf(L, k) = RiskLevels[Top(L, k)]
  BY DEF HighestOf, Top
<1>5. \A n \in 1..k : RiskLevels[n] \in L => n <= Max(T)
  <2>1. \A n \in 1..k : RiskLevels[n] \in L => n \in T
    OBVIOUS
  <2>. HIDE DEF T
  <2>. QED BY <1>2, <2>1
<1>6. Max(T) # 1 => RiskLevels[Max(T)] \in L
  <2>. DEFINE m == Max(T)
  <2>1. m \in T
    BY <1>2
  <2>. HIDE DEF m
  <2>2. m # 1 => RiskLevels[m] \in L
    BY <2>1
  <2>. QED BY <2>2 DEF m
<1>. HIDE DEF T
<1>. QED BY <1>1, <1>2, <1>3, <1>4, <1>5, <1>6

\* More levels are no less of a risk.
LEMMA TopMonotone ==
    ASSUME NEW k \in {4, 5}, NEW L, NEW M, L \subseteq M
    PROVE  Top(L, k) <= Top(M, k)
<1>1. /\ Top(L, k) \in 1..k /\ Top(M, k) \in 1..k
      /\ \A n \in 1..k : RiskLevels[n] \in M => n <= Top(M, k)
      /\ Top(L, k) # 1 => RiskLevels[Top(L, k)] \in L
  BY TopIs
<1>. QED BY <1>1

\* The levels of a risk.
LEMMA LevelsAre ==
    /\ RiskLevels[1] = "none" /\ RiskLevels[2] = "low" /\ RiskLevels[3] = "medium"
    /\ RiskLevels[4] = "high" /\ RiskLevels[5] = "critical"
    /\ \A n \in 1..5 : (CHOOSE m \in 1..5 : RiskLevels[m] = RiskLevels[n]) = n
<1>1. /\ RiskLevels[1] = "none" /\ RiskLevels[2] = "low" /\ RiskLevels[3] = "medium"
      /\ RiskLevels[4] = "high" /\ RiskLevels[5] = "critical"
  BY DEF RiskLevels
<1>2. \A n, m \in 1..5 : RiskLevels[m] = RiskLevels[n] => m = n
  <2>1. \A n \in 1..5 : n = 1 \/ n = 2 \/ n = 3 \/ n = 4 \/ n = 5
    OBVIOUS
  <2>. QED BY <1>1, <2>1
<1>3. \A n \in 1..5 : (CHOOSE m \in 1..5 : RiskLevels[m] = RiskLevels[n]) = n
  BY <1>2
<1>. QED BY <1>1, <1>3

\* What a list of words and one of records come to: 1 for no word, 2 for a
\* warning, 3 for one that is prohibited.
Word(found) == IF found = {} THEN 1 ELSE IF "prohibited" \in found THEN 3 ELSE 2

Level(w, t) == IF w = 3 \/ t = 4 THEN 4 ELSE IF w = 2 \/ t = 3 THEN 3 ELSE IF t = 2 THEN 2 ELSE 1

\* The compliance of a listing by its worst word and its highest risk.
LEMMA ListingIs ==
    ASSUME NEW A, NEW found \in Seq(A), NEW levels
    PROVE  LET w == Word(ToSet(found))
               t == Top(ToSet(levels), 4)
           IN  /\ CheckListingCompliance(found, levels) =
                      [compliant |-> w = 1 /\ t \in {1, 2}, risk |-> RiskLevels[Level(w, t)]]
               /\ w \in 1..3 /\ t \in 1..4 /\ Level(w, t) \in 1..5
<1>. DEFINE w == Word(ToSet(found))
            t == Top(ToSet(levels), 4)
            words == ScanSensitiveWords(found)
            ip == CheckIpRisks(levels)
<1>1. t \in 1..4 /\ ip = RiskLevels[t]
  BY TopIs DEF CheckIpRisks
<1>2. found = <<>> <=> ToSet(found) = {}
  <2>1. Len(found) \in Nat /\ DOMAIN found = 1..Len(found)
    OBVIOUS
  <2>2. ASSUME found # <<>> PROVE found[1] \in ToSet(found)
    <3>1. 1 \in DOMAIN found
      BY <2>1, <2>2
    <3>. QED BY <3>1 DEF ToSet
  <2>3. ASSUME found = <<>> PROVE ToSet(found) = {}
    <3>1. DOMAIN found = {}
      BY <2>3
    <3>. QED BY <3>1 DEF ToSet
  <2>. QED BY <2>2, <2>3
<1>3. w \in 1..3 /\ (words = "none" <=> w = 1) /\ (words = "warning" <=> w = 2) /\ (words = "critical" <=> w = 3)
  BY <1>2 DEF ScanSensitiveWords, Word
<1>. HIDE DEF w, t, words, ip
<1>4. (ip = "none" <=> t = 1) /\ (ip = "low" <=> t = 2) /\ (ip = "medium" <=> t = 3) /\ (ip = "high" <=> t = 4)
  <2>1. t = 1 \/ t = 2 \/ t = 3 \/ t = 4
    BY <1>1
  <2>. QED BY <1>1, <2>1, LevelsAre
<1>5. Level(w, t) \in 1..5
  BY DEF Level
<1>. DEFINE risk == IF words = "critical" \/ ip = "high" THEN "high"
                    ELSE IF words = "warning" \/ ip = "medium" THEN "medium"
                    ELSE IF ip = "low" THEN "low" ELSE "none"
<1>6. risk = RiskLevels[Level(w, t)]
  BY <1>3, <1>4, LevelsAre DEF Level
<1>7. (words = "none" /\ ip \in {"none", "low"} /\ risk # "high") = (w = 1 /\ t \in {1, 2})
  BY <1>3, <1>4
<1>8. CheckListingCompliance(found, levels) =
          [compliant |-> words = "none" /\ ip \in {"none", "low"} /\ risk # "high", risk |-> risk]
  BY DEF CheckListingCompliance, words, ip
<1>. HIDE DEF risk
<1>9. CheckListingCompliance(found, levels) = [compliant |-> w = 1 /\ t \in {1, 2}, risk |-> RiskLevels[Level(w, t)]]
  BY <1>6, <1>7, <1>8
<1>. QED BY <1>1, <1>3, <1>5, <1>9 DEF w, t

\* A list turned round has the same elements.
LEMMA ToSetReverse ==
    ASSUME NEW A, NEW s \in Seq(A)
    PROVE  ToSet(Reverse(s)) = ToSet(s) /\ Reverse(s) \in Seq(A)
<1>. DEFINE n == Len(s)
            r == Reverse(s)
<1>1. n \in Nat /\ DOMAIN s = 1..n /\ r = [i \in 1..n |-> s[(n - i) + 1]]
  BY DEF Reverse
<1>2. \A i \in 1..n : (n - i) + 1 \in 1..n /\ (n - ((n - i) + 1)) + 1 = i
  BY <1>1
<1>. HIDE DEF n, r
<1>3. DOMAIN r = 1..n /\ \A i \in 1..n : r[i] = s[(n - i) + 1] /\ r[(n - i) + 1] = s[i]
  BY <1>1, <1>2
<1>4. ToSet(r) \subseteq ToSet(s)
  BY <1>1, <1>2, <1>3 DEF ToSet
<1>5. ToSet(s) \subseteq ToSet(r)
  <2>1. ASSUME NEW x \in ToSet(s) PROVE x \in ToSet(r)
    <3>1. PICK i \in 1..n : x = s[i]
      BY <1>1, <2>1 DEF ToSet
    <3>2. (n - i) + 1 \in DOMAIN r /\ r[(n - i) + 1] = x
      BY <1>2, <1>3, <3>1
    <3>. QED BY <3>2 DEF ToSet
  <2>. QED BY <2>1
<1>6. r \in Seq(A)
  <2>1. \A i \in 1..n : s[i] \in A
    BY <1>1 DEF n
  <2>2. \A i \in 1..n : r[i] \in A
    BY <1>2, <1>3, <2>1
  <2>3. r \in [1..n -> A]
    BY <1>1, <2>2
  <2>. QED BY <1>1, <2>3
<1>. QED BY <1>4, <1>5, <1>6 DEF r

\* The statements about the compliance of a listing hold for any words and
\* records of risks.
LEMMA ComplianceHolds ==
    ASSUME NEW A, NEW B, NEW c, c.found \in Seq(A), c.levels \in Seq(B),
           {"prohibited", "trademark"} \subseteq A, ToSet(RiskLevels) \subseteq B
    PROVE  ComplianceIsSound(c)
<1>. DEFINE check(found, levels) == CheckListingCompliance(found, levels)
            rank(level) == CHOOSE n \in 1..5 : RiskLevels[n] = level
            mine == check(c.found, c.levels)
            known == [i \in DOMAIN c.levels |-> IF c.levels[i] = "critical" THEN "none" ELSE c.levels[i]]
            w == Word(ToSet(c.found))
            t == Top(ToSet(c.levels), 4)
<1>1. /\ mine = [compliant |-> w = 1 /\ t \in {1, 2}, risk |-> RiskLevels[Level(w, t)]]
      /\ w \in 1..3 /\ t \in 1..4 /\ Level(w, t) \in 1..5
  BY ListingIs
<1>2. mine.compliant = (w = 1 /\ t \in {1, 2}) /\ rank(mine.risk) = Level(w, t)
  <2>1. mine.compliant = (w = 1 /\ t \in {1, 2}) /\ mine.risk = RiskLevels[Level(w, t)]
    BY <1>1
  <2>. HIDE DEF mine, w, t
  <2>. QED BY <1>1, <2>1, LevelsAre
<1>3. ASSUME NEW type \in {"prohibited", "trademark"}
      PROVE  LET more == check(Append(c.found, type), c.levels) IN
             ~more.compliant /\ rank(mine.risk) <= rank(more.risk)
  <2>. DEFINE more == check(Append(c.found, type), c.levels)
              v == Word(ToSet(Append(c.found, type)))
  <2>1. /\ more = [compliant |-> v = 1 /\ t \in {1, 2}, risk |-> RiskLevels[Level(v, t)]]
        /\ v \in 1..3 /\ Level(v, t) \in 1..5
    <3>1. Append(c.found, type) \in Seq(A)
      OBVIOUS
    <3>. QED BY <3>1, ListingIs
  <2>2. ToSet(Append(c.found, type)) = ToSet(c.found) \cup {type}
    <3>1. type \in A
      OBVIOUS
    <3>. QED BY <3>1, ToSetAppend
  <2>3. v >= w /\ v # 1
    BY <2>2 DEF Word
  <2>4. more.compliant = (v = 1 /\ t \in {1, 2}) /\ more.risk = RiskLevels[Level(v, t)]
    BY <2>1
  <2>. HIDE DEF more, mine, v, w, t
  <2>5. rank(more.risk) = Level(v, t)
    BY <2>1, <2>4, LevelsAre
  <2>6. Level(w, t) <= Level(v, t)
    BY <1>1, <2>1, <2>3 DEF Level
  <2>. HIDE DEF rank
  <2>7. ~ more.compliant /\ rank(mine.risk) <= rank(more.risk)
    BY <1>2, <2>3, <2>4, <2>5, <2>6
  <2>. QED BY <2>7 DEF more
<1>4. ASSUME NEW level \in ToSet(RiskLevels)
      PROVE  LET more == check(c.found, Append(c.levels, level)) IN
             (more.compliant => mine.compliant) /\ rank(mine.risk) <= rank(more.risk)
  <2>. DEFINE more == check(c.found, Append(c.levels, level))
              u == Top(ToSet(Append(c.levels, level)), 4)
  <2>1. /\ more = [compliant |-> w = 1 /\ u \in {1, 2}, risk |-> RiskLevels[Level(w, u)]]
        /\ u \in 1..4 /\ Level(w, u) \in 1..5
    BY ListingIs
  <2>2. t <= u
    <3>1. level \in B
      OBVIOUS
    <3>2. ToSet(Append(c.levels, level)) = ToSet(c.levels) \cup {level}
      BY <3>1, ToSetAppend
    <3>3. ToSet(c.levels) \subseteq ToSet(Append(c.levels, level))
      BY <3>2
    <3>. QED BY <3>3, TopMonotone
  <2>3. more.compliant = (w = 1 /\ u \in {1, 2}) /\ more.risk = RiskLevels[Level(w, u)]
    BY <2>1
  <2>. HIDE DEF more, mine, u, w, t
  <2>4. rank(more.risk) = Level(w, u)
    BY <2>1, <2>3, LevelsAre
  <2>5. Level(w, t) <= Level(w, u)
    BY <1>1, <2>1, <2>2 DEF Level
  <2>. HIDE DEF rank
  <2>6. ASSUME more.compliant PROVE mine.compliant
    <3>1. w = 1 /\ u \in {1, 2}
      BY <2>3, <2>6
    <3>2. t \in {1, 2}
      BY <1>1, <2>2, <3>1
    <3>. QED BY <1>2, <3>1, <3>2
  <2>7. rank(mine.risk) <= rank(more.risk)
    BY <1>2, <2>4, <2>5
  <2>. QED BY <2>6, <2>7 DEF more
<1>5. check(Reverse(c.found), Reverse(c.levels)) = mine
  <2>1. ToSet(Reverse(c.found)) = ToSet(c.found) /\ ToSet(Reverse(c.levels)) = ToSet(c.levels)
        /\ Reverse(c.found) \in Seq(A)
    BY ToSetReverse
  <2>2. check(Reverse(c.found), Reverse(c.levels)) =
            [compliant |-> Word(ToSet(Reverse(c.found))) = 1 /\ Top(ToSet(Reverse(c.levels)), 4) \in {1, 2},
             risk |-> RiskLevels[Level(Word(ToSet(Reverse(c.found))), Top(ToSet(Reverse(c.levels)), 4))]]
    BY <2>1, ListingIs
  <2>. QED BY <1>1, <2>1, <2>2
<1>6. CheckIpRisks(c.levels) = AssessRisk(known)
  <2>. DEFINE L == ToSet(c.levels)
              M == ToSet(known)
              a == Top(L, 4)
              b == Top(M, 5)
  <2>1. \A n \in 2..4 : RiskLevels[n] \in M <=> RiskLevels[n] \in L
    <3>1. \A n \in 2..4 : RiskLevels[n] # "critical" /\ RiskLevels[n] # "none"
      <4>1. \A n \in 2..4 : n = 2 \/ n = 3 \/ n = 4
        OBVIOUS
      <4>. QED BY <4>1, LevelsAre
    <3>. QED BY <3>1 DEF ToSet
  <2>2. RiskLevels[5] \notin M
    <3>1. "none" # "critical"
      OBVIOUS
    <3>. QED BY <3>1, LevelsAre DEF ToSet
  <2>3. /\ a \in 1..4 /\ (\A n \in 1..4 : RiskLevels[n] \in L => n <= a) /\ (a # 1 => RiskLevels[a] \in L)
        /\ CheckIpRisks(c.levels) = RiskLevels[a]
    BY TopIs DEF CheckIpRisks
  <2>4. /\ b \in 1..5 /\ (\A n \in 1..5 : RiskLevels[n] \in M => n <= b) /\ (b # 1 => RiskLevels[b] \in M)
        /\ AssessRisk(known) = RiskLevels[b]
    BY TopIs DEF AssessRisk
  <2>. HIDE DEF L, M, a, b, known
  <2>5. a <= b
    <3>1. CASE a = 1
      BY <2>4, <3>1
    <3>2. CASE a # 1
      <4>1. a \in 2..4 /\ a \in 1..5
        BY <2>3, <3>2
      <4>. QED BY <2>1, <2>3, <2>4, <3>2, <4>1
    <3>. QED BY <3>1, <3>2
  <2>6. b <= a
    <3>1. CASE b = 1
      BY <2>3, <3>1
    <3>2. CASE b # 1
      <4>1. b # 5
        BY <2>2, <2>4, <3>2
      <4>2. b \in 2..4 /\ b \in 1..4
        BY <2>4, <3>2, <4>1
      <4>. QED BY <2>1, <2>3, <2>4, <3>2, <4>2
    <3>. QED BY <3>1, <3>2
  <2>7. a = b
    BY <2>3, <2>4, <2>5, <2>6
  <2>. QED BY <2>3, <2>4, <2>7
<1>7. mine.compliant => mine.risk \in {"none", "low"}
  <2>1. mine.compliant = (w = 1 /\ t \in {1, 2}) /\ mine.risk = RiskLevels[Level(w, t)]
    BY <1>1
  <2>. HIDE DEF mine, w, t
  <2>2. ASSUME mine.compliant PROVE Level(w, t) \in {1, 2}
    BY <1>1, <2>1, <2>2 DEF Level
  <2>. QED BY <2>1, <2>2, LevelsAre
<1>. HIDE DEF mine, known, w, t
<1>. QED BY <1>3, <1>4, <1>5, <1>6, <1>7 DEF ComplianceIsSound, mine, known

-----------------------------------------------------------------------------
(* The quality of records *)

\* The statements about the quality of records hold whatever is set and wanted.
LEMMA QualityHolds ==
    ASSUME NEW A, {"barcode", "weight", "cost"} \cap A = {},
           NEW c \in [of : {"quality"}, set : SUBSET {"barcode", "weight", "cost"}, wanting : SUBSET A]
    PROVE  QualityIsSound(c)
<1>1. ASSUME NEW part \in QualityIssues(c)
      PROVE  QualityIssues([c EXCEPT !.set = @ \cup {part}, !.wanting = @ \ {part}]) = QualityIssues(c) \ {part}
  <2>. DEFINE d == [c EXCEPT !.set = @ \cup {part}, !.wanting = @ \ {part}]
  <2>1. d.set = c.set \cup {part} /\ d.wanting = c.wanting \ {part}
    OBVIOUS
  <2>. HIDE DEF d
  <2>2. QualityIssues(d) = QualityIssues(c) \ {part}
    BY <2>1 DEF QualityIssues
  <2>. QED BY <2>2 DEF d
<1>2. QualityIssues(c) = {} => c.wanting = {} /\ "barcode" \in c.set
  BY DEF QualityIssues
<1>. QED BY <1>1, <1>2 DEF QualityIsSound

-----------------------------------------------------------------------------
(* Selections *)

\* A score of a selection is one of 0..100 and grows with sales, rating and
\* reviews.
LEMMA SelectionScoreIs ==
    ASSUME NEW p, p.sales \in Int, p.rating \in Int, p.reviews \in Int, p.price \in Int
    PROVE  /\ CalculateSelectionScore(p) \in 0..100
           /\ \A q : /\ q.sales \in Int /\ q.rating \in Int /\ q.reviews \in Int
                     /\ q.sales >= p.sales /\ q.rating >= p.rating /\ q.reviews >= p.reviews
                     /\ q.price = p.price
                     => CalculateSelectionScore(p) <= CalculateSelectionScore(q)
<1>. DEFINE score(x) ==
                10 * (Step4(x.sales, 100, 500, 1000) - 1)
                + <<0, 5, 15, 25>>[Step4(x.rating, 35, 40, 45)]
                + <<0, 5, 10, 20>>[Step4(x.reviews, 20, 100, 500)]
                + (IF x.price \in 10..50 THEN 25 ELSE IF x.price \in 5..100 THEN 15 ELSE Points(5, x.price > 0))
<1>1. ASSUME NEW x, x.sales \in Int, x.rating \in Int, x.reviews \in Int
      PROVE  CalculateSelectionScore(x) = score(x)
  <2>1. /\ Reached(x.sales, <<100, 500, 1000>>) = Step4(x.sales, 100, 500, 1000)
        /\ Reached(x.rating, <<35, 40, 45>>) = Step4(x.rating, 35, 40, 45)
        /\ Reached(x.reviews, <<20, 100, 500>>) = Step4(x.reviews, 20, 100, 500)
    BY <1>1, Reached3 DEF Step4
  <2>. QED BY <2>1 DEF CalculateSelectionScore
<1>2. score(p) \in 0..100
  <2>. DEFINE sold == Step4(p.sales, 100, 500, 1000)
              rated == <<0, 5, 15, 25>>[Step4(p.rating, 35, 40, 45)]
              reviewed == <<0, 5, 10, 20>>[Step4(p.reviews, 20, 100, 500)]
              priced == IF p.price \in 10..50 THEN 25
                        ELSE IF p.price \in 5..100 THEN 15 ELSE Points(5, p.price > 0)
  <2>1. ASSUME NEW n \in Int, NEW a, NEW b, NEW d PROVE Step4(n, a, b, d) \in {1, 2, 3, 4}
    BY DEF Step4
  <2>2. sold \in {1, 2, 3, 4}
    BY <2>1
  <2>3. ASSUME NEW k \in {1, 2, 3, 4} PROVE <<0, 5, 15, 25>>[k] \in {0, 5, 15, 25}
    OBVIOUS
  <2>4. ASSUME NEW k \in {1, 2, 3, 4} PROVE <<0, 5, 10, 20>>[k] \in {0, 5, 10, 20}
    OBVIOUS
  <2>5. Step4(p.rating, 35, 40, 45) \in {1, 2, 3, 4} /\ Step4(p.reviews, 20, 100, 500) \in {1, 2, 3, 4}
    BY <2>1
  <2>6. rated \in {0, 5, 15, 25}
    BY Zenon, <2>3, <2>5
  <2>7. reviewed \in {0, 5, 10, 20}
    BY Zenon, <2>4, <2>5
  <2>8. priced \in {0, 5, 15, 25}
    BY DEF Points
  <2>. HIDE DEF sold, rated, reviewed, priced
  <2>9. 10 * (sold - 1) + rated + reviewed + priced \in 0..100
    BY <2>2, <2>6, <2>7, <2>8
  <2>. QED BY Zenon, <2>9 DEF sold, rated, reviewed, priced
<1>3. ASSUME NEW q, q.sales \in Int, q.rating \in Int, q.reviews \in Int,
             q.sales >= p.sales, q.rating >= p.rating, q.reviews >= p.reviews, q.price = p.price
      PROVE  score(p) <= score(q)
  BY <1>3 DEF Points, Step4
<1>. HIDE DEF score
<1>. QED BY <1>1, <1>2, <1>3

\* The statements about selections hold for any product.
LEMMA SelectionHolds ==
    ASSUME NEW c \in [of : {"selection"}, sales : Nat, rating : Nat, reviews : Nat, price : Int]
    PROVE  SelectionIsSound(c)
<1>. DEFINE score(p) == CalculateSelectionScore(p)
            rank(v) == CASE v = "approve" -> 3 [] v = "manual" -> 2 [] v = "reject" -> 1
            verdict(s, risk, source) == ShouldAutoApprove(s, risk, source)
            better == {[c EXCEPT !.sales = @ + 500], [c EXCEPT !.rating = @ + 5], [c EXCEPT !.reviews = @ + 100]}
<1>1. score(c) \in 0..100
  BY SelectionScoreIs
<1>2. ASSUME NEW p \in better PROVE score(p) \in 0..100 /\ score(c) <= score(p)
  <2>1. /\ p.sales \in Int /\ p.rating \in Int /\ p.reviews \in Int /\ p.price \in Int
        /\ p.sales >= c.sales /\ p.rating >= c.rating /\ p.reviews >= c.reviews /\ p.price = c.price
    BY <1>2
  <2>2. c.sales \in Int /\ c.rating \in Int /\ c.reviews \in Int /\ c.price \in Int
    OBVIOUS
  <2>. QED BY <2>1, <2>2, SelectionScoreIs
<1>. HIDE DEF score, better
<1>3. ASSUME NEW a \in 0..100, NEW b \in 0..100, a <= b, NEW risk, NEW source
      PROVE  rank(verdict(a, risk, source)) <= rank(verdict(b, risk, source))
  BY <1>3 DEF ShouldAutoApprove
<1>4. \A a \in 0..100 : \A risk : rank(verdict(a, risk, "manual")) <= rank(verdict(a, risk, "pms_ai"))
  BY DEF ShouldAutoApprove
<1>5. ASSUME NEW a \in 0..100, NEW n \in 1..5, NEW m \in 1..5, n <= m
      PROVE  rank(verdict(a, RiskLevels[m], "manual")) <= rank(verdict(a, RiskLevels[n], "manual"))
  BY <1>5 DEF ShouldAutoApprove, RiskLevels
<1>. HIDE DEF rank, verdict
<1>6. \A p \in better, risk \in ToSet(RiskLevels), source \in {"pms_ai", "manual"} :
          rank(verdict(score(c), risk, source)) <= rank(verdict(score(p), risk, source))
  BY <1>1, <1>2, <1>3
<1>7. \A risk \in ToSet(RiskLevels) :
          /\ rank(verdict(score(c), risk, "manual")) <= rank(verdict(score(c), risk, "pms_ai"))
          /\ \A n, m \in 1..5 : n <= m =>
                 rank(verdict(score(c), RiskLevels[m], "manual")) <= rank(verdict(score(c), RiskLevels[n], "manual"))
  BY <1>1, <1>4, <1>5
<1>. QED BY <1>1, <1>6, <1>7 DEF SelectionIsSound, rank, verdict, score, better

-----------------------------------------------------------------------------
(* Performance *)

\* The number of a grade is the step its score reaches.
LEMMA GradeIs ==
    ASSUME NEW x \in Int
    PROVE  (CHOOSE n \in 1..4 : <<"D", "C", "B", "A">>[n] = Grade(x)) = Step4(x, 40, 60, 80)
<1>. DEFINE k == Step4(x, 40, 60, 80)
<1>1. k \in 1..4
  BY DEF Step4
<1>2. Grade(x) = <<"D", "C", "B", "A">>[k]
  BY Reached3 DEF Grade, Step4
<1>. HIDE DEF k
<1>3. \A n \in 1..4 : <<"D", "C", "B", "A">>[n] = Grade(x) <=> n = k
  BY <1>1, <1>2
<1>. QED BY <1>1, <1>3 DEF k

\* The statements about performance hold for any figures.
LEMMA PerformanceHolds ==
    ASSUME NEW c \in [of : {"performance"}, skus : Nat, orderRate : Nat, profit : Int]
    PROVE  PerformanceIsSound(c)
<1>. DEFINE score(x) == 10 * (Step4(x.skus, 10, 20, 50) - 1)
                        + <<0, 10, 25, 40>>[Step4(x.orderRate, 10, 30, 50)]
                        + 10 * (Step4(x.profit, 100000, 500000, 1000000) - 1)
            grade(d) == CHOOSE n \in 1..4 : <<"D", "C", "B", "A">>[n] = Grade(CalculatePerformanceScore(d))
            better == {[c EXCEPT !.skus = @ + 10], [c EXCEPT !.orderRate = @ + 20],
                       [c EXCEPT !.profit = @ + 400000]}
            least == Step4(score(c), 40, 60, 80)
<1>0. c.skus \in Int /\ c.orderRate \in Int /\ c.profit \in Int
  OBVIOUS
<1>1. ASSUME NEW x, x.skus \in Int, x.orderRate \in Int, x.profit \in Int
      PROVE  CalculatePerformanceScore(x) = score(x) /\ score(x) \in Int /\ grade(x) = Step4(score(x), 40, 60, 80)
  <2>1. /\ Reached(x.skus, <<10, 20, 50>>) = Step4(x.skus, 10, 20, 50)
        /\ Reached(x.orderRate, <<10, 30, 50>>) = Step4(x.orderRate, 10, 30, 50)
        /\ Reached(x.profit, <<100000, 500000, 1000000>>) = Step4(x.profit, 100000, 500000, 1000000)
    BY <1>1, Reached3 DEF Step4
  <2>2. CalculatePerformanceScore(x) = score(x)
    BY <2>1 DEF CalculatePerformanceScore
  <2>3. score(x) \in Int
    BY <1>1 DEF Step4
  <2>. HIDE DEF score
  <2>. QED BY <2>2, <2>3, GradeIs
<1>2. ASSUME NEW d \in better PROVE grade(c) <= grade(d)
  <2>1. /\ d.skus \in Int /\ d.orderRate \in Int /\ d.profit \in Int
        /\ d.skus >= c.skus /\ d.orderRate >= c.orderRate /\ d.profit >= c.profit
    BY <1>0, <1>2
  <2>2. score(c) <= score(d)
    BY <1>0, <2>1 DEF Step4
  <2>. HIDE DEF score, grade
  <2>3. grade(c) = Step4(score(c), 40, 60, 80) /\ grade(d) = Step4(score(d), 40, 60, 80)
        /\ score(c) \in Int /\ score(d) \in Int
    BY <1>0, <1>1, <2>1
  <2>. QED BY <2>2, <2>3 DEF Step4
<1>3. grade(c) = 4 => c.orderRate >= 30 /\ c.skus >= 10 /\ c.profit >= 100000
  <2>1. score(c) >= 80 => c.orderRate >= 30 /\ c.skus >= 10 /\ c.profit >= 100000
    BY <1>0 DEF Step4
  <2>. HIDE DEF score, grade
  <2>2. grade(c) = Step4(score(c), 40, 60, 80) /\ score(c) \in Int
    BY <1>0, <1>1
  <2>. QED BY <2>1, <2>2 DEF Step4
<1>. HIDE DEF grade
<1>. QED BY <1>2, <1>3 DEF PerformanceIsSound, grade

-----------------------------------------------------------------------------
(* Duplicates *)

\* Which of two candidates is the duplicate.
LEMMA DuplicateOfTwo ==
    ASSUME NEW x, NEW y, NEW n
    PROVE  DetectDuplicate(<<x, y>>, n) =
               IF SameProduct(x, n) # "" THEN 1 ELSE IF SameProduct(y, n) # "" THEN 2 ELSE 0
<1>. DEFINE p == SameProduct(x, n) # ""
            q == SameProduct(y, n) # ""
            s == <<x, y>>
            T == {i \in DOMAIN s : SameProduct(s[i], n) # ""} \cup {Len(s) + 1}
<1>1. DOMAIN s = {1, 2} /\ Len(s) + 1 = 3
  OBVIOUS
<1>2. (SameProduct(s[1], n) # "" <=> p) /\ (SameProduct(s[2], n) # "" <=> q)
  OBVIOUS
<1>. HIDE DEF s, p, q
<1>3. T = (IF p THEN {1} ELSE {}) \cup (IF q THEN {2} ELSE {}) \cup {3}
  <2>1. \A i \in {1, 2} : SameProduct(s[i], n) # "" <=> (i = 1 /\ p) \/ (i = 2 /\ q)
    BY <1>2
  <2>. QED BY <1>1, <2>1
<1>. HIDE DEF T
<1>4. T \in SUBSET Nat /\ T # {}
  BY <1>3
<1>5. Min(T) \in T /\ \A y0 \in T : Min(T) <= y0
  BY <1>4, MinOf
<1>6. Min(T) = IF p THEN 1 ELSE IF q THEN 2 ELSE 3
  <2>. DEFINE m == Min(T)
  <2>. HIDE DEF m
  <2>1. m \in T /\ \A y0 \in T : m <= y0
    BY <1>5 DEF m
  <2>2. CASE p
    BY <1>3, <2>1, <2>2 DEF m
  <2>3. CASE ~p /\ q
    BY <1>3, <2>1, <2>3 DEF m
  <2>4. CASE ~p /\ ~q
    BY <1>3, <2>1, <2>4 DEF m
  <2>. QED BY <2>2, <2>3, <2>4 DEF m
<1>7. DetectDuplicate(s, n) = Min(T) % 3
  BY <1>1 DEF DetectDuplicate, T
<1>8. Min(T) % 3 = IF p THEN 1 ELSE IF q THEN 2 ELSE 0
  <2>1. 1 % 3 = 1 /\ 2 % 3 = 2 /\ 3 % 3 = 0
    OBVIOUS
  <2>. QED BY <1>6, <2>1
<1>. QED BY <1>7, <1>8 DEF s, p, q

\* The number of a candidate is not none.
LEMMA NotNone == ASSUME NEW x, x = 1 \/ x = 2 PROVE x # 0
OBVIOUS

\* The statements about duplicates hold for any two candidates.
LEMMA DuplicateHolds == ASSUME NEW c PROVE DuplicateIsSound(c)
<1>. DEFINE a == c.first
            b == c.second
            none == [url |-> "", id |-> "", platform |-> "", title |-> ""]
            same(x, y) == SameProduct(x, y) # ""
<1>1. ASSUME NEW x, NEW y PROVE same(x, y) <=> same(y, x)
  BY DEF SameProduct
<1>2. a.url # "" => same(a, a)
  BY DEF SameProduct
<1>3. ASSUME NEW x PROVE ~same(x, none)
  BY DEF SameProduct
<1>4. ASSUME NEW x, NEW y, NEW n
      PROVE  DetectDuplicate(<<x, y>>, n) = IF same(x, n) THEN 1 ELSE IF same(y, n) THEN 2 ELSE 0
  BY DuplicateOfTwo
<1>. HIDE DEF same, a, b, none
<1>5. (same(a, b)) = (same(b, a))
  <2>1. same(a, b) \in BOOLEAN /\ same(b, a) \in BOOLEAN
    BY DEF same
  <2>. QED BY <1>1, <2>1
<1>6. a.url # "" => DetectDuplicate(<<b, a>>, a) # 0
  <2>. SUFFICES ASSUME a.url # "" PROVE DetectDuplicate(<<b, a>>, a) # 0
    OBVIOUS
  <2>1. same(a, a)
    BY <1>2
  <2>. DEFINE found == DetectDuplicate(<<b, a>>, a)
  <2>2. found = 1 \/ found = 2
    BY <1>4, <2>1
  <2>. HIDE DEF found
  <2>3. found # 0
    BY ONLY <2>2, NotNone
  <2>. QED BY <2>3 DEF found
<1>7. (DetectDuplicate(<<a, b>>, b) = 0) = (DetectDuplicate(<<b, a>>, b) = 0)
  <2>1. DetectDuplicate(<<a, b>>, b) = 0 <=> ~same(a, b) /\ ~same(b, b)
    BY <1>4
  <2>2. DetectDuplicate(<<b, a>>, b) = 0 <=> ~same(a, b) /\ ~same(b, b)
    BY <1>4
  <2>. QED BY <2>1, <2>2
<1>8. DetectDuplicate(<<a, b>>, none) = 0
  BY <1>3, <1>4
<1>. QED BY <1>5, <1>6, <1>7, <1>8 DEF DuplicateIsSound, same, a, b, none

-----------------------------------------------------------------------------
(* Inquiries *)

\* Finitely many numbers lie under a bound.
LEMMA BoundOf ==
    ASSUME NEW n \in Nat, NEW f \in [1..n -> Nat]
    PROVE  \E b \in Nat : \A i \in 1..n : f[i] <= b
<1>. DEFINE Under(k) == \E b \in Nat : \A i \in 1..k : f[i] <= b
            Good == {k \in 0..n : Under(k)}
<1>1. 0 \in Good
  <2>1. \A i \in 1..0 : f[i] <= 0
    OBVIOUS
  <2>2. Under(0) /\ 0 \in 0..n
    BY <2>1
  <2>. HIDE DEF Under
  <2>. QED BY <2>2
<1>2. ASSUME NEW k \in 0..n - 1, k \in Good PROVE k + 1 \in Good
  <2>1. PICK b \in Nat : \A i \in 1..k : f[i] <= b
    BY <1>2
  <2>2. f[k + 1] \in Nat /\ b + f[k + 1] \in Nat
    OBVIOUS
  <2>3. \A i \in 1..k + 1 : f[i] <= b + f[k + 1]
    <3>. TAKE i \in 1..k + 1
    <3>1. CASE i = k + 1
      BY <3>1, <2>2
    <3>2. CASE i # k + 1
      <4>1. i \in 1..k /\ f[i] \in Nat
        BY <3>2
      <4>2. f[i] <= b
        BY <2>1, <4>1
      <4>. QED BY <2>2, <4>1, <4>2, SMT
    <3>. QED BY <3>1, <3>2
  <2>4. Under(k + 1) /\ k + 1 \in 0..n
    BY <2>2, <2>3
  <2>. HIDE DEF Under
  <2>. QED BY <2>4
<1>3. Good = 0..n
  <2>1. Good \in SUBSET (0..n)
    OBVIOUS
  <2>. HIDE DEF Good
  <2>. QED BY <1>1, <1>2, <2>1, UpTo
<1>. HIDE DEF Under
<1>4. Under(n)
  BY <1>3
<1>. QED BY <1>4 DEF Under

\* The least and the greatest of a list of numbers.
LEMMA LeastAndGreatest ==
    ASSUME NEW n \in Nat \ {0}, NEW f \in [1..n -> Nat], NEW T, T = {f[i] : i \in 1..n}
    PROVE  /\ Min(T) \in Nat /\ Max(T) \in Nat
           /\ \A i \in 1..n : Min(T) <= f[i] /\ f[i] <= Max(T)
<1>1. PICK b \in Nat : \A i \in 1..n : f[i] <= b
  BY BoundOf
<1>2. T \in SUBSET (0..b) /\ T \in SUBSET Nat /\ T # {}
  <2>1. 1 \in 1..n
    OBVIOUS
  <2>. QED BY <1>1, <2>1
<1>3. Min(T) \in T /\ \A y \in T : Min(T) <= y
  BY <1>2, MinOf
<1>4. Max(T) \in T /\ \A y \in T : y <= Max(T)
  BY <1>2, MaxOf
<1>. QED BY <1>2, <1>3, <1>4

\* What a total is rounded from: the price and the time above the least, in
\* shares of their ranges, and the rating.
Weighed(p, l, x, y, z) == 500 * l * (p - x) + 300 * p * (l - y) + 2 * p * l * z

Scale(p, l) == p * l

\* Less of a price and of a time, and more of a rating, weigh no less.
LEMMA WeighedIs ==
    ASSUME NEW p \in Nat \ {0}, NEW l \in Nat \ {0}, NEW x \in 0..p, NEW y \in 0..l, NEW z \in 0..100
    PROVE  /\ Scale(p, l) \in Nat \ {0}
           /\ Weighed(p, l, x, y, z) \in Int
           /\ Scale(p, l) * 0 <= Weighed(p, l, x, y, z)
           /\ Weighed(p, l, x, y, z) <= Scale(p, l) * (10 * 100)
           /\ \A u \in 0..p, v \in 0..l, w \in 0..100 : x <= u /\ y <= v /\ z >= w =>
                  Weighed(p, l, u, v, w) <= Weighed(p, l, x, y, z)
<1>. DEFINE d == p * l
<1>1. d \in Nat \ {0}
  BY SMT
<1>2. \A a \in 0..p : /\ l * (p - a) \in Nat /\ l * (p - a) <= d /\ 500 * l * (p - a) = 500 * (l * (p - a))
  <2>. TAKE a \in 0..p
  <2>1. l * (p - a) \in Nat /\ 500 * l * (p - a) = 500 * (l * (p - a))
    BY SMT
  <2>2. l * (p - a) <= l * p /\ l * p = d
    <3>1. p - a \in Int /\ p \in Int /\ p - a <= p
      OBVIOUS
    <3>2. l * (p - a) <= l * p
      BY <3>1, TimesMonotone
    <3>3. l * p = d
      BY SMT
    <3>. QED BY <3>2, <3>3
  <2>. HIDE DEF d
  <2>. QED BY <2>1, <2>2
<1>3. \A a \in 0..l : /\ p * (l - a) \in Nat /\ p * (l - a) <= d /\ 300 * p * (l - a) = 300 * (p * (l - a))
  <2>. TAKE a \in 0..l
  <2>1. p * (l - a) \in Nat /\ 300 * p * (l - a) = 300 * (p * (l - a))
    BY SMT
  <2>2. p * (l - a) <= p * l
    <3>1. l - a \in Int /\ l \in Int /\ l - a <= l
      OBVIOUS
    <3>. QED BY <3>1, TimesMonotone
  <2>. QED BY <2>1, <2>2
<1>4. \A a \in 0..100 : /\ d * a \in Nat /\ d * a <= d * 100 /\ 2 * p * l * a = 2 * (d * a)
  <2>. TAKE a \in 0..100
  <2>1. 2 * p * l * a = 2 * (d * a)
    BY SMT
  <2>2. d * a \in Nat /\ d * a <= d * 100
    <3>1. a \in Int /\ 100 \in Int /\ a <= 100 /\ d \in Nat
      BY <1>1
    <3>. HIDE DEF d
    <3>2. d * a <= d * 100
      BY <3>1, TimesMonotone
    <3>3. d * a \in Nat
      BY <3>1, SMT
    <3>. QED BY <3>2, <3>3
  <2>. QED BY <2>1, <2>2
<1>5. 500 * l * (p - x) + 300 * p * (l - y) + 2 * p * l * z = 500 * (l * (p - x)) + 300 * (p * (l - y)) + 2 * (d * z)
  BY <1>2, <1>3, <1>4
<1>6. /\ 500 * (l * (p - x)) + 300 * (p * (l - y)) + 2 * (d * z) \in Int
      /\ d * 0 <= 500 * (l * (p - x)) + 300 * (p * (l - y)) + 2 * (d * z)
      /\ 500 * (l * (p - x)) + 300 * (p * (l - y)) + 2 * (d * z) <= d * 1000
  <2>. DEFINE a == l * (p - x)
              b == p * (l - y)
              e == d * z
  <2>1. a \in Nat /\ a <= d /\ b \in Nat /\ b <= d /\ e \in Nat /\ e <= d * 100
    BY <1>2, <1>3, <1>4
  <2>. HIDE DEF a, b, e, d
  <2>2. 500 * a + 300 * b + 2 * e \in Int /\ d * 0 <= 500 * a + 300 * b + 2 * e /\ 500 * a + 300 * b + 2 * e <= d * 1000
    BY <1>1, <2>1, SMT
  <2>. QED BY <2>2 DEF a, b, e
<1>7. ASSUME NEW u \in 0..p, NEW v \in 0..l, NEW w \in 0..100, x <= u, y <= v, z >= w
      PROVE  500 * l * (p - u) + 300 * p * (l - v) + 2 * p * l * w
                 <= 500 * l * (p - x) + 300 * p * (l - y) + 2 * p * l * z
  <2>1. l * (p - u) <= l * (p - x)
    <3>1. p - u \in Int /\ p - x \in Int /\ p - u <= p - x
      BY <1>7
    <3>. QED BY <3>1, TimesMonotone
  <2>2. p * (l - v) <= p * (l - y)
    <3>1. l - v \in Int /\ l - y \in Int /\ l - v <= l - y
      BY <1>7
    <3>. QED BY <3>1, TimesMonotone
  <2>3. d * w <= d * z
    <3>1. w \in Int /\ z \in Int /\ w <= z /\ d \in Nat
      BY <1>1, <1>7
    <3>. HIDE DEF d
    <3>. QED BY <3>1, TimesMonotone
  <2>. DEFINE a == l * (p - x)
              b == p * (l - y)
              e == d * z
              f == l * (p - u)
              g == p * (l - v)
              h == d * w
  <2>4. a \in Nat /\ b \in Nat /\ e \in Nat /\ f \in Nat /\ g \in Nat /\ h \in Nat /\ f <= a /\ g <= b /\ h <= e
    BY <1>2, <1>3, <1>4, <2>1, <2>2, <2>3
  <2>5. 500 * l * (p - u) + 300 * p * (l - v) + 2 * p * l * w = 500 * f + 300 * g + 2 * h
    BY <1>2, <1>3, <1>4
  <2>6. 500 * l * (p - x) + 300 * p * (l - y) + 2 * p * l * z = 500 * a + 300 * b + 2 * e
    BY <1>5
  <2>. HIDE DEF a, b, e, f, g, h
  <2>7. 500 * f + 300 * g + 2 * h <= 500 * a + 300 * b + 2 * e
    BY <2>4, SMT
  <2>. QED BY <2>5, <2>6, <2>7
<1>8. Weighed(p, l, x, y, z) = 500 * (l * (p - x)) + 300 * (p * (l - y)) + 2 * (d * z)
  BY <1>5 DEF Weighed
<1>9. Scale(p, l) = d
  BY DEF Scale
<1>10. ASSUME NEW u \in 0..p, NEW v \in 0..l, NEW w \in 0..100, x <= u, y <= v, z >= w
       PROVE  Weighed(p, l, u, v, w) <= Weighed(p, l, x, y, z)
  BY <1>7, <1>10 DEF Weighed
<1>. HIDE DEF d
<1>11. Weighed(p, l, x, y, z) \in Int /\ d * 0 <= Weighed(p, l, x, y, z) /\ Weighed(p, l, x, y, z) <= d * (10 * 100)
  <2>1. d * 1000 = d * (10 * 100)
    BY SMT
  <2>. QED BY ONLY <1>6, <1>8, <2>1
<1>. QED BY <1>1, <1>9, <1>10, <1>11

QuoteSet == [price : Nat, lead : Nat, rating : 0..100]

\* The same of the totals, which are rounded.
LEMMA RoundedTotals ==
    ASSUME NEW p \in Nat \ {0}, NEW l \in Nat \ {0},
           NEW x \in 0..p, NEW y \in 0..l, NEW z \in 0..100, NEW u \in 0..p, NEW v \in 0..l, NEW w \in 0..100
    PROVE  LET total(a, b, e) == Rounded(Weighed(p, l, a, b, e), Scale(p, l))
           IN  /\ total(x, y, z) \in 0..1000
               /\ x <= u /\ y <= v /\ z >= w => total(x, y, z) >= total(u, v, w)
<1>. DEFINE d == Scale(p, l)
            s == Weighed(p, l, x, y, z)
            t == Weighed(p, l, u, v, w)
<1>1. d \in Nat \ {0} /\ s \in Int /\ d * 0 <= s /\ s <= d * (10 * 100) /\ (x <= u /\ y <= v /\ z >= w => t <= s)
  <2>1. Scale(p, l) \in Nat \ {0} /\ Weighed(p, l, x, y, z) \in Int
        /\ Scale(p, l) * 0 <= Weighed(p, l, x, y, z) /\ Weighed(p, l, x, y, z) <= Scale(p, l) * (10 * 100)
    BY WeighedIs
  <2>2. x <= u /\ y <= v /\ z >= w => Weighed(p, l, u, v, w) <= Weighed(p, l, x, y, z)
    BY WeighedIs
  <2>. QED BY <2>1, <2>2
<1>2. t \in Int
  <2>1. Weighed(p, l, u, v, w) \in Int
    BY WeighedIs
  <2>. QED BY <2>1
<1>. HIDE DEF d, s, t
<1>3. 0 \in Int /\ 10 * 100 \in Int
  OBVIOUS
<1>4. 0 <= Rounded(s, d) /\ Rounded(s, d) <= 10 * 100
  BY ONLY <1>1, <1>3, RoundedBounds
<1>5. Rounded(s, d) \in Int /\ Rounded(t, d) \in Int
  BY ONLY <1>1, <1>2, Rounds
<1>6. t <= s => Rounded(t, d) <= Rounded(s, d)
  BY ONLY <1>1, <1>2, RoundedMonotone
<1>7. Rounded(s, d) \in 0..1000
  <2>1. 10 * 100 = 1000
    BY SMT
  <2>. QED BY ONLY <1>4, <1>5, <2>1, SMT
<1>8. x <= u /\ y <= v /\ z >= w => Rounded(s, d) >= Rounded(t, d)
  BY <1>1, <1>5, <1>6
<1>. QED BY <1>7, <1>8 DEF s, t, d

\* How the totals of two quotes of a list compare.
LEMMA TotalScores ==
    ASSUME NEW quotes \in Seq(QuoteSet), NEW i \in 1..Len(quotes), NEW j \in 1..Len(quotes)
    PROVE  LET q == quotes[i]
               r == quotes[j]
           IN  /\ TotalScore(q, quotes) \in 0..1000
               /\ q.price <= r.price /\ q.lead <= r.lead /\ q.rating >= r.rating =>
                      TotalScore(q, quotes) >= TotalScore(r, quotes)
<1>. DEFINE prices == {quotes[k].price : k \in DOMAIN quotes}
            leads == {quotes[k].lead : k \in DOMAIN quotes}
            p == Max({Max(prices) - Min(prices), 1})
            l == Max({Max(leads) - Min(leads), 1})
            n == Len(quotes)
            sum(a, b, e) == Weighed(p, l, a, b, e)
            x(k) == quotes[k].price - Min(prices)
            y(k) == quotes[k].lead - Min(leads)
<1>1. n \in Nat \ {0} /\ DOMAIN quotes = 1..n
  OBVIOUS
<1>2. \A k \in 1..n : quotes[k].price \in Nat /\ quotes[k].lead \in Nat /\ quotes[k].rating \in 0..100
  <2>1. \A k \in 1..n : quotes[k] \in QuoteSet
    OBVIOUS
  <2>. QED BY <2>1 DEF QuoteSet
<1>3. Min(prices) \in Nat /\ Max(prices) \in Nat /\ \A k \in 1..n : Min(prices) <= quotes[k].price /\ quotes[k].price <= Max(prices)
  <2>. DEFINE f == [k \in 1..n |-> quotes[k].price]
  <2>1. f \in [1..n -> Nat] /\ prices = {f[k] : k \in 1..n} /\ \A k \in 1..n : f[k] = quotes[k].price
    BY <1>1, <1>2
  <2>. HIDE DEF f, prices, n
  <2>2. Min(prices) \in Nat /\ Max(prices) \in Nat /\ \A k \in 1..n : Min(prices) <= f[k] /\ f[k] <= Max(prices)
    BY <1>1, <2>1, LeastAndGreatest
  <2>. QED BY <2>1, <2>2
<1>4. Min(leads) \in Nat /\ Max(leads) \in Nat /\ \A k \in 1..n : Min(leads) <= quotes[k].lead /\ quotes[k].lead <= Max(leads)
  <2>. DEFINE f == [k \in 1..n |-> quotes[k].lead]
  <2>1. f \in [1..n -> Nat] /\ leads = {f[k] : k \in 1..n} /\ \A k \in 1..n : f[k] = quotes[k].lead
    BY <1>1, <1>2
  <2>. HIDE DEF f, leads, n
  <2>2. Min(leads) \in Nat /\ Max(leads) \in Nat /\ \A k \in 1..n : Min(leads) <= f[k] /\ f[k] <= Max(leads)
    BY <1>1, <2>1, LeastAndGreatest
  <2>. QED BY <2>1, <2>2
<1>5. p \in Nat \ {0} /\ Max(prices) - Min(prices) <= p
  <2>. DEFINE a == Max(prices) - Min(prices)
  <2>1. a \in Int
    BY <1>3, SMT
  <2>. HIDE DEF a
  <2>2. Max({a, 1}) = IF a >= 1 THEN a ELSE 1
    BY <2>1, MaxOfTwo
  <2>3. Max({a, 1}) \in Nat \ {0} /\ a <= Max({a, 1})
    BY <2>1, <2>2, SMT
  <2>. QED BY <2>3 DEF a
<1>6. l \in Nat \ {0} /\ Max(leads) - Min(leads) <= l
  <2>. DEFINE a == Max(leads) - Min(leads)
  <2>1. a \in Int
    BY <1>4, SMT
  <2>. HIDE DEF a
  <2>2. Max({a, 1}) = IF a >= 1 THEN a ELSE 1
    BY <2>1, MaxOfTwo
  <2>3. Max({a, 1}) \in Nat \ {0} /\ a <= Max({a, 1})
    BY <2>1, <2>2, SMT
  <2>. QED BY <2>3 DEF a
<1>7. \A k \in 1..n : TotalScore(quotes[k], quotes) = Rounded(sum(x(k), y(k), quotes[k].rating), Scale(p, l))
  BY DEF TotalScore, Weighed, Scale
<1>. HIDE DEF p, l, prices, leads, n
<1>8. \A k \in 1..n : x(k) \in 0..p /\ y(k) \in 0..l
  <2>. TAKE k \in 1..n
  <2>1. PICK a, b, m, o, g, h :
            /\ a = quotes[k].price /\ b = quotes[k].lead
            /\ m = Min(prices) /\ o = Min(leads) /\ g = Max(prices) /\ h = Max(leads)
    OBVIOUS
  <2>2. /\ a \in Nat /\ b \in Nat /\ m \in Nat /\ o \in Nat /\ g \in Nat /\ h \in Nat
        /\ m <= a /\ a <= g /\ o <= b /\ b <= h /\ g - m <= p /\ h - o <= l
    BY <1>2, <1>3, <1>4, <1>5, <1>6, <2>1
  <2>3. p \in Nat /\ l \in Nat
    BY <1>5, <1>6
  <2>4. a - m \in 0..p /\ b - o \in 0..l
    BY ONLY <2>2, <2>3, SMT
  <2>. QED BY <2>1, <2>4
<1>. DEFINE q == quotes[i]
            r == quotes[j]
<1>9. i \in 1..n /\ j \in 1..n
  BY DEF n
<1>10. PICK a, b, z, u, v, w : /\ a = x(i) /\ b = y(i) /\ z = q.rating
                              /\ u = x(j) /\ v = y(j) /\ w = r.rating
  OBVIOUS
<1>11. a \in 0..p /\ b \in 0..l /\ z \in 0..100 /\ u \in 0..p /\ v \in 0..l /\ w \in 0..100
  BY <1>2, <1>8, <1>9, <1>10
<1>12. TotalScore(q, quotes) = Rounded(sum(a, b, z), Scale(p, l)) /\ TotalScore(r, quotes) = Rounded(sum(u, v, w), Scale(p, l))
  <2>. HIDE DEF sum, x, y
  <2>. QED BY <1>7, <1>9, <1>10
<1>13. /\ Rounded(sum(a, b, z), Scale(p, l)) \in 0..1000
       /\ a <= u /\ b <= v /\ z >= w => Rounded(sum(a, b, z), Scale(p, l)) >= Rounded(sum(u, v, w), Scale(p, l))
  <2>1. p \in Nat \ {0} /\ l \in Nat \ {0}
    BY <1>5, <1>6
  <2>. QED BY ONLY <1>11, <2>1, RoundedTotals, ZenonT(90) DEF sum
<1>14. q.price <= r.price /\ q.lead <= r.lead /\ q.rating >= r.rating => a <= u /\ b <= v /\ z >= w
  <2>1. PICK e, f, g, h, m, o : /\ e = q.price /\ f = r.price /\ g = q.lead /\ h = r.lead
                                /\ m = Min(prices) /\ o = Min(leads)
    OBVIOUS
  <2>2. e \in Nat /\ f \in Nat /\ g \in Nat /\ h \in Nat /\ m \in Nat /\ o \in Nat
    BY <1>2, <1>3, <1>4, <1>9, <2>1
  <2>3. (e <= f => e - m <= f - m) /\ (g <= h => g - o <= h - o)
    BY ONLY <2>2, SMT
  <2>4. a = e - m /\ u = f - m /\ b = g - o /\ v = h - o
    BY <1>10, <2>1
  <2>. HIDE DEF q, r
  <2>. QED BY <1>10, <2>1, <2>3, <2>4
<1>. HIDE DEF sum
<1>15. TotalScore(q, quotes) \in 0..1000
  BY <1>12, <1>13
<1>16. q.price <= r.price /\ q.lead <= r.lead /\ q.rating >= r.rating => TotalScore(q, quotes) >= TotalScore(r, quotes)
  <2>. HIDE DEF q, r
  <2>. QED BY <1>12, <1>13, <1>14
<1>. QED BY <1>15, <1>16

\* The score of the domain service falls with the time and rises with the
\* rating, and a price is a price.
LEMMA EvaluationScores ==
    ASSUME NEW q \in QuoteSet, NEW r \in QuoteSet, q.lead <= r.lead, q.rating >= r.rating, q.price > 0
    PROVE  EvaluationScore(q) >= EvaluationScore(r)
<1>. DEFINE lead(n) == IF n >= 31 THEN 4 ELSE IF n >= 15 THEN 3 ELSE IF n >= 8 THEN 2 ELSE 1
            rate(n) == IF n >= 80 THEN 4 ELSE IF n >= 60 THEN 3 ELSE IF n >= 40 THEN 2 ELSE 1
            mark(k) == <<30, 20, 10, 0>>[k]
<1>1. \A s \in QuoteSet : EvaluationScore(s) = Points(40, s.price > 0) + mark(lead(s.lead)) + 10 * (rate(s.rating) - 1)
  <2>. TAKE s \in QuoteSet
  <2>1. s.lead \in Int /\ s.rating \in Int
    BY DEF QuoteSet
  <2>2. Reached(s.lead, <<8, 15, 31>>) = lead(s.lead)
    BY <2>1, Reached3
  <2>3. Reached(s.rating, <<40, 60, 80>>) = rate(s.rating)
    BY <2>1, Reached3
  <2>. HIDE DEF lead, rate
  <2>. QED BY <2>2, <2>3 DEF EvaluationScore
<1>2. mark(1) = 30 /\ mark(2) = 20 /\ mark(3) = 10 /\ mark(4) = 0
  OBVIOUS
<1>. HIDE DEF mark
<1>3. \A s \in QuoteSet : s.lead \in Nat /\ s.rating \in 0..100 /\ s.price \in Nat
  BY DEF QuoteSet
<1>4. mark(lead(q.lead)) >= mark(lead(r.lead)) /\ mark(lead(q.lead)) \in Int /\ mark(lead(r.lead)) \in Int
  BY <1>2, <1>3, SMT
<1>5. rate(q.rating) >= rate(r.rating) /\ rate(q.rating) \in Int /\ rate(r.rating) \in Int
  BY <1>3, SMT
<1>6. Points(40, q.price > 0) = 40 /\ Points(40, r.price > 0) \in {0, 40}
  BY DEF Points
<1>. HIDE DEF lead, rate
<1>. QED BY <1>1, <1>4, <1>5, <1>6, SMT

\* The same where times and ratings are alike.
LEMMA EqualScores ==
    ASSUME NEW q \in QuoteSet, NEW r \in QuoteSet, q.lead = r.lead, q.rating = r.rating, q.price > 0
    PROVE  EvaluationScore(q) >= EvaluationScore(r)
<1>1. q.lead \in Int /\ q.rating \in Int
  BY DEF QuoteSet
<1>2. q.lead <= r.lead /\ q.rating >= r.rating
  BY <1>1
<1>. QED BY <1>2, EvaluationScores

\* The statements about quotes hold for any two or more of them.
LEMMA InquiryHolds ==
    ASSUME NEW c, c.quotes \in Seq(QuoteSet), Len(c.quotes) >= 2, c.third \in QuoteSet
    PROVE  InquiryIsSound(c)
<1>. DEFINE q == c.quotes[1]
            r == c.quotes[2]
            three == Append(c.quotes, c.third)
<1>1. q \in QuoteSet /\ r \in QuoteSet
  OBVIOUS
<1>2. three \in Seq(QuoteSet) /\ Len(three) >= 2 /\ three[1] = q /\ three[2] = r
  OBVIOUS
<1>3. q.price \in Nat /\ r.price \in Nat /\ q.lead \in Nat /\ r.lead \in Nat /\ q.rating \in 0..100 /\ r.rating \in 0..100
  BY <1>1 DEF QuoteSet
<1>4. ASSUME NEW quotes \in {c.quotes, three}
      PROVE  /\ q.price <= r.price /\ q.lead <= r.lead /\ q.rating >= r.rating =>
                    TotalScore(q, quotes) >= TotalScore(r, quotes)
             /\ TotalScore(q, quotes) \in 0..1000
  <2>1. quotes \in Seq(QuoteSet) /\ Len(quotes) >= 2 /\ quotes[1] = q /\ quotes[2] = r
    <3>1. CASE quotes = c.quotes
      BY <3>1
    <3>2. CASE quotes = three
      <4>. HIDE DEF three, q, r
      <4>. QED BY <1>2, <3>2
    <3>. QED BY <3>1, <3>2
  <2>. HIDE DEF three, q, r
  <2>2. 1 \in 1..Len(quotes) /\ 2 \in 1..Len(quotes)
    BY <2>1
  <2>3. /\ TotalScore(quotes[1], quotes) \in 0..1000
        /\ quotes[1].price <= quotes[2].price /\ quotes[1].lead <= quotes[2].lead /\ quotes[1].rating >= quotes[2].rating =>
               TotalScore(quotes[1], quotes) >= TotalScore(quotes[2], quotes)
    BY <2>1, <2>2, TotalScores, ZenonT(30)
  <2>. QED BY <2>1, <2>3
<1>5. q.price <= r.price /\ q.lead <= r.lead /\ q.rating >= r.rating /\ q.price > 0 => EvaluationScore(q) >= EvaluationScore(r)
  <2>. HIDE DEF q, r
  <2>. QED BY <1>1, EvaluationScores
<1>6. q.price > 0 /\ q.lead = r.lead /\ q.rating = r.rating => EvaluationScore(q) >= EvaluationScore(r)
  <2>. HIDE DEF q, r
  <2>. QED BY <1>1, EqualScores
<1>. HIDE DEF three, q, r
<1>. QED BY <1>4, <1>5, <1>6 DEF InquiryIsSound, three, q, r

-----------------------------------------------------------------------------
(* Ratings of suppliers *)

\* The statements about the rating of suppliers hold for any scores.
LEMMA RatingHolds ==
    ASSUME NEW c \in [of : {"rating"}, quality : 0..100, delivery : 0..100, price : 0..100, service : 0..100]
    PROVE  RatingIsSound(c)
<1>. DEFINE T == {c.quality, c.delivery, c.price, c.service}
            names == <<"observation", "normal", "preferred", "strategic">>
            level(r) == CHOOSE n \in 1..4 : names[n] = SupplierLevel(r)
            all(n) == [quality |-> n, delivery |-> n, price |-> n, service |-> n]
            of(x) == IF x >= 9000 THEN 4 ELSE IF x >= 7500 THEN 3 ELSE IF x >= 6000 THEN 2 ELSE 1
            better == [c EXCEPT !.service = @ + 10]
<1>1. Min(T) \in T /\ \A y \in T : Min(T) <= y
  <2>. T \in SUBSET Nat /\ T # {}
    OBVIOUS
  <2>. QED BY MinOf
<1>2. Max(T) \in T /\ \A y \in T : y <= Max(T)
  <2>. T \in SUBSET (0..100) /\ T # {} /\ 100 \in Nat
    OBVIOUS
  <2>. QED BY MaxOf
<1>3. Min(T) \in 0..100 /\ Max(T) \in 0..100
  BY <1>1, <1>2
<1>4. /\ Min(T) <= c.quality /\ Min(T) <= c.delivery /\ Min(T) <= c.price /\ Min(T) <= c.service
      /\ c.quality <= Max(T) /\ c.delivery <= Max(T) /\ c.price <= Max(T) /\ c.service <= Max(T)
  BY <1>1, <1>2
<1>5. ASSUME NEW r, OverallRating(r) \in Int PROVE level(r) = of(OverallRating(r))
  <2>. DEFINE k == of(OverallRating(r))
  <2>1. Reached(OverallRating(r), <<6000, 7500, 9000>>) = k
    BY <1>5, Reached3
  <2>2. SupplierLevel(r) = names[k]
    BY <2>1 DEF SupplierLevel
  <2>3. k \in 1..4
    BY <1>5
  <2>. HIDE DEF k
  <2>4. \A n \in 1..4 : names[n] = names[k] <=> n = k
    BY <2>3
  <2>. HIDE DEF names
  <2>5. level(r) = k
    BY <2>2, <2>3, <2>4
  <2>. QED BY <2>5 DEF k
<1>. HIDE DEF T, level
<1>6. OverallRating(c) \in 100 * Min(T)..100 * Max(T)
  <2>. DEFINE lo == Min(T)
              hi == Max(T)
  <2>. SUFFICES ASSUME NEW q \in 0..100, NEW v \in 0..100, NEW p \in 0..100, NEW s \in 0..100,
                       NEW x \in 0..100, NEW y \in 0..100,
                       q = c.quality, v = c.delivery, p = c.price, s = c.service, x = lo, y = hi
                PROVE  OverallRating(c) \in 100 * x..100 * y
    BY <1>3, ZenonT(30)
  <2>1. x <= q /\ x <= v /\ x <= p /\ x <= s /\ q <= y /\ v <= y /\ p <= y /\ s <= y
    BY <1>4
  <2>2. 40 * q + 25 * v + 20 * p + 15 * s \in 100 * x..100 * y
    BY ONLY <2>1
  <2>. QED BY <2>2 DEF OverallRating
<1>7. OverallRating(c) \in Int /\ \A x \in 0..100 : OverallRating(all(x)) = 100 * x
  <2>1. OverallRating(c) \in Int
    <3>1. c.quality \in Int /\ c.delivery \in Int /\ c.price \in Int /\ c.service \in Int
      OBVIOUS
    <3>. QED BY ONLY <3>1 DEF OverallRating
  <2>2. ASSUME NEW x \in 0..100 PROVE OverallRating(all(x)) = 100 * x
    <3>1. all(x).quality = x /\ all(x).delivery = x /\ all(x).price = x /\ all(x).service = x
      OBVIOUS
    <3>. HIDE DEF all
    <3>. QED BY <3>1 DEF OverallRating
  <2>. QED BY <2>1, <2>2
<1>8. OverallRating(better) = OverallRating(c) + 150
  <2>1. better.quality = c.quality /\ better.delivery = c.delivery /\ better.price = c.price
        /\ better.service = c.service + 10
    OBVIOUS
  <2>2. c.quality \in Int /\ c.delivery \in Int /\ c.price \in Int /\ c.service \in Int
    OBVIOUS
  <2>. HIDE DEF better
  <2>3. OverallRating(better) = 40 * c.quality + 25 * c.delivery + 20 * c.price + 15 * (c.service + 10)
    BY <2>1 DEF OverallRating
  <2>. QED BY <2>2, <2>3 DEF OverallRating
<1>9. level(c) = of(OverallRating(c)) /\ level(better) = of(OverallRating(c) + 150)
  <2>. OverallRating(better) \in Int
    BY <1>7, <1>8
  <2>. HIDE DEF of, better
  <2>. QED BY <1>5, <1>7, <1>8
<1>10. \A x \in 0..100 : level(all(x)) = of(100 * x)
  <2>. HIDE DEF of, all
  <2>. \A x \in 0..100 : OverallRating(all(x)) \in Int
    BY <1>7
  <2>. QED BY <1>5, <1>7
<1>11. level(c) \in level(all(Min(T)))..level(all(Max(T)))
  <2>1. level(all(Min(T))) = of(100 * Min(T)) /\ level(all(Max(T))) = of(100 * Max(T))
    <3>. HIDE DEF of, all
    <3>. QED BY <1>3, <1>10
  <2>2. OverallRating(c) \in Int /\ 100 * Min(T) <= OverallRating(c) /\ OverallRating(c) <= 100 * Max(T)
        /\ 100 * Min(T) \in Int /\ 100 * Max(T) \in Int
    BY <1>3, <1>6, <1>7
  <2>3. of(OverallRating(c)) \in of(100 * Min(T))..of(100 * Max(T))
    BY <2>2
  <2>. HIDE DEF of, all
  <2>. QED BY <1>9, <2>1, <2>3
<1>12. level(c) <= level(better)
  BY <1>7, <1>9
<1>. QED BY <1>6, <1>11, <1>12 DEF RatingIsSound, T, level

-----------------------------------------------------------------------------
(* Late shipments *)

\* The statements about late shipments hold for any number of days.
LEMMA ShipmentHolds ==
    ASSUME NEW A, NEW c \in [of : {"shipment"}, status : A, days : Nat, underWay : BOOLEAN]
    PROVE  ShipmentIsSound(c)
<1>. DEFINE d == [c EXCEPT !.days = @ + 1]
            rank(e) == CASE e[2] = "critical" -> 3 [] e[2] = "high" -> 2 [] e[2] = "warning" -> 1
            of(s) == IF s.status = "returned" THEN {<<"returned", "high">>}
                     ELSE IF s.underWay /\ s.days > 14 THEN {<<"overdue", "critical">>}
                     ELSE IF s.underWay /\ s.days \in 8..14 THEN {<<"delayed", "warning">>} ELSE {}
<1>1. d.status = c.status /\ d.underWay = c.underWay /\ d.days = c.days + 1 /\ c.days \in Nat
      /\ c.underWay \in BOOLEAN
  OBVIOUS
<1>. HIDE DEF d
<1>2. ASSUME NEW s, s.days \in Nat, s.underWay \in BOOLEAN PROVE AutoDetectExceptions(s) = of(s)
  <2>1. <<"overdue", "critical">>[1] = "overdue" /\ <<"delayed", "warning">>[1] = "delayed"
        /\ <<"returned", "high">>[1] = "returned"
    OBVIOUS
  <2>2. ASSUME NEW e \in {<<"overdue", "critical">>, <<"delayed", "warning">>, <<"returned", "high">>}
        PROVE  (CASE e[1] = "overdue" -> s.status # "returned" /\ s.underWay /\ s.days > 14
                  [] e[1] = "delayed" -> s.status # "returned" /\ s.underWay /\ s.days \in 8..14
                  [] e[1] = "returned" -> s.status = "returned") = (e \in of(s))
    BY <1>2
  <2>3. of(s) \subseteq {<<"overdue", "critical">>, <<"delayed", "warning">>, <<"returned", "high">>}
    OBVIOUS
  <2>. HIDE DEF of
  <2>. QED BY <2>2, <2>3 DEF AutoDetectExceptions
<1>3. AutoDetectExceptions(c) = of(c) /\ AutoDetectExceptions(d) = of(d)
  <2>. d.days \in Nat /\ d.underWay \in BOOLEAN
    BY <1>1
  <2>. HIDE DEF of
  <2>. QED BY <1>1, <1>2
<1>4. Cardinality(of(c)) <= 1
  <2>1. \A x : Cardinality({x}) = 1
    BY FS_Singleton
  <2>2. Cardinality({}) = 0
    BY FS_EmptySet
  <2>3. of(c) = {} \/ \E x : of(c) = {x}
    OBVIOUS
  <2>. HIDE DEF of
  <2>4. CASE of(c) = {}
    BY <2>2, <2>4
  <2>5. CASE \E x : of(c) = {x}
    BY <2>1, <2>5
  <2>. QED BY <2>3, <2>4, <2>5
<1>5. \A e \in of(c) : \E f \in of(d) : rank(e) <= rank(f)
  <2>1. CASE c.status = "returned"
    BY <2>1, <1>1
  <2>2. CASE c.status # "returned" /\ c.underWay /\ c.days > 14
    BY <2>2, <1>1
  <2>3. CASE c.status # "returned" /\ c.underWay /\ c.days \in 8..14
    <3>1. of(c) = {<<"delayed", "warning">>}
      BY <2>3, <1>1
    <3>2. of(d) = {<<"overdue", "critical">>} \/ of(d) = {<<"delayed", "warning">>}
      BY <2>3, <1>1
    <3>3. rank(<<"delayed", "warning">>) = 1 /\ rank(<<"overdue", "critical">>) = 3
      OBVIOUS
    <3>. HIDE DEF of, rank
    <3>. QED BY <3>1, <3>2, <3>3
  <2>4. CASE c.status # "returned" /\ ~(c.underWay /\ c.days > 14) /\ ~(c.underWay /\ c.days \in 8..14)
    BY <2>4
  <2>. QED BY <2>1, <2>2, <2>3, <2>4
<1>6. of(c) # {} => c.underWay \/ c.status = "returned"
  OBVIOUS
<1>7. /\ Cardinality(AutoDetectExceptions(c)) <= 1
      /\ \A e \in AutoDetectExceptions(c) : \E f \in AutoDetectExceptions(d) : rank(e) <= rank(f)
      /\ AutoDetectExceptions(c) # {} => c.underWay \/ c.status = "returned"
  <2>. HIDE DEF of, rank
  <2>. QED BY <1>3, <1>4, <1>5, <1>6
<1>. QED BY <1>7 DEF ShipmentIsSound, d

-----------------------------------------------------------------------------
(* Rates of change *)

\* A factor common to both sides does not change a rounded quotient.
LEMMA RoundedScale ==
    ASSUME NEW n \in Int, NEW d \in Nat \ {0}, NEW f \in Nat \ {0}
    PROVE  Rounded(f * n, f * d) = Rounded(n, d)
<1>. DEFINE q == Rounded(n, d)
<1>1. q \in Int /\ 2 * d * q <= 2 * n + d /\ 2 * n + d < 2 * d * q + 2 * d
  BY Rounds
<1>. HIDE DEF q
<1>. DEFINE x == 2 * n + d - 2 * d * q
<1>2. x \in Int /\ 0 <= x /\ x < 2 * d /\ 2 * n + d = 2 * d * q + x /\ 2 * d * q \in Int
  BY <1>1
<1>. HIDE DEF x
<1>3. f * 0 <= f * x /\ f * (x + 1) <= f * (2 * d)
  BY <1>2, TimesMonotone
<1>4. f * (x + 1) = f * x + f /\ f * x \in Int /\ f * (2 * d) = 2 * (f * d) /\ f * d \in Nat
  BY <1>2
<1>5. f * (2 * n + d) = f * (2 * d * q) + f * x
  <2>. DEFINE y == 2 * d * q
  <2>1. y \in Int /\ 2 * n + d = y + x
    BY <1>2
  <2>. HIDE DEF y
  <2>2. f * (y + x) = f * y + f * x
    BY <1>2, <2>1
  <2>. QED BY <2>1, <2>2 DEF y
<1>6. f * (2 * n + d) = 2 * (f * n) + f * d /\ f * (2 * d * q) = 2 * (f * d) * q
  BY <1>1
<1>7. 2 * (f * d) * q \in Int /\ f * n \in Int
  BY <1>1
<1>8. 2 * (f * d) * q <= 2 * (f * n) + f * d /\ 2 * (f * n) + f * d < 2 * (f * d) * q + 2 * (f * d)
  BY <1>3, <1>4, <1>5, <1>6, <1>7
<1>9. 2 * (f * n) + f * d \in Int /\ 2 * (f * d) \in Nat \ {0}
  <2>1. f * 1 <= f * d
    BY TimesMonotone
  <2>. QED BY <2>1, <1>4, <1>7
<1>10. (2 * (f * n) + f * d) \div (2 * (f * d)) = q
  BY <1>1, <1>8, <1>9, DivIs
<1>. QED BY <1>10 DEF Rounded, q

\* The statements about rates of change hold up to the size at which rounding
\* to a hundredth of a per cent hides a change by one.
LEMMA ChangeHolds ==
    ASSUME NEW c, c.current \in Int, c.previous \in Int, -20000 < c.previous, c.previous < 20000,
           c.factor \in Nat \ {0}
    PROVE  ChangeIsSound(c)
<1>. DEFINE a == c.current
            b == c.previous
            f == c.factor
            d == IF b > 0 THEN b ELSE -b
            n == 10000 * (a - b)
            rate == CalculateChangeRate(a, b)
            scaled == CalculateChangeRate(f * a, f * b)
<1>0. a \in Int /\ b \in Int /\ b > -20000 /\ b < 20000 /\ f \in Nat \ {0}
  OBVIOUS
<1>. HIDE DEF a, b, f
<1>1. rate = IF b = 0 THEN (IF a = 0 THEN 0 ELSE 10000) ELSE Rounded(n, d)
  <2>. Max({b, -b}) = d
    <3>. Max({b, -b}) = IF b >= -b THEN b ELSE -b
      BY <1>0, MaxOfTwo
    <3>. QED BY <1>0
  <2>. QED BY DEF CalculateChangeRate
<1>2. /\ f * a \in Int /\ f * b \in Int /\ (f * b = 0 <=> b = 0) /\ (f * a = 0 <=> a = 0)
      /\ (b > 0 => f * b > 0) /\ (b < 0 => f * b < 0)
  <2>1. \A x \in Int : x > 0 => f * x > 0
    <3>. TAKE x \in Int
    <3>. f * 1 <= f * x \/ x <= 0
      BY <1>0, TimesMonotone
    <3>. QED BY <1>0
  <2>2. \A x \in Int : x < 0 => f * x < 0
    <3>. TAKE x \in Int
    <3>. f * x <= f * (-1) \/ x >= 0
      BY <1>0, TimesMonotone
    <3>. QED BY <1>0
  <2>3. f * 0 = 0 /\ \A x \in Int : f * x \in Int
    BY <1>0
  <2>. QED BY <1>0, <2>1, <2>2, <2>3
<1>3. scaled = rate
  <2>1. scaled = IF f * b = 0 THEN (IF f * a = 0 THEN 0 ELSE 10000)
                 ELSE Rounded(10000 * (f * a - f * b), IF f * b > 0 THEN f * b ELSE -(f * b))
    <3>. Max({f * b, -(f * b)}) = IF f * b > 0 THEN f * b ELSE -(f * b)
      <4>. Max({f * b, -(f * b)}) = IF f * b >= -(f * b) THEN f * b ELSE -(f * b)
        BY <1>2, MaxOfTwo
      <4>. QED BY <1>2
    <3>. QED BY DEF CalculateChangeRate
  <2>2. 10000 * (f * a - f * b) = f * n
    BY <1>0
  <2>3. (IF f * b > 0 THEN f * b ELSE -(f * b)) = f * d
    <3>. f * (-b) = -(f * b)
      BY <1>0
    <3>. QED BY <1>0, <1>2
  <2>4. b # 0 => Rounded(f * n, f * d) = Rounded(n, d)
    <3>. n \in Int /\ (b # 0 => d \in Nat \ {0})
      BY <1>0
    <3>. HIDE DEF n, d
    <3>. QED BY <1>0, RoundedScale
  <2>. HIDE DEF n, d, scaled, rate
  <2>. QED BY <1>1, <1>2, <2>1, <2>2, <2>3, <2>4
<1>4. b # 0 => /\ Rounded(n, d) \in Int
               /\ a > b => Rounded(n, d) > 0
               /\ a < b => Rounded(n, d) < 0
               /\ a = b => Rounded(n, d) = 0
  <2>1. SUFFICES ASSUME b # 0 PROVE /\ Rounded(n, d) \in Int
                                    /\ a > b => Rounded(n, d) > 0
                                    /\ a < b => Rounded(n, d) < 0
                                    /\ a = b => Rounded(n, d) = 0
    OBVIOUS
  <2>2. n \in Int /\ d \in Nat /\ d >= 1 /\ d <= 19999 /\ (a > b => n >= 10000) /\ (a < b => n <= -10000) /\ (a = b => n = 0)
    BY <1>0, <2>1
  <2>. HIDE DEF n, d
  <2>. DEFINE q == Rounded(n, d)
  <2>3. q \in Int /\ 2 * d * q <= 2 * n + d /\ 2 * n + d < 2 * d * q + 2 * d
    <3>1. n \in Int /\ d \in Nat \ {0}
      BY <2>2
    <3>. QED BY ONLY <3>1, Rounds
  <2>. HIDE DEF q
  <2>4. q <= 0 => 2 * d * q <= 0
    <3>. q <= 0 => d * q <= d * 0
      BY <2>2, <2>3, TimesMonotone
    <3>. 2 * d * q = 2 * (d * q) /\ d * q \in Int
      BY <2>2, <2>3
    <3>. QED BY <2>2
  <2>5. q >= 0 => 2 * d * q >= 0
    <3>. q >= 0 => d * 0 <= d * q
      BY <2>2, <2>3, TimesMonotone
    <3>. 2 * d * q = 2 * (d * q) /\ d * q \in Int
      BY <2>2, <2>3
    <3>. QED BY <2>2
  <2>6. q >= 1 => 2 * d * q >= 2 * d
    <3>. q >= 1 => d * 1 <= d * q
      BY <2>2, <2>3, TimesMonotone
    <3>. 2 * d * q = 2 * (d * q) /\ d * q \in Int
      BY <2>2, <2>3
    <3>. QED BY <2>2
  <2>7. q <= -1 => 2 * d * q <= -2 * d
    <3>. q <= -1 => d * q <= d * (-1)
      BY <2>2, <2>3, TimesMonotone
    <3>. 2 * d * q = 2 * (d * q) /\ d * q \in Int
      BY <2>2, <2>3
    <3>. QED BY <2>2
  <2>8. 2 * d * q \in Int
    BY <2>2, <2>3
  <2>. QED BY <2>2, <2>3, <2>4, <2>5, <2>6, <2>7, <2>8 DEF q
<1>. HIDE DEF n, d, rate, scaled
<1>5. /\ b # 0 => (rate > 0) = (a > b) /\ (rate < 0) = (a < b)
      /\ (rate = 0) = (a = b)
      /\ Direction(rate) = "up" => a > b \/ b = 0
      /\ Direction(rate) = "down" => a < b
  BY <1>0, <1>1, <1>4 DEF Direction
<1>. QED BY <1>3, <1>5 DEF ChangeIsSound, rate, scaled, a, b, f

-----------------------------------------------------------------------------
(* Series *)

\* The average of numbers, rounded, lies between the smallest and the greatest.
LEMMA AverageBetween ==
    ASSUME NEW s \in Seq(Nat), Len(s) > 0
    PROVE  /\ Min(ToSet(s)) \in Nat /\ Max(ToSet(s)) \in Nat /\ Total(s) \in Nat
           /\ Rounded(Total(s), Len(s)) \in Min(ToSet(s))..Max(ToSet(s))
           /\ Total(s) \in Len(s) * Min(ToSet(s))..Len(s) * Max(ToSet(s))
<1>. DEFINE n == Len(s)
            T == ToSet(s)
            low == Min(T)
            high == Max(T)
            sum == Total(s)
<1>1. n \in Nat \ {0} /\ s \in [1..n -> Nat] /\ s \in [1..n -> Int] /\ DOMAIN s = 1..n
  OBVIOUS
<1>2. T = {s[i] : i \in 1..n} /\ T # {}
  BY <1>1 DEF ToSet
<1>3. sum \in Nat /\ \A i \in 1..n : s[i] <= sum
  <2>. HIDE DEF n
  <2>. QED BY <1>1, TotalNat
<1>4. T \in SUBSET (0..sum) /\ T \in SUBSET Nat
  <2>1. \A i \in 1..n : s[i] \in 0..sum
    BY <1>1, <1>3
  <2>. HIDE DEF T, sum
  <2>. QED BY <1>2, <2>1
<1>5. low \in T /\ \A y \in T : low <= y
  <2>. HIDE DEF T
  <2>. QED BY <1>2, <1>4, MinOf
<1>6. high \in T /\ \A y \in T : y <= high
  <2>. HIDE DEF T, sum
  <2>. QED BY <1>2, <1>3, <1>4, MaxOf
<1>7. low \in Nat /\ high \in Nat
  BY <1>4, <1>5, <1>6
<1>. HIDE DEF low, high, sum, n
<1>8. n * low <= sum /\ sum <= n * high
  <2>1. \A i \in 1..n : low <= s[i] /\ s[i] <= high
    BY <1>2, <1>5, <1>6
  <2>2. n \in Nat /\ low \in Int /\ high \in Int
    BY <1>1, <1>7
  <2>. QED BY <1>1, <2>1, <2>2, TotalBetween DEF sum
<1>9. low <= Rounded(sum, n) /\ Rounded(sum, n) <= high /\ Rounded(sum, n) \in Int
  <2>1. sum \in Int /\ low \in Int /\ high \in Int
    BY <1>3, <1>7
  <2>. QED BY ONLY <1>1, <1>8, <2>1, RoundedBounds, Rounds
<1>10. n * low \in Int /\ n * high \in Int
  BY <1>1, <1>7
<1>11. /\ Rounded(sum, n) \in low..high
       /\ sum \in n * low..n * high
  BY <1>3, <1>7, <1>8, <1>9, <1>10
<1>. HIDE DEF T
<1>. QED BY <1>3, <1>7, <1>11 DEF low, high, sum, n, T

\* The statements about moving averages and trends hold for any series.
LEMMA SeriesHolds ==
    ASSUME NEW c, c.values \in Seq(Nat), c.window \in Nat \ {0}
    PROVE  SeriesIsSound(c)
<1>. DEFINE s == c.values
            n == Len(s)
            average(window) == CalculateMovingAverage(s, window)
            from(i, window) == Max({1, i - window + 1})
            last(i, window) == SubSeq(s, from(i, window), i)
            figureOf(aggregation) == AggregateValues(s, aggregation)
<1>. SUFFICES ASSUME n > 0 PROVE SeriesIsSound(c)
  BY DEF SeriesIsSound
<1>1. n \in Nat \ {0} /\ s \in [1..n -> Nat] /\ DOMAIN s = 1..n /\ s # <<>>
  OBVIOUS
<1>2. ASSUME NEW i \in 1..n, NEW window \in Nat \ {0}
      PROVE  /\ from(i, window) = IF i < window THEN 1 ELSE i - window + 1
             /\ from(i, window) \in 1..i
  <2>1. from(i, window) = IF 1 >= i - window + 1 THEN 1 ELSE i - window + 1
    BY MaxOfTwo
  <2>. HIDE DEF from
  <2>. QED BY <2>1
<1>. HIDE DEF from
<1>3. ASSUME NEW i \in 1..n, NEW k \in 1..i
      PROVE  /\ SubSeq(s, k, i) \in Seq(Nat) /\ Len(SubSeq(s, k, i)) = i - k + 1
             /\ \A j \in 1..i - k + 1 : SubSeq(s, k, i)[j] = s[k + j - 1]
  OBVIOUS
<1>4. ASSUME NEW i \in 1..n, NEW window \in Nat \ {0}
      PROVE  /\ average(window)[i] = Rounded(Total(last(i, window)), Len(last(i, window)))
             /\ last(i, window) \in Seq(Nat) /\ Len(last(i, window)) > 0
  <2>1. last(i, window) \in Seq(Nat) /\ Len(last(i, window)) = i - from(i, window) + 1
    BY <1>2, <1>3
  <2>2. i - from(i, window) + 1 > 0
    BY <1>2
  <2>. QED BY <1>1, <2>1, <2>2 DEF CalculateMovingAverage, from
<1>5. \A i \in 1..n : average(c.window)[i] \in Min(ToSet(last(i, c.window)))..Max(ToSet(last(i, c.window)))
  <2>. TAKE i \in 1..n
  <2>1. last(i, c.window) \in Seq(Nat) /\ Len(last(i, c.window)) > 0
    BY <1>4
  <2>2. average(c.window)[i] = Rounded(Total(last(i, c.window)), Len(last(i, c.window)))
    BY <1>4
  <2>. HIDE DEF last, average
  <2>. QED BY <2>1, <2>2, AverageBetween
<1>6. average(1) = s
  <2>1. ASSUME NEW i \in 1..n PROVE average(1)[i] = s[i]
    <3>1. from(i, 1) = i
      BY <1>2
    <3>2. last(i, 1) = SubSeq(s, i, i) /\ Len(SubSeq(s, i, i)) = 1 /\ SubSeq(s, i, i)[1] = s[i]
      BY <1>1, <3>1
    <3>3. SubSeq(s, i, i) \in [1..1 -> Int] /\ s[i] \in Nat
      <4>1. SubSeq(s, i, i) \in Seq(Nat) /\ s[i] \in Nat
        BY <1>1, <1>3
      <4>. DEFINE x == SubSeq(s, i, i)
      <4>2. x \in Seq(Nat) /\ Len(x) = 1
        BY <3>2, <4>1
      <4>. HIDE DEF x
      <4>3. x \in [1..1 -> Int]
        <5>1. x \in [1..Len(x) -> Nat]
          BY ONLY <4>2
        <5>2. x \in [1..1 -> Nat]
          BY <4>2, <5>1
        <5>. QED BY <5>2
      <4>. QED BY <4>1, <4>3 DEF x
    <3>. DEFINE t == SubSeq(s, i, i)
    <3>. HIDE DEF t
    <3>4. PICK a \in [0..1 -> Int] : a[0] = 0 /\ Total(t) = a[1] /\ \A j \in 1..1 : a[j] = a[j - 1] + t[j]
      <4>. t \in [1..1 -> Int] /\ 1 \in Nat
        BY <3>3 DEF t
      <4>. QED BY SumOf
    <3>5. Total(t) = s[i]
      <4>1. t[1] = s[i]
        BY <3>2 DEF t
      <4>2. a[1] = a[1 - 1] + t[1]
        BY <3>4
      <4>3. 1 - 1 = 0
        OBVIOUS
      <4>. QED BY <3>3, <3>4, <4>1, <4>2, <4>3
    <3>6. Rounded(s[i], 1) = s[i]
      <4>. DEFINE x == s[i]
      <4>1. x \in Nat
        BY <3>3
      <4>. HIDE DEF x
      <4>2. Rounded(x, 1) = x
        BY <4>1 DEF Rounded
      <4>. QED BY <4>2 DEF x
    <3>7. average(1)[i] = Rounded(Total(t), Len(t))
      <4>1. average(1)[i] = Rounded(Total(last(i, 1)), Len(last(i, 1)))
        BY <1>4
      <4>2. last(i, 1) = t
        BY <3>2 DEF t
      <4>. HIDE DEF average, last
      <4>. QED BY <4>1, <4>2
    <3>8. Len(t) = 1
      BY <3>2 DEF t
    <3>. HIDE DEF average
    <3>. QED BY <3>5, <3>6, <3>7, <3>8
  <2>2. average(1) = [i \in 1..n |-> average(1)[i]]
    BY <1>1 DEF CalculateMovingAverage
  <2>3. s = [i \in 1..n |-> s[i]]
    BY <1>1
  <2>. HIDE DEF average, s, n
  <2>. QED BY <2>1, <2>2, <2>3
<1>7. average(n)[n] = Rounded(Total(s), n)
  <2>1. n \in 1..n /\ from(n, n) = 1
    BY <1>1, <1>2
  <2>2. SubSeq(s, 1, n) = s
    BY <1>1
  <2>. QED BY <1>1, <1>4, <2>1, <2>2
<1>8. /\ figureOf("avg") = Rounded(Total(s), n) /\ figureOf("sum") = Total(s)
      /\ figureOf("min") = Min(ToSet(s)) /\ figureOf("max") = Max(ToSet(s))
  <2>1. figureOf("avg") = Rounded(Total(s), n)
    BY <1>1 DEF AggregateValues
  <2>2. figureOf("sum") = Total(s)
    BY <1>1 DEF AggregateValues
  <2>3. figureOf("min") = Min(ToSet(s))
    BY <1>1 DEF AggregateValues
  <2>4. figureOf("max") = Max(ToSet(s))
    BY <1>1 DEF AggregateValues
  <2>. QED BY <2>1, <2>2, <2>3, <2>4
<1>9. /\ Rounded(Total(s), n) \in Min(ToSet(s))..Max(ToSet(s))
      /\ Total(s) \in n * Min(ToSet(s))..n * Max(ToSet(s))
  BY AverageBetween
<1>10. \A i \in 1..n : LET t == ToSet(SubSeq(s, Max({1, i - c.window + 1}), i)) IN
           average(c.window)[i] \in Min(t)..Max(t)
  BY <1>5 DEF from
<1>. HIDE DEF average, figureOf, last
<1>11. /\ average(n)[n] = figureOf("avg")
       /\ figureOf("avg") \in figureOf("min")..figureOf("max")
       /\ figureOf("sum") \in n * figureOf("min")..n * figureOf("max")
  BY <1>7, <1>8, <1>9
<1>. QED BY ONLY <1>6, <1>10, <1>11 DEF SeriesIsSound, average, figureOf, n, s

-----------------------------------------------------------------------------
(* Outliers *)

\* A list and its reverse have one sum.
LEMMA TotalReverse ==
    ASSUME NEW n \in Nat, NEW s \in [1..n -> Int]
    PROVE  Total([i \in 1..n |-> s[(n - i) + 1]]) = Total(s)
<1>1. PICK a \in [0..n -> Int] : /\ a[0] = 0 /\ Total(s) = a[n]
                                 /\ \A i \in 1..n : a[i] = a[i - 1] + s[i]
  BY SumOf
<1>. DEFINE r == [i \in 1..n |-> s[(n - i) + 1]]
            b == [i \in 0..n |-> a[n] - a[n - i]]
<1>2. r \in Seq(Int) /\ Len(r) = n
  <2>1. \A i \in 1..n : (n - i) + 1 \in 1..n
    OBVIOUS
  <2>2. r \in [1..n -> Int]
    BY <2>1
  <2>. HIDE DEF r
  <2>. QED BY <2>2
<1>3. b[0] = 0
  <2>1. 0 \in 0..n /\ n - 0 = n /\ a[n] \in Int
    BY <1>1
  <2>. QED BY <2>1
<1>4. ASSUME NEW i \in 1..n PROVE b[i] = b[i - 1] + r[i]
  <2>. DEFINE k == n - i
  <2>1. k \in 0..n /\ k + 1 \in 1..n /\ n - (i - 1) = k + 1 /\ i \in 0..n /\ i - 1 \in 0..n /\ (k + 1) - 1 = k
    OBVIOUS
  <2>2. r[i] = s[k + 1] /\ b[i] = a[n] - a[k] /\ b[i - 1] = a[n] - a[k + 1]
    BY <2>1
  <2>. HIDE DEF k
  <2>3. a[k + 1] = a[k] + s[k + 1]
    BY <1>1, <2>1
  <2>4. a[n] \in Int /\ a[k] \in Int /\ s[k + 1] \in Int
    BY <1>1, <2>1
  <2>5. \A x, y, z \in Int : x - y = (x - (y + z)) + z
    OBVIOUS
  <2>. HIDE DEF b, r
  <2>6. a[n] - a[k] = (a[n] - (a[k] + s[k + 1])) + s[k + 1]
    BY <2>4, <2>5, Zenon
  <2>7. b[i - 1] + r[i] = (a[n] - (a[k] + s[k + 1])) + s[k + 1]
    BY <2>2, <2>3, Zenon
  <2>. QED BY <2>2, <2>6, <2>7, Zenon
<1>5. b[n] = a[n]
  <2>1. n \in 0..n /\ n - n = 0 /\ a[n] \in Int
    BY <1>1
  <2>. QED BY <1>1, <2>1
<1>. HIDE DEF b, r
<1>6. Total(r) = b[n]
  BY <1>2, <1>3, <1>4, TotalIs
<1>. QED BY <1>1, <1>5, <1>6 DEF r

\* The positions of a set are as many as the ones counted for them.
LEMMA TotalCounts ==
    ASSUME NEW n \in Nat, NEW B \in SUBSET (1..n), NEW k \in Int
    PROVE  Total([i \in 1..n |-> IF i \in B THEN k ELSE 0]) = k * Cardinality(B)
<1>. DEFINE s == [i \in 1..n |-> IF i \in B THEN 1 ELSE 0]
            a == [i \in 0..n |-> Cardinality(B \cap 1..i)]
<1>1. s \in Seq(Int) /\ Len(s) = n /\ s \in [1..n -> Int]
  <2>1. s \in [1..n -> Int]
    OBVIOUS
  <2>. HIDE DEF s
  <2>. QED BY <2>1
<1>2. a[0] = 0
  <2>1. 0 \in 0..n /\ 0 \in Nat
    OBVIOUS
  <2>2. Cardinality(B \cap 1..0) = 0
    BY <2>1, CountSteps
  <2>. QED BY <2>1, <2>2
<1>3. ASSUME NEW i \in 1..n PROVE a[i] = a[i - 1] + s[i]
  <2>. DEFINE j == i - 1
  <2>1. j \in Nat /\ j + 1 = i /\ j \in 0..n /\ i \in 0..n
    OBVIOUS
  <2>2. a[i] = Cardinality(B \cap 1..i) /\ a[j] = Cardinality(B \cap 1..j) /\ s[i] = IF i \in B THEN 1 ELSE 0
    BY <2>1
  <2>. HIDE DEF a, s, j
  <2>3. Cardinality(B \cap 1..j + 1) = Cardinality(B \cap 1..j) + (IF j + 1 \in B THEN 1 ELSE 0)
    BY <2>1, CountSteps
  <2>4. a[i] = a[j] + s[i]
    BY ONLY <2>1, <2>2, <2>3
  <2>. QED BY <2>4 DEF j
<1>4. a[n] = Cardinality(B)
  <2>1. B \cap 1..n = B
    BY CapOf
  <2>2. a[n] = Cardinality(B \cap 1..n)
    OBVIOUS
  <2>. HIDE DEF a
  <2>. QED BY ONLY <2>1, <2>2
<1>. DEFINE t == [i \in 1..n |-> IF i \in B THEN k ELSE 0]
<1>6. t = [i \in 1..n |-> k * s[i]]
  OBVIOUS
<1>. HIDE DEF a, s
<1>5. Total(s) = a[n]
  BY <1>1, <1>2, <1>3, TotalIs
<1>7. Total([i \in 1..n |-> k * s[i]]) = k * Total(s)
  BY <1>1, TotalTimes
<1>. HIDE DEF t
<1>8. Total(t) = k * Cardinality(B)
  BY <1>4, <1>5, <1>6, <1>7
<1>. QED BY <1>8 DEF t

\* The identity between squares that the sums below are made of.
LEMMA SquareOf ==
    ASSUME NEW n \in Int, NEW v \in Int, NEW S \in Int
    PROVE  (n * v - S) * (n * v - S) = ((n * n) * (v * v) + (-2 * n * S) * v) + S * S
OBVIOUS

\* What the values deviate by from their mean, squared and added.
LEMMA Deviations ==
    ASSUME NEW n \in Nat, NEW v \in [1..n -> Int]
    PROVE  /\ Total(v) \in Int /\ Total([i \in 1..n |-> v[i] * v[i]]) \in Int
           /\ Total([i \in 1..n |-> (n * v[i] - Total(v)) * (n * v[i] - Total(v))])
                  = n * (n * Total([i \in 1..n |-> v[i] * v[i]]) - Total(v) * Total(v))
           /\ Total([i \in 1..n |-> n * v[i] - Total(v)]) = 0
<1>. DEFINE S == Total(v)
            q == [i \in 1..n |-> v[i] * v[i]]
            Q == Total(q)
            nn == n * n
            m == -2 * n * S
            SS == S * S
            a == [i \in 1..n |-> nn * q[i]]
            b == [i \in 1..n |-> m * v[i]]
            ab == [i \in 1..n |-> a[i] + b[i]]
            k == [i \in 1..n |-> SS]
            d == [i \in 1..n |-> (n * v[i] - S) * (n * v[i] - S)]
            e == [i \in 1..n |-> n * v[i] - S]
            nv == [i \in 1..n |-> n * v[i]]
            s == [i \in 1..n |-> -S]
<1>1. q \in [1..n -> Int]
  <2>1. \A i \in 1..n : v[i] * v[i] \in Int
    OBVIOUS
  <2>. QED BY <2>1
<1>2. S \in Int /\ Q \in Int
  <2>. HIDE DEF q
  <2>. QED BY <1>1, SumOf
<1>. HIDE DEF S
<1>3. nn \in Int /\ m \in Int /\ SS \in Int /\ -S \in Int
  BY <1>2
<1>. HIDE DEF nn, m, SS
<1>4. a \in [1..n -> Int] /\ b \in [1..n -> Int] /\ k \in [1..n -> Int] /\ nv \in [1..n -> Int] /\ s \in [1..n -> Int]
  <2>1. \A i \in 1..n : nn * q[i] \in Int /\ m * v[i] \in Int /\ n * v[i] \in Int
    <3>. TAKE i \in 1..n
    <3>1. q[i] \in Int /\ v[i] \in Int /\ n \in Int
      BY <1>1
    <3>. HIDE DEF q
    <3>. QED BY <1>3, <3>1
  <2>. HIDE DEF q
  <2>. QED BY <1>3, <2>1
<1>5. ab \in [1..n -> Int]
  <2>1. \A i \in 1..n : a[i] \in Int /\ b[i] \in Int
    BY <1>4
  <2>. HIDE DEF a, b
  <2>. QED BY <2>1
<1>6. Total(a) = nn * Q /\ Total(b) = m * S /\ Total(nv) = n * S
  <2>. HIDE DEF q
  <2>1. Total(v) = S
    BY DEF S
  <2>2. n \in Int
    OBVIOUS
  <2>. QED BY <1>1, <1>3, <2>1, <2>2, TotalTimes
<1>7. Total(ab) = Total(a) + Total(b)
  <2>. HIDE DEF a, b
  <2>. QED BY <1>4, TotalPlus
<1>8. Total(k) = n * SS /\ Total(s) = n * (-S)
  BY <1>3, TotalSame
<1>9. d = [i \in 1..n |-> ab[i] + k[i]]
  <2>1. ASSUME NEW i \in 1..n PROVE (n * v[i] - S) * (n * v[i] - S) = ab[i] + k[i]
    <3>. DEFINE x == v[i]
    <3>1. x \in Int /\ n \in Int
      OBVIOUS
    <3>2. ab[i] + k[i] = (nn * (x * x) + m * x) + SS
      OBVIOUS
    <3>. HIDE DEF x
    <3>3. (n * x - S) * (n * x - S) = ((n * n) * (x * x) + (-2 * n * S) * x) + S * S
      BY <1>2, <3>1, SquareOf
    <3>4. (n * x - S) * (n * x - S) = (nn * (x * x) + m * x) + SS
      BY <3>3 DEF nn, m, SS
    <3>. HIDE DEF ab, k
    <3>. QED BY <3>2, <3>4 DEF x
  <2>. HIDE DEF ab, k
  <2>. QED BY <2>1
<1>10. Total(d) = Total(ab) + Total(k)
  <2>. HIDE DEF ab, k, d
  <2>. QED BY <1>4, <1>5, <1>9, TotalPlus
<1>11. e = [i \in 1..n |-> nv[i] + s[i]]
  <2>1. ASSUME NEW i \in 1..n PROVE n * v[i] - S = nv[i] + s[i]
    <3>. DEFINE x == n * v[i]
    <3>1. x \in Int
      OBVIOUS
    <3>2. nv[i] = x /\ s[i] = -S
      OBVIOUS
    <3>. HIDE DEF x, nv, s
    <3>3. x - S = nv[i] + s[i]
      BY <1>2, <3>1, <3>2
    <3>. QED BY <3>3 DEF x
  <2>. HIDE DEF nv, s
  <2>. QED BY <2>1
<1>12. Total(e) = Total(nv) + Total(s)
  <2>. HIDE DEF nv, s, e
  <2>. QED BY <1>4, <1>11, TotalPlus
<1>. HIDE DEF Q, a, b, ab, k, nv, s, q, d, e
<1>13. Total(e) = 0
  <2>. DEFINE x == n * S
  <2>1. x \in Int /\ n * (-S) = -x
    BY <1>2
  <2>. HIDE DEF x
  <2>2. Total(nv) = x /\ Total(s) = -x
    BY <1>6, <1>8, <2>1 DEF x
  <2>. QED BY <1>12, <2>1, <2>2
<1>14. Total(d) = n * (n * Q - S * S)
  <2>1. Total(d) = ((n * n) * Q + (-2 * n * S) * S) + n * (S * S)
    BY <1>6, <1>7, <1>8, <1>10 DEF nn, m, SS
  <2>2. ((n * n) * Q + (-2 * n * S) * S) + n * (S * S) = n * (n * Q - S * S)
    BY <1>2
  <2>. QED BY <2>1, <2>2
<1>. QED BY <1>2, <1>13, <1>14 DEF S, Q, q, d, e

\* Of numbers that are no less than nothing, those over a bound are so few
\* that the bound as many times is less than their sum.
LEMMA FewOver ==
    ASSUME NEW n \in Nat, NEW d \in [1..n -> Nat], NEW b \in Nat
    PROVE  LET over == {i \in 1..n : d[i] > b} IN
           /\ Cardinality(over) \in Nat
           /\ over # {} => Cardinality(over) * b + Cardinality(over) <= Total(d) /\ Cardinality(over) >= 1
<1>. DEFINE over == {i \in 1..n : d[i] > b}
            s == [i \in 1..n |-> IF i \in over THEN b + 1 ELSE 0]
            m == Cardinality(over)
<1>1. over \in SUBSET (1..n)
  OBVIOUS
<1>2. s \in [1..n -> Int] /\ d \in [1..n -> Int] /\ \A i \in 1..n : s[i] <= d[i]
  <2>1. \A i \in 1..n : s[i] \in Int /\ d[i] \in Int /\ s[i] <= d[i]
    OBVIOUS
  <2>2. s \in [1..n -> Int] /\ d \in [1..n -> Int]
    OBVIOUS
  <2>. QED BY <2>1, <2>2
<1>. HIDE DEF over
<1>3. Total(s) = (b + 1) * m
  BY <1>1, b + 1 \in Int, TotalCounts
<1>4. Total(s) <= Total(d)
  <2>. HIDE DEF s
  <2>. QED BY <1>2, TotalGrows
<1>5. IsFiniteSet(1..n)
  BY FirstNumbers
<1>6. m \in Nat /\ (over # {} => m >= 1)
  <2>1. IsFiniteSet(over)
    BY <1>1, <1>5, FS_Subset
  <2>2. m \in Nat /\ (m = 0 => over = {})
    BY <2>1, FS_CardinalityType, FS_EmptySet
  <2>. HIDE DEF m
  <2>. QED BY <2>2
<1>. HIDE DEF m, s
<1>7. (b + 1) * m = m * b + m
  BY <1>6
<1>8. m * b + m <= Total(d)
  BY <1>3, <1>4, <1>7
<1>. QED BY <1>6, <1>8 DEF m, over

\* No value is further from the mean of n than the root of n - 1 deviations.
LEMMA OneDeviates ==
    ASSUME NEW n \in Nat \ {0}, NEW e \in [1..n -> Int], Total(e) = 0,
           NEW spread \in Int, Total([i \in 1..n |-> e[i] * e[i]]) = n * spread, NEW j \in 1..n, n > 1
    PROVE  e[j] * e[j] <= (n - 1) * spread
<1>. DEFINE m == n - 1
            D == e[j]
            q == [i \in 1..n |-> e[i] * e[i]]
            mm == m * m
            md == 2 * m * D
            DD == D * D
            a == [i \in 1..n |-> mm * q[i]]
            b == [i \in 1..n |-> md * e[i]]
            ab == [i \in 1..n |-> a[i] + b[i]]
            k == [i \in 1..n |-> DD]
            d == [i \in 1..n |-> (m * e[i] + D) * (m * e[i] + D)]
<1>1. D \in Int /\ m \in Nat \ {0} /\ n \in Nat /\ n = m + 1
  OBVIOUS
<1>2. q \in [1..n -> Int]
  <2>1. \A i \in 1..n : e[i] * e[i] \in Int
    OBVIOUS
  <2>. QED BY <2>1
<1>. HIDE DEF D, m
<1>3. mm \in Int /\ md \in Int /\ DD \in Int
  BY <1>1
<1>. HIDE DEF mm, md, DD
<1>4. a \in [1..n -> Int] /\ b \in [1..n -> Int] /\ k \in [1..n -> Int]
  <2>1. \A i \in 1..n : mm * q[i] \in Int /\ md * e[i] \in Int
    <3>. TAKE i \in 1..n
    <3>1. q[i] \in Int /\ e[i] \in Int
      BY <1>2
    <3>. HIDE DEF q
    <3>. QED BY <1>3, <3>1
  <2>. HIDE DEF q
  <2>. QED BY <1>3, <2>1
<1>5. ab \in [1..n -> Int]
  <2>1. \A i \in 1..n : a[i] \in Int /\ b[i] \in Int
    BY <1>4
  <2>. HIDE DEF a, b
  <2>. QED BY <2>1
<1>6. Total(a) = mm * Total(q) /\ Total(b) = md * Total(e)
  <2>. HIDE DEF q
  <2>. QED BY <1>1, <1>2, <1>3, TotalTimes
<1>7. Total(ab) = Total(a) + Total(b)
  <2>. HIDE DEF a, b
  <2>1. n \in Nat
    BY <1>1
  <2>. QED BY <1>4, <2>1, TotalPlus
<1>8. Total(k) = n * DD
  BY <1>1, <1>3, TotalSame
<1>9. ASSUME NEW i \in 1..n PROVE d[i] = ab[i] + k[i] /\ d[i] \in Nat
  <2>. DEFINE x == e[i]
              y == m * x + D
  <2>1. x \in Int
    OBVIOUS
  <2>2. ab[i] + k[i] = (mm * (x * x) + md * x) + DD /\ d[i] = y * y
    OBVIOUS
  <2>. HIDE DEF x, d, ab, k
  <2>3. y * y = (mm * (x * x) + md * x) + DD
    BY <1>1, <2>1 DEF mm, md, DD
  <2>4. y \in Int
    BY <1>1, <2>1
  <2>. HIDE DEF y
  <2>5. y * y \in Nat
    BY <2>4, SMT
  <2>. QED BY <2>2, <2>3, <2>5
<1>10. Total(d) = Total(ab) + Total(k)
  <2>1. d = [i \in 1..n |-> ab[i] + k[i]]
    <3>. HIDE DEF ab, k
    <3>. QED BY <1>9
  <2>. HIDE DEF ab, k, d
  <2>2. n \in Nat
    BY <1>1
  <2>. QED BY <1>4, <1>5, <2>1, <2>2, TotalPlus
<1>11. d[j] <= Total(d)
  <2>1. d \in [1..n -> Nat]
    BY <1>9
  <2>. HIDE DEF d
  <2>. QED BY <1>1, <2>1, TotalNat
<1>12. d[j] = (m * D + D) * (m * D + D)
  BY DEF D
<1>13. Total(d) = (mm * (n * spread) + md * 0) + n * DD
  <2>. HIDE DEF d, ab, k, a, b
  <2>. QED BY <1>6, <1>7, <1>8, <1>10
<1>. HIDE DEF d
<1>14. (m * D + D) * (m * D + D) <= (mm * (n * spread) + md * 0) + n * DD
  BY <1>11, <1>12, <1>13
<1>15. m * (D * D) <= m * (m * spread)
  <2>1. (m * D + D) * (m * D + D) = (n * n) * (D * D)
    BY <1>1
  <2>. DEFINE P == D * D
              x == n * P
              y == m * m * spread + P
  <2>2. (mm * (n * spread) + md * 0) + n * DD = n * y
    BY <1>1 DEF mm, md, DD
  <2>3. P \in Int /\ x \in Int /\ y \in Int /\ (n * n) * P = n * x
    BY <1>1
  <2>4. n * x <= n * y
    BY <1>14, <2>1, <2>2, <2>3
  <2>5. x <= y
    <3>. HIDE DEF x, y, P
    <3>. QED BY ONLY <1>1, <2>3, <2>4, n \in Nat \ {0}, SMT
  <2>6. x = m * P + P
    BY <1>1
  <2>7. m * P \in Int /\ m * (m * spread) \in Int /\ m * m * spread = m * (m * spread)
    BY <1>1
  <2>. HIDE DEF P
  <2>. QED BY <2>3, <2>5, <2>6, <2>7 DEF P
<1>16. D * D <= m * spread
  <2>. DEFINE x == D * D
              y == m * spread
  <2>1. x \in Int /\ y \in Int /\ m * x <= m * y
    BY <1>1, <1>15
  <2>. HIDE DEF x, y
  <2>2. x <= y
    BY ONLY <1>1, <2>1, SMT
  <2>. QED BY <2>2 DEF x, y
<1>. QED BY <1>16 DEF D, m

\* How far values spread: as many times their sum of squares less the square
\* of their sum.
SpreadOf(values) ==
    Len(values) * Total([i \in DOMAIN values |-> values[i] * values[i]]) - Total(values) * Total(values)

FarOff(values, z, i) ==
    (Len(values) * values[i] - Total(values)) * (Len(values) * values[i] - Total(values))
        > z * z * SpreadOf(values)

\* Anomalies are the values far off, if there is any spread.
LEMMA AnomaliesAre ==
    ASSUME NEW values, NEW z
    PROVE  DetectAnomalies(values, z) =
               IF Len(values) < 3 \/ SpreadOf(values) = 0 THEN {}
               ELSE {i \in DOMAIN values : FarOff(values, z, i)}
BY DEF DetectAnomalies, SpreadOf, FarOff

\* The spread is no less than nothing, and what a value deviates by is part of it.
LEMMA SpreadIs ==
    ASSUME NEW values \in Seq(Int), Len(values) > 0
    PROVE  LET n == Len(values)
               e == [i \in 1..n |-> n * values[i] - Total(values)]
               d == [i \in 1..n |-> e[i] * e[i]]
           IN  /\ SpreadOf(values) \in Nat /\ Total(values) \in Int
               /\ Total(d) = n * SpreadOf(values) /\ Total(e) = 0
               /\ e \in [1..n -> Int] /\ d \in [1..n -> Nat]
<1>. DEFINE n == Len(values)
            e == [i \in 1..n |-> n * values[i] - Total(values)]
            d == [i \in 1..n |-> e[i] * e[i]]
            f == [i \in 1..n |-> (n * values[i] - Total(values)) * (n * values[i] - Total(values))]
            q == [i \in 1..n |-> values[i] * values[i]]
            spread == SpreadOf(values)
<1>1. n \in Nat \ {0} /\ n \in Nat /\ values \in [1..n -> Int] /\ DOMAIN values = 1..n
  OBVIOUS
<1>2. spread = n * Total(q) - Total(values) * Total(values)
  BY <1>1 DEF SpreadOf
<1>3. /\ Total(values) \in Int /\ Total(q) \in Int /\ Total(e) = 0
      /\ Total(f) = n * (n * Total(q) - Total(values) * Total(values))
  <2>. HIDE DEF n
  <2>. QED BY <1>1, Deviations
<1>4. d = f
  OBVIOUS
<1>5. e \in [1..n -> Int] /\ d \in [1..n -> Nat]
  <2>1. ASSUME NEW i \in 1..n PROVE n * values[i] - Total(values) \in Int
    <3>1. values[i] \in Int /\ n \in Int
      BY <1>1
    <3>. HIDE DEF n
    <3>. QED BY <1>3, <3>1
  <2>2. e \in [1..n -> Int]
    BY <2>1
  <2>3. ASSUME NEW i \in 1..n PROVE e[i] * e[i] \in Nat
    <3>. DEFINE x == e[i]
    <3>1. x \in Int
      BY <2>2
    <3>. HIDE DEF x
    <3>2. x * x \in Nat
      BY <3>1, SMT
    <3>. QED BY <3>2 DEF x
  <2>. HIDE DEF e
  <2>. QED BY <2>2, <2>3
<1>6. spread \in Int
  <2>. HIDE DEF n, q, spread
  <2>. QED BY <1>1, <1>2, <1>3
<1>7. Total(d) = n * spread
  BY <1>2, <1>3, <1>4
<1>8. Total(d) \in Nat
  <2>. HIDE DEF d, n
  <2>. QED BY <1>1, <1>5, TotalNat
<1>9. spread \in Nat
  <2>. HIDE DEF d, n, spread
  <2>. QED BY <1>1, <1>6, <1>7, <1>8, SMT
<1>. QED BY <1>3, <1>5, <1>7, <1>9

\* Chebyshev: few values are far off, none of up to ten by three deviations.
LEMMA FewAnomalies ==
    ASSUME NEW values \in Seq(Int), NEW z \in Nat, Len(values) > 0
    PROVE  /\ Cardinality(DetectAnomalies(values, z)) * z * z < Len(values)
           /\ z = 3 /\ Len(values) <= 10 => DetectAnomalies(values, z) = {}
<1>. DEFINE n == Len(values)
            spread == SpreadOf(values)
            e == [i \in 1..n |-> n * values[i] - Total(values)]
            d == [i \in 1..n |-> e[i] * e[i]]
            found == DetectAnomalies(values, z)
            b == z * z * spread
            over == {i \in 1..n : d[i] > b}
            m == Cardinality(found)
<1>1. n \in Nat \ {0} /\ n \in Nat /\ DOMAIN values = 1..n
  OBVIOUS
<1>2. /\ spread \in Nat /\ Total(values) \in Int /\ Total(d) = n * spread /\ Total(e) = 0
      /\ e \in [1..n -> Int] /\ d \in [1..n -> Nat]
  BY SpreadIs
<1>3. found = IF n < 3 \/ spread = 0 THEN {} ELSE over
  <2>1. \A i \in 1..n : FarOff(values, z, i) <=> d[i] > b
    BY DEF FarOff
  <2>2. {i \in DOMAIN values : FarOff(values, z, i)} = over
    BY <1>1, <2>1
  <2>. HIDE DEF n, over, spread
  <2>. QED BY <2>2, AnomaliesAre DEF n, spread
<1>4. b \in Nat
  <2>. HIDE DEF spread
  <2>1. z * z \in Nat
    OBVIOUS
  <2>. DEFINE zz == z * z
  <2>. HIDE DEF zz
  <2>2. zz * spread \in Nat
    BY <1>2, <2>1 DEF zz
  <2>. QED BY <2>2 DEF zz
<1>. HIDE DEF n, spread, found, e, b
<1>5. Cardinality({}) = 0
  BY FS_EmptySet
<1>6. CASE found = {}
  <2>1. m = 0
    BY <1>5, <1>6
  <2>. HIDE DEF m
  <2>2. m * z * z = 0
    BY <2>1
  <2>. QED BY <1>1, <1>6, <2>2 DEF m, n, found
<1>7. CASE found # {}
  <2>1. found = over /\ spread \in Nat \ {0} /\ n >= 3 /\ over # {}
    <3>. HIDE DEF over
    <3>1. ~(n < 3 \/ spread = 0) /\ found = over
      BY <1>3, <1>7
    <3>2. n \in Int /\ spread \in Nat
      BY <1>1, <1>2
    <3>. QED BY <1>7, <3>1, <3>2
  <2>2. m \in Nat /\ m * b + m <= n * spread /\ m >= 1
    <3>1. Cardinality(over) \in Nat /\ Cardinality(over) * b + Cardinality(over) <= Total(d) /\ Cardinality(over) >= 1
      <4>. HIDE DEF d
      <4>. QED BY <1>1, <1>2, <1>4, <2>1, FewOver, ZenonT(30)
    <3>. HIDE DEF over, d
    <3>. QED BY <1>2, <2>1, <3>1
  <2>. HIDE DEF m
  <2>3. m * z * z < n
    <3>. DEFINE k == m * z * z
                w == k * spread
    <3>1. k \in Int /\ w \in Int /\ m * b = w
      BY <1>2, <2>2 DEF b
    <3>2. w < n * spread
      <4>. HIDE DEF w
      <4>1. n * spread \in Int
        BY <1>1, <1>2
      <4>. QED BY <2>2, <3>1, <4>1
    <3>. HIDE DEF k
    <3>3. k * spread < n * spread
      BY <3>2
    <3>4. k < n
      BY ONLY <1>1, <2>1, <3>1, <3>3, SMT
    <3>. QED BY <3>4 DEF k
  <2>4. ~(z = 3 /\ n <= 10)
    <3>. SUFFICES ASSUME z = 3, n <= 10 PROVE FALSE
      OBVIOUS
    <3>1. PICK j \in 1..n : d[j] > b
      BY <2>1
    <3>2. e[j] * e[j] <= (n - 1) * spread
      <4>1. n > 1 /\ spread \in Int
        BY <1>1, <1>2, <2>1
      <4>. QED BY <1>1, <1>2, <4>1, OneDeviates
    <3>3. e[j] * e[j] > b
      BY <3>1
    <3>4. b = 9 * spread
      BY <1>2 DEF b
    <3>. DEFINE k == n - 1
                D == e[j] * e[j]
    <3>5. k \in Nat /\ k <= 9
      BY <1>1, <2>1
    <3>6. D \in Int
      BY <1>2
    <3>. HIDE DEF k, D
    <3>7. D <= k * spread /\ D > 9 * spread
      BY <3>2, <3>3, <3>4 DEF k, D
    <3>8. k * spread <= 9 * spread /\ k * spread \in Int /\ 9 * spread \in Int
      BY ONLY <1>2, <3>5, SMT
    <3>. QED BY <3>6, <3>7, <3>8
  <2>. QED BY <2>3, <2>4 DEF m, n, found
<1>. QED BY <1>6, <1>7

\* Raising all values by the same leaves their spread and their deviations.
LEMMA RaisedAlike ==
    ASSUME NEW values \in Seq(Int), NEW by \in Int, NEW z \in Nat
    PROVE  DetectAnomalies([i \in 1..Len(values) |-> values[i] + by], z) = DetectAnomalies(values, z)
<1>. DEFINE n == Len(values)
            r == [i \in 1..n |-> values[i] + by]
            q == [i \in 1..n |-> values[i] * values[i]]
            p == [i \in 1..n |-> r[i] * r[i]]
            k == [i \in 1..n |-> by]
            x == [i \in 1..n |-> (2 * by) * values[i]]
            y == [i \in 1..n |-> by * by]
            xy == [i \in 1..n |-> x[i] + y[i]]
<1>1. n \in Nat /\ values \in [1..n -> Int] /\ DOMAIN values = 1..n
  OBVIOUS
<1>. HIDE DEF n
<1>2. r \in [1..n -> Int] /\ Len(r) = n /\ DOMAIN r = 1..n /\ k \in [1..n -> Int]
  <2>1. r \in [1..n -> Int]
    BY <1>1
  <2>2. r \in Seq(Int)
    <3>. HIDE DEF r
    <3>. QED BY <1>1, <2>1
  <2>. QED BY <1>1, <2>1, <2>2
<1>3. q \in [1..n -> Int] /\ x \in [1..n -> Int] /\ y \in [1..n -> Int]
  <2>1. \A i \in 1..n : values[i] * values[i] \in Int /\ (2 * by) * values[i] \in Int
    BY <1>1
  <2>2. by * by \in Int
    OBVIOUS
  <2>. QED BY <2>1, <2>2
<1>4. xy \in [1..n -> Int]
  <2>1. \A i \in 1..n : x[i] \in Int /\ y[i] \in Int
    BY <1>3
  <2>. HIDE DEF x, y
  <2>. QED BY <2>1
<1>5. Total(values) \in Int /\ Total(q) \in Int
  <2>. HIDE DEF q
  <2>. QED BY <1>1, <1>3, SumOf
<1>6. Total(r) = Total(values) + n * by
  <2>1. r = [i \in 1..n |-> values[i] + k[i]]
    OBVIOUS
  <2>2. Total(k) = n * by
    BY <1>1, TotalSame
  <2>. HIDE DEF k, r
  <2>3. Total(r) = Total(values) + Total(k)
    <3>1. n \in Nat /\ values \in [1..n -> Int]
      BY <1>1
    <3>2. k \in [1..n -> Int]
      BY <1>2
    <3>3. Total([i \in 1..n |-> values[i] + k[i]]) = Total(values) + Total(k)
      BY ONLY <3>1, <3>2, TotalPlus
    <3>. QED BY <2>1, <3>3
  <2>. QED BY <2>2, <2>3
<1>7. Total(p) = Total(q) + (2 * by) * Total(values) + n * (by * by)
  <2>1. p = [i \in 1..n |-> q[i] + xy[i]]
    <3>1. ASSUME NEW i \in 1..n PROVE p[i] = q[i] + xy[i]
      <4>. DEFINE v == values[i]
      <4>1. v \in Int
        BY <1>1
      <4>2. p[i] = (v + by) * (v + by) /\ q[i] = v * v /\ xy[i] = (2 * by) * v + by * by
        OBVIOUS
      <4>. HIDE DEF v, p, q, xy
      <4>3. (v + by) * (v + by) = v * v + ((2 * by) * v + by * by)
        BY <4>1
      <4>. QED BY <4>2, <4>3
    <3>. HIDE DEF q, xy, r
    <3>. QED BY <3>1
  <2>2. Total(x) = (2 * by) * Total(values)
    BY <1>1, 2 * by \in Int, TotalTimes
  <2>3. Total(y) = n * (by * by)
    BY <1>1, by * by \in Int, TotalSame
  <2>4. Total(xy) = Total(x) + Total(y)
    <3>. HIDE DEF x, y
    <3>. QED BY <1>1, <1>3, TotalPlus
  <2>5. Total(p) = Total(q) + Total(xy)
    <3>. HIDE DEF p, q, xy
    <3>. QED BY <1>1, <1>3, <1>4, <2>1, TotalPlus
  <2>. DEFINE u == (2 * by) * Total(values)
              w == n * (by * by)
  <2>6. u \in Int /\ w \in Int
    BY <1>1, <1>5
  <2>. HIDE DEF p, q, x, y, xy, u, w
  <2>7. Total(p) = Total(q) + (u + w)
    BY <2>2, <2>3, <2>4, <2>5 DEF u, w
  <2>8. Total(p) = Total(q) + u + w
    BY <1>5, <2>6, <2>7
  <2>. QED BY <2>8 DEF u, w
<1>8. SpreadOf(values) = n * Total(q) - Total(values) * Total(values)
  BY <1>1 DEF SpreadOf, n
<1>9. SpreadOf(r) = n * Total(p) - Total(r) * Total(r)
  <2>. HIDE DEF r
  <2>. QED BY <1>2 DEF SpreadOf
<1>. HIDE DEF p, q
<1>10. SpreadOf(r) = SpreadOf(values)
  <2>. DEFINE S == Total(values)
              Q == Total(q)
  <2>. HIDE DEF S, Q
  <2>1. S \in Int /\ Q \in Int
    BY <1>5 DEF S, Q
  <2>2. n * (Q + (2 * by) * S + n * (by * by)) - (S + n * by) * (S + n * by) = n * Q - S * S
    BY <1>1, <2>1, SMT
  <2>. HIDE DEF r
  <2>. QED BY <1>6, <1>7, <1>8, <1>9, <2>2 DEF S, Q
<1>11. ASSUME NEW i \in 1..n PROVE FarOff(r, z, i) <=> FarOff(values, z, i)
  <2>. DEFINE v == values[i]
              S == Total(values)
  <2>1. v \in Int /\ S \in Int /\ r[i] = v + by
    BY <1>1, <1>5
  <2>. HIDE DEF v, S
  <2>2. n * (v + by) - (S + n * by) = n * v - S
    BY <1>1, <2>1
  <2>. HIDE DEF r
  <2>3. Len(r) * r[i] - Total(r) = Len(values) * values[i] - Total(values)
    BY <1>2, <1>6, <2>1, <2>2 DEF v, S, n
  <2>. QED BY <1>10, <2>3 DEF FarOff
<1>. HIDE DEF r
<1>12. {i \in DOMAIN r : FarOff(r, z, i)} = {i \in DOMAIN values : FarOff(values, z, i)}
  BY <1>1, <1>2, <1>11
<1>13. DetectAnomalies(r, z) = DetectAnomalies(values, z)
  BY <1>2, <1>10, <1>12, AnomaliesAre DEF n
<1>. QED BY <1>13 DEF r, n

\* Listed backwards, values spread and deviate as they do forwards.
LEMMA ReversedAlike ==
    ASSUME NEW values \in Seq(Int), NEW z \in Nat
    PROVE  DetectAnomalies(Reverse(values), z) = {Len(values) + 1 - i : i \in DetectAnomalies(values, z)}
<1>. DEFINE n == Len(values)
            r == Reverse(values)
            q == [i \in 1..n |-> values[i] * values[i]]
            p == [i \in 1..n |-> r[i] * r[i]]
<1>1. n \in Nat /\ values \in [1..n -> Int] /\ DOMAIN values = 1..n
  OBVIOUS
<1>2. r = [i \in 1..n |-> values[(n - i) + 1]]
  BY DEF Reverse
<1>. HIDE DEF n
<1>3. \A i \in 1..n : (n - i) + 1 \in 1..n /\ r[i] = values[(n - i) + 1]
  BY <1>1, <1>2
<1>4. r \in [1..n -> Int] /\ Len(r) = n /\ DOMAIN r = 1..n /\ r \in Seq(Int)
  <2>1. r \in [1..n -> Int]
    BY <1>1, <1>2, <1>3
  <2>. HIDE DEF r
  <2>2. r \in Seq(Int)
    BY <1>1, <2>1
  <2>3. Len(r) = n
    BY <1>1, <2>1, <2>2
  <2>. QED BY <2>1, <2>2, <2>3
<1>5. q \in [1..n -> Int]
  <2>1. \A i \in 1..n : values[i] * values[i] \in Int
    BY <1>1
  <2>. QED BY <2>1
<1>6. Total(r) = Total(values)
  BY <1>1, <1>2, TotalReverse
<1>7. Total(p) = Total(q)
  <2>1. p = [i \in 1..n |-> q[(n - i) + 1]]
    <3>. HIDE DEF r
    <3>. QED BY <1>3
  <2>. HIDE DEF p, q
  <2>. QED BY <1>1, <1>5, <2>1, TotalReverse
<1>. HIDE DEF r
<1>8. SpreadOf(r) = SpreadOf(values)
  <2>1. SpreadOf(values) = n * Total(q) - Total(values) * Total(values)
    BY <1>1 DEF SpreadOf, n
  <2>2. SpreadOf(r) = n * Total(p) - Total(r) * Total(r)
    BY <1>4 DEF SpreadOf
  <2>. HIDE DEF p, q
  <2>. QED BY <1>6, <1>7, <2>1, <2>2
<1>9. \A i \in 1..n : FarOff(r, z, i) <=> FarOff(values, z, (n - i) + 1)
  BY <1>3, <1>4, <1>6, <1>8 DEF FarOff, n
<1>. DEFINE there == {i \in DOMAIN values : FarOff(values, z, i)}
            back == {i \in DOMAIN r : FarOff(r, z, i)}
<1>10. back = {n + 1 - i : i \in there}
  <2>1. ASSUME NEW i \in back PROVE \E j \in there : i = n + 1 - j
    <3>. DEFINE j == (n - i) + 1
    <3>1. i \in 1..n /\ j \in 1..n /\ FarOff(values, z, j)
      BY <1>3, <1>4, <1>9
    <3>2. i = n + 1 - j
      BY <1>1, <3>1
    <3>. HIDE DEF j
    <3>. QED BY <1>1, <3>1, <3>2
  <2>2. ASSUME NEW j \in there PROVE n + 1 - j \in back
    <3>. DEFINE i == (n - j) + 1
    <3>1. j \in 1..n /\ i \in 1..n /\ j = (n - i) + 1 /\ n + 1 - j = i
      BY <1>1
    <3>. HIDE DEF i
    <3>2. FarOff(r, z, i)
      BY <1>9, <3>1
    <3>. QED BY <1>4, <3>1, <3>2
  <2>. HIDE DEF back, there
  <2>. QED BY <2>1, <2>2
<1>11. DetectAnomalies(r, z) = IF n < 3 \/ SpreadOf(values) = 0 THEN {} ELSE back
  BY <1>4, <1>8, AnomaliesAre
<1>12. DetectAnomalies(values, z) = IF n < 3 \/ SpreadOf(values) = 0 THEN {} ELSE there
  BY AnomaliesAre DEF n
<1>. HIDE DEF back, there
<1>13. DetectAnomalies(r, z) = {n + 1 - i : i \in DetectAnomalies(values, z)}
  <2>1. CASE n < 3 \/ SpreadOf(values) = 0
    BY <1>11, <1>12, <2>1
  <2>2. CASE ~(n < 3 \/ SpreadOf(values) = 0)
    BY <1>10, <1>11, <1>12, <2>2
  <2>. QED BY <2>1, <2>2
<1>. QED BY <1>13 DEF r, n

\* The statements about outliers hold for any values and any bound.
THEOREM OutliersHold ==
    ASSUME NEW c, c.values \in Seq(Int), c.z \in Nat
    PROVE  OutliersAreSound(c)
<1>. DEFINE s == c.values
            z == c.z
            n == Len(s)
            found == DetectAnomalies(s, z)
            raised == [i \in 1..n |-> s[i] + 5]
<1>1. s \in Seq(Int) /\ z \in Nat /\ n \in Nat /\ DOMAIN s = 1..n /\ \A i \in 1..n : s[i] \in Int
  OBVIOUS
<1>. HIDE DEF s, z
<1>2. n > 0 => /\ Cardinality(found) * z * z < n
               /\ z = 3 /\ n <= 10 => found = {}
  BY <1>1, FewAnomalies
<1>3. n = 0 => found = {}
  BY AnomaliesAre
<1>4. DetectAnomalies(raised, z) = found
  BY <1>1, 5 \in Int, RaisedAlike
<1>5. DetectAnomalies(Reverse(s), z) = {n + 1 - i : i \in found}
  BY <1>1, ReversedAlike
<1>6. ASSUME NEW i \in 1..n, NEW j \in 1..n, s[i] = s[j] PROVE (i \in found) = (j \in found)
  <2>1. FarOff(s, z, i) <=> FarOff(s, z, j)
    BY <1>6 DEF FarOff
  <2>2. i \in found <=> j \in found
    <3>1. found = IF n < 3 \/ SpreadOf(s) = 0 THEN {} ELSE {k \in 1..n : FarOff(s, z, k)}
      BY <1>1, AnomaliesAre
    <3>. HIDE DEF found
    <3>. QED BY <2>1, <3>1
  <2>. HIDE DEF found
  <2>. QED BY <2>2
<1>7. DetectAnomalies(s, z + 1) \subseteq found
  <2>. SUFFICES ASSUME NEW i \in DetectAnomalies(s, z + 1) PROVE i \in found
    OBVIOUS
  <2>1. ~(n < 3 \/ SpreadOf(s) = 0) /\ i \in 1..n /\ FarOff(s, z + 1, i)
    <3>1. DetectAnomalies(s, z + 1) = IF n < 3 \/ SpreadOf(s) = 0 THEN {}
                                      ELSE {k \in 1..n : FarOff(s, z + 1, k)}
      BY <1>1, AnomaliesAre
    <3>. QED BY <3>1
  <2>2. FarOff(s, z, i)
    <3>. DEFINE spread == SpreadOf(s)
                e == n * s[i] - Total(s)
                ee == e * e
    <3>1. spread \in Nat /\ Total(s) \in Int
      <4>1. Len(s) > 0 /\ s \in Seq(Int)
        BY <1>1, <2>1
      <4>2. SpreadOf(s) \in Nat /\ Total(s) \in Int
        BY ONLY <4>1, SpreadIs
      <4>. QED BY <4>2
    <3>. HIDE DEF spread
    <3>2. e \in Int
      <4>1. n \in Int /\ s[i] \in Int
        BY <1>1, <2>1
      <4>. HIDE DEF n
      <4>. QED BY <3>1, <4>1
    <3>. HIDE DEF e
    <3>3. ee \in Int
      BY <3>2
    <3>4. ee > (z + 1) * (z + 1) * spread
      BY <2>1 DEF FarOff, e, spread
    <3>5. z * z * spread <= (z + 1) * (z + 1) * spread
      BY <1>1, <3>1
    <3>6. z * z * spread \in Int /\ (z + 1) * (z + 1) * spread \in Int
      BY <1>1, <3>1
    <3>. HIDE DEF ee
    <3>7. ee > z * z * spread
      BY <3>3, <3>4, <3>5, <3>6
    <3>. QED BY <3>7 DEF FarOff, ee, e, spread
  <2>3. found = IF n < 3 \/ SpreadOf(s) = 0 THEN {} ELSE {k \in 1..n : FarOff(s, z, k)}
    BY <1>1, AnomaliesAre
  <2>. HIDE DEF found
  <2>. QED BY <2>1, <2>2, <2>3
<1>8. z = 3 /\ n <= 10 => found = {}
  BY <1>1, <1>2, <1>3
<1>. HIDE DEF found, raised
<1>9. \A i, j \in 1..n : s[i] = s[j] => (i \in found) = (j \in found)
  BY <1>6
<1>. QED BY <1>2, <1>4, <1>5, <1>7, <1>8, <1>9 DEF OutliersAreSound, found, raised, n, s, z

-----------------------------------------------------------------------------
(* Thresholds *)

\* The statements about thresholds hold for any numbers.
LEMMA ThresholdHolds ==
    ASSUME NEW c, c.value \in Int, c.threshold \in Int, c.most \in Int
    PROVE  ThresholdIsSound(c)
<1>. DEFINE bi(op) == EvaluateThreshold(c.value, op, c.threshold)
            som(op) == EvaluateCondition(c.value, op, c.threshold, c.most)
<1>1. \A op \in {"gt", "gte", "lt", "lte", "eq"} : bi(op) = som(op)
  BY DEF EvaluateThreshold, EvaluateCondition
<1>2. bi("gt") # bi("lte") /\ bi("gte") # bi("lt") /\ bi("eq") # bi("neq")
  <2>1. (c.value > c.threshold) = ~(c.value <= c.threshold) /\ (c.value >= c.threshold) = ~(c.value < c.threshold)
    OBVIOUS
  <2>2. \A b \in BOOLEAN : (~b) # b
    OBVIOUS
  <2>3. (c.value <= c.threshold) \in BOOLEAN /\ (c.value < c.threshold) \in BOOLEAN
        /\ (c.value = c.threshold) \in BOOLEAN
    OBVIOUS
  <2>4. /\ bi("gt") = (c.value > c.threshold) /\ bi("lte") = (c.value <= c.threshold)
        /\ bi("gte") = (c.value >= c.threshold) /\ bi("lt") = (c.value < c.threshold)
        /\ bi("eq") = (c.value = c.threshold) /\ bi("neq") = ~(c.value = c.threshold)
    BY DEF EvaluateThreshold
  <2>. HIDE DEF bi
  <2>5. bi("gt") # bi("lte")
    BY <2>1, <2>2, <2>3, <2>4
  <2>6. bi("gte") # bi("lt")
    BY <2>1, <2>2, <2>3, <2>4
  <2>7. bi("eq") # bi("neq")
    BY <2>2, <2>3, <2>4
  <2>. QED BY <2>5, <2>6, <2>7
<1>3. som("between") = (som("gte") /\ EvaluateCondition(c.value, "lte", c.most, 0))
  BY DEF EvaluateCondition
<1>4. som("change_rate") = EvaluateCondition(-c.value, "change_rate", c.threshold, c.most)
  <2>1. {c.value, -c.value} = {-c.value, -(-c.value)}
    OBVIOUS
  <2>2. Max({c.value, -c.value}) = Max({-c.value, -(-c.value)})
    BY <2>1
  <2>3. /\ som("change_rate") = (Max({c.value, -c.value}) > c.threshold)
        /\ EvaluateCondition(-c.value, "change_rate", c.threshold, c.most) = (Max({-c.value, -(-c.value)}) > c.threshold)
    BY DEF EvaluateCondition
  <2>. QED BY <2>2, <2>3
<1>5. ~bi("between") /\ ~som("neq")
  BY DEF EvaluateThreshold, EvaluateCondition
<1>. HIDE DEF bi, som
<1>. QED BY <1>1, <1>2, <1>3, <1>4, <1>5 DEF ThresholdIsSound, bi, som

-----------------------------------------------------------------------------
(* Completeness of data *)

StatusOf(n, D) ==
    IF 100 * n >= 99 * D THEN "excellent" ELSE IF 100 * n >= 95 * D THEN "good"
    ELSE IF 100 * n >= 80 * D THEN "warning" ELSE "poor"

\* The status of the completeness of data, by its steps.
LEMMA StatusIs ==
    ASSUME NEW n \in Nat, NEW D \in Nat
    PROVE  <<"poor", "warning", "good", "excellent">>[
               Reached(100 * n, [i \in 1..3 |-> <<80, 95, 99>>[i] * D])] = StatusOf(n, D)
<1>1. [i \in 1..3 |-> <<80, 95, 99>>[i] * D] = <<80 * D, 95 * D, 99 * D>>
  OBVIOUS
<1>. DEFINE x == 100 * n
            a == 80 * D
            b == 95 * D
            d == 99 * D
<1>2. x \in Int /\ a \in Int /\ b \in Int /\ d \in Int /\ a <= b /\ b <= d
  OBVIOUS
<1>. HIDE DEF x, a, b, d
<1>3. Reached(x, <<a, b, d>>) = IF x >= d THEN 4 ELSE IF x >= b THEN 3 ELSE IF x >= a THEN 2 ELSE 1
  BY <1>2, Reached3
<1>4. <<"poor", "warning", "good", "excellent">>[Reached(x, <<a, b, d>>)] =
          IF x >= d THEN "excellent" ELSE IF x >= b THEN "good" ELSE IF x >= a THEN "warning" ELSE "poor"
  BY <1>3
<1>. QED BY <1>1, <1>4 DEF StatusOf, x, a, b, d

StatusRank(s) ==
    LET levels == <<"poor", "warning", "good", "excellent">> IN CHOOSE n \in 1..4 : levels[n] = s

\* The rank of each status.
LEMMA StatusRanks ==
    /\ StatusRank("poor") = 1 /\ StatusRank("warning") = 2
    /\ StatusRank("good") = 3 /\ StatusRank("excellent") = 4
<1>. DEFINE levels == <<"poor", "warning", "good", "excellent">>
<1>1. \A n \in 1..4 : /\ levels[n] = "poor" <=> n = 1
                      /\ levels[n] = "warning" <=> n = 2
                      /\ levels[n] = "good" <=> n = 3
                      /\ levels[n] = "excellent" <=> n = 4
  <2>. TAKE n \in 1..4
  <2>1. n = 1 \/ n = 2 \/ n = 3 \/ n = 4
    OBVIOUS
  <2>. QED BY <2>1
<1>2. 1 \in 1..4 /\ 2 \in 1..4 /\ 3 \in 1..4 /\ 4 \in 1..4
  OBVIOUS
<1>. HIDE DEF levels
<1>3. \A s : StatusRank(s) = CHOOSE n \in 1..4 : levels[n] = s
  BY DEF StatusRank, levels
<1>4. StatusRank("poor") = 1
  BY <1>1, <1>2, <1>3
<1>5. StatusRank("warning") = 2
  BY <1>1, <1>2, <1>3
<1>6. StatusRank("good") = 3
  BY <1>1, <1>2, <1>3
<1>7. StatusRank("excellent") = 4
  BY <1>1, <1>2, <1>3
<1>. QED BY <1>4, <1>5, <1>6, <1>7

\* The status grows with the days that are present.
LEMMA StatusGrows ==
    ASSUME NEW n \in Nat, NEW m \in Nat, n <= m, NEW D \in Nat
    PROVE  StatusRank(StatusOf(n, D)) <= StatusRank(StatusOf(m, D))
<1>. DEFINE x == 100 * n
            y == 100 * m
            a == 80 * D
            b == 95 * D
            d == 99 * D
<1>1. x \in Int /\ y \in Int /\ a \in Int /\ b \in Int /\ d \in Int /\ a <= b /\ b <= d /\ x <= y
  OBVIOUS
<1>. HIDE DEF x, y, a, b, d
<1>. DEFINE rank(z) == IF z >= d THEN 4 ELSE IF z >= b THEN 3 ELSE IF z >= a THEN 2 ELSE 1
<1>2. StatusRank(StatusOf(n, D)) = rank(x)
  <2>1. StatusOf(n, D) = IF x >= d THEN "excellent" ELSE IF x >= b THEN "good"
                         ELSE IF x >= a THEN "warning" ELSE "poor"
    BY DEF StatusOf, x, a, b, d
  <2>. QED BY <2>1, StatusRanks
<1>3. StatusRank(StatusOf(m, D)) = rank(y)
  <2>1. StatusOf(m, D) = IF y >= d THEN "excellent" ELSE IF y >= b THEN "good"
                         ELSE IF y >= a THEN "warning" ELSE "poor"
    BY DEF StatusOf, y, a, b, d
  <2>. QED BY <2>1, StatusRanks
<1>4. rank(x) <= rank(y)
  BY <1>1
<1>. QED BY <1>2, <1>3, <1>4

\* The statements about the completeness of data hold up to the days at which
\* rounding hides one that is missing.
LEMMA PresenceHolds ==
    ASSUME NEW c, c.days \in Nat, c.days < 19999, c.missing \in SUBSET (0..c.days), c.more \in 0..c.days
    PROVE  PresenceIsSound(c)
<1>. DEFINE days == c.days
            D == days + 1
            all == 0..days
            present == all \ c.missing
            fuller == present \cup {c.more}
            n == Cardinality(present)
            m == Cardinality(fuller)
            check(p) == CheckDataCompleteness(p, days)
<1>1. days \in Nat /\ D \in Nat \ {0} /\ D < 20000
  BY SMT
<1>2. IsFiniteSet(all) /\ Cardinality(all) = D
  <2>1. 0 \in Int /\ days \in Int
    OBVIOUS
  <2>. HIDE DEF days
  <2>2. IsFiniteSet(0..days)
    BY ONLY <2>1, FS_Interval
  <2>3. Cardinality(0..days) = IF 0 > days THEN 0 ELSE days - 0 + 1
    BY ONLY <2>1, FS_Interval
  <2>4. Cardinality(0..days) = D
    BY <1>1, <2>3
  <2>. QED BY <2>2, <2>4
<1>3. present \in SUBSET all /\ fuller \in SUBSET all /\ present \in SUBSET fuller /\ all \ present = c.missing
  OBVIOUS
<1>. HIDE DEF days, all, present, fuller
<1>4. IsFiniteSet(present) /\ IsFiniteSet(fuller)
  BY <1>2, <1>3, FS_Subset
<1>5. /\ n \in Nat /\ m \in Nat /\ n <= m /\ n <= D /\ m <= D
      /\ n = D => present = all
  <2>1. n \in Nat /\ m \in Nat
    BY <1>4, FS_CardinalityType
  <2>2. n <= Cardinality(all) /\ (Cardinality(all) = n => all = present)
    BY <1>2, <1>3, FS_Subset
  <2>3. m <= Cardinality(all)
    BY <1>2, <1>3, FS_Subset
  <2>4. n <= m
    BY <1>3, <1>4, FS_Subset
  <2>. QED BY <1>2, <2>1, <2>2, <2>3, <2>4
<1>6. present = all <=> c.missing = {}
  BY <1>3
<1>7. present = all => n = D
  BY <1>2
<1>8. check(present).missing = c.missing
  BY <1>3 DEF CheckDataCompleteness, all
<1>9. check(present).status = StatusOf(n, D) /\ check(fuller).status = StatusOf(m, D)
  <2>1. present \cap all = present /\ fuller \cap all = fuller
    BY <1>3
  <2>2. \A p : check(p).status = <<"poor", "warning", "good", "excellent">>[
             Reached(100 * Cardinality(p \cap all), [i \in 1..3 |-> <<80, 95, 99>>[i] * D])]
    BY DEF CheckDataCompleteness, all
  <2>. HIDE DEF check
  <2>. DEFINE level(k) == <<"poor", "warning", "good", "excellent">>[
                              Reached(100 * k, [i \in 1..3 |-> <<80, 95, 99>>[i] * D])]
  <2>3. check(present).status = level(n) /\ check(fuller).status = level(m)
    BY <2>1, <2>2
  <2>4. level(n) = StatusOf(n, D) /\ level(m) = StatusOf(m, D)
    <3>. HIDE DEF n, m, D
    <3>. QED BY <1>1, <1>5, StatusIs
  <2>. HIDE DEF level
  <2>. QED BY <2>3, <2>4
<1>10. check(present).rate = Rounded(10000 * n, D)
  <2>1. present \cap all = present
    BY <1>3
  <2>2. check(present).rate = Rounded(10000 * Cardinality(present \cap all), D)
    BY DEF CheckDataCompleteness, all
  <2>. DEFINE rate(k) == Rounded(10000 * k, D)
  <2>3. check(present).rate = rate(Cardinality(present \cap all))
    BY <2>2
  <2>. HIDE DEF check, rate
  <2>4. check(present).rate = rate(n)
    BY <2>1, <2>3
  <2>. QED BY <2>4 DEF rate
<1>. HIDE DEF check, n, m
<1>11. StatusRank(check(present).status) <= StatusRank(check(fuller).status)
  <2>. HIDE DEF D
  <2>. QED BY <1>1, <1>5, <1>9, StatusGrows
<1>12. days < 99 => ((check(present).status = "excellent") <=> (c.missing = {}))
  <2>. SUFFICES ASSUME days < 99 PROVE (check(present).status = "excellent") <=> (c.missing = {})
    OBVIOUS
  <2>1. StatusOf(n, D) = "excellent" <=> 100 * n >= 99 * D
    BY DEF StatusOf
  <2>2. 100 * n >= 99 * D <=> n = D
    BY <1>1, <1>5
  <2>. HIDE DEF D
  <2>. QED BY <1>5, <1>6, <1>7, <1>9, <2>1, <2>2
<1>13. Rounded(10000 * n, D) = 10000 <=> n = D
  <2>. DEFINE y == 10000 * n
              r == Rounded(y, D)
  <2>1. y \in Int
    BY <1>5, SMT
  <2>. HIDE DEF y
  <2>2. r \in Int /\ 2 * D * r <= 2 * y + D /\ 2 * y + D < 2 * D * r + 2 * D
    <3>. HIDE DEF D
    <3>. QED BY ONLY <1>1, <2>1, Rounds DEF r
  <2>. HIDE DEF r, D
  <2>3. ASSUME r = 10000 PROVE n = D
    <3>1. 2 * D * 10000 <= 2 * y + D
      BY <2>2, <2>3
    <3>2. 20000 * D <= 20000 * n + D
      BY <1>1, <1>5, <3>1, SMT DEF y
    <3>. QED BY ONLY <1>1, <1>5, <3>2, SMT
  <2>4. ASSUME n = D PROVE r = 10000
    <3>. DEFINE ten == 10000
                t == 2 * y + D
                d == 2 * D
    <3>1. ten \in Int /\ t \in Int /\ d \in Nat \ {0} /\ d * ten <= t /\ t < d * ten + d
      BY <1>1, <2>1, <2>4, SMT DEF y
    <3>2. t \div d = ten
      <4>. HIDE DEF ten, t, d
      <4>. QED BY ONLY <3>1, DivIs, SMT
    <3>. QED BY <3>2, SMT DEF r, Rounded
  <2>. QED BY <2>3, <2>4 DEF r, y
<1>14. (check(present).rate = 10000) <=> (c.missing = {})
  <2>. HIDE DEF D
  <2>. QED BY <1>5, <1>6, <1>7, <1>10, <1>13
<1>. QED BY <1>8, <1>11, <1>12, <1>14 DEF PresenceIsSound, StatusRank, check, present, fuller, all, days

-----------------------------------------------------------------------------
(* Master data *)

\* The rules of master data about the fields f and g; a value that fits the
\* rule, if there is such a rule, is among what it takes.
MasterRuleSet(V) ==
    {rule \in [type : {"completeness", "range", "format"}, fields : Seq({"f", "g"}), fit : SUBSET V, active : BOOLEAN] :
        /\ rule.type = "range" => rule.fit = {} \/ "x" \in rule.fit
        /\ rule.type = "format" => "x" \in rule.fit}

MasterRecordSet(F, V) == UNION {[known -> V] : known \in SUBSET F}

ValueOf(record, f) == IF f \in DOMAIN record THEN record[f] ELSE ""

Complains(rule, value) ==
    \/ rule.type = "completeness" /\ value = ""
    \/ rule.type = "range" /\ rule.fit # {} /\ value # "" /\ value \notin rule.fit
    \/ rule.type = "format" /\ value # "" /\ value \notin rule.fit

Issue(rule) == CASE rule.type = "completeness" -> "missing_required"
                 [] rule.type = "range" -> "invalid_value" [] OTHER -> "format_mismatch"

FaultyFields(rule, record) == {i \in 1..Len(rule.fields) : Complains(rule, ValueOf(record, rule.fields[i]))}

\* A rule reports the first of the fields it complains of.
LEMMA FaultIs ==
    ASSUME NEW V, NEW rule \in MasterRuleSet(V), NEW record
    PROVE  EvaluateRule(rule, record) =
               IF FaultyFields(rule, record) = {} THEN {}
               ELSE {[field |-> rule.fields[Min(FaultyFields(rule, record))], issue |-> Issue(rule)]}
<1>. DEFINE blank == SelectInSeq(rule.fields, LAMBDA f : ValueOf(record, f) = "")
            faulty == SelectInSeq(rule.fields, LAMBDA f : ValueOf(record, f) # "" /\ ValueOf(record, f) \notin rule.fit)
            n == Len(rule.fields)
            B == {i \in 1..n : ValueOf(record, rule.fields[i]) = ""}
            X == {i \in 1..n : ValueOf(record, rule.fields[i]) # "" /\ ValueOf(record, rule.fields[i]) \notin rule.fit}
            I == FaultyFields(rule, record)
            fault(i, issue) == IF i = 0 THEN {} ELSE {[field |-> rule.fields[i], issue |-> issue]}
<1>1. n \in Nat
  BY DEF MasterRuleSet
<1>2. blank = (IF B # {} THEN Min(B) ELSE 0) /\ faulty = (IF X # {} THEN Min(X) ELSE 0)
  BY DEF SelectInSeq
<1>3. EvaluateRule(rule, record) =
          CASE rule.type = "completeness" -> fault(blank, "missing_required")
            [] rule.type = "range" -> IF rule.fit = {} THEN {} ELSE fault(faulty, "invalid_value")
            [] rule.type = "format" -> fault(faulty, "format_mismatch")
  BY DEF EvaluateRule, ValueOf
<1>4. B \in SUBSET (1..n) /\ X \in SUBSET (1..n)
  OBVIOUS
<1>5. rule.type = "completeness" \/ rule.type = "range" \/ rule.type = "format"
  BY DEF MasterRuleSet
<1>6. /\ rule.type = "completeness" => I = B
      /\ rule.type = "range" => I = IF rule.fit = {} THEN {} ELSE X
      /\ rule.type = "format" => I = X
  BY DEF FaultyFields, Complains
<1>. HIDE DEF B, X, I, n, blank, faulty
<1>7. (B # {} => Min(B) # 0) /\ (X # {} => Min(X) # 0)
  <2>1. ASSUME NEW T \in SUBSET (1..n), T # {} PROVE Min(T) # 0
    <3>1. T \in SUBSET Nat
      BY <1>1
    <3>2. Min(T) \in T
      BY <2>1, <3>1, MinOf
    <3>3. Min(T) \in 1..n
      BY <3>2
    <3>. QED BY <1>1, <3>3
  <2>. QED BY <1>4, <2>1
<1>8. CASE rule.type = "completeness"
  <2>1. EvaluateRule(rule, record) = fault(blank, "missing_required") /\ I = B /\ Issue(rule) = "missing_required"
    <3>. HIDE DEF fault
    <3>. QED BY <1>3, <1>6, <1>8 DEF Issue
  <2>. QED BY <1>2, <1>7, <2>1 DEF I
<1>9. CASE rule.type = "range"
  <2>1. /\ EvaluateRule(rule, record) = IF rule.fit = {} THEN {} ELSE fault(faulty, "invalid_value")
        /\ I = IF rule.fit = {} THEN {} ELSE X
        /\ Issue(rule) = "invalid_value"
    <3>. HIDE DEF fault
    <3>. QED BY <1>3, <1>6, <1>9 DEF Issue
  <2>. QED BY <1>2, <1>7, <2>1 DEF I
<1>10. CASE rule.type = "format"
  <2>1. EvaluateRule(rule, record) = fault(faulty, "format_mismatch") /\ I = X /\ Issue(rule) = "format_mismatch"
    <3>. HIDE DEF fault
    <3>. QED BY <1>3, <1>6, <1>10 DEF Issue
  <2>. QED BY <1>2, <1>7, <2>1 DEF I
<1>. QED BY <1>5, <1>8, <1>9, <1>10

\* What holds of the fault of a rule.
LEMMA FaultHolds ==
    ASSUME NEW V, NEW rule \in MasterRuleSet(V), NEW record, NEW fault \in EvaluateRule(rule, record)
    PROVE  /\ EvaluateRule(rule, record) = {fault}
           /\ fault.field \in {"f", "g"}
           /\ \A other : ValueOf(other, fault.field) = "x" => fault \notin EvaluateRule(rule, other)
<1>. DEFINE I == FaultyFields(rule, record)
            m == Min(I)
<1>1. I \in SUBSET (1..Len(rule.fields)) /\ Len(rule.fields) \in Nat /\ rule.fields \in Seq({"f", "g"})
  BY DEF FaultyFields, MasterRuleSet
<1>2. I # {} /\ EvaluateRule(rule, record) = {[field |-> rule.fields[m], issue |-> Issue(rule)]}
  <2>. HIDE DEF I
  <2>. QED BY FaultIs DEF I
<1>3. m \in 1..Len(rule.fields)
  <2>1. I \in SUBSET Nat
    BY <1>1
  <2>2. m \in I
    <3>. HIDE DEF I
    <3>. QED BY <1>2, <2>1, MinOf
  <2>. QED BY <1>1, <2>2
<1>. HIDE DEF m, I
<1>4. fault = [field |-> rule.fields[m], issue |-> Issue(rule)] /\ fault.field = rule.fields[m]
  BY <1>2
<1>5. fault.field \in {"f", "g"}
  BY <1>1, <1>3, <1>4
<1>6. ASSUME NEW other, ValueOf(other, fault.field) = "x" PROVE fault \notin EvaluateRule(rule, other)
  <2>. DEFINE J == FaultyFields(rule, other)
              k == Min(J)
  <2>1. SUFFICES ASSUME fault \in EvaluateRule(rule, other) PROVE FALSE
    OBVIOUS
  <2>2. J # {} /\ EvaluateRule(rule, other) = {[field |-> rule.fields[k], issue |-> Issue(rule)]}
    <3>. HIDE DEF J
    <3>. QED BY <2>1, FaultIs DEF J
  <2>3. k \in J
    <3>1. J \in SUBSET Nat
      BY <1>1 DEF FaultyFields
    <3>. HIDE DEF J
    <3>. QED BY <2>2, <3>1, MinOf
  <2>4. fault.field = rule.fields[k]
    <3>. HIDE DEF k
    <3>. QED BY <2>1, <2>2
  <2>5. Complains(rule, ValueOf(other, rule.fields[k]))
    <3>. HIDE DEF k
    <3>. QED BY <2>3 DEF FaultyFields
  <2>6. Complains(rule, "x")
    <3>. HIDE DEF k
    <3>. QED BY <1>6, <2>4, <2>5
  <2>7. "x" # ""
    OBVIOUS
  <2>. QED BY <2>6, <2>7 DEF Complains, MasterRuleSet
<1>. QED BY <1>2, <1>4, <1>5, <1>6

\* The statements about rules of master data hold for any rules and records.
LEMMA MasterHolds ==
    ASSUME NEW V, NEW F, NEW c, c.rules \in Seq(MasterRuleSet(V)), c.record \in MasterRecordSet(F, V)
    PROVE  MasterIsSound(c)
<1>. DEFINE faults(record) == ValidateRecord(c.rules, record)
            filled(f) == [g \in DOMAIN c.record \cup {f} |-> IF g = f THEN "x" ELSE c.record[g]]
            blanks == [g \in DOMAIN c.record \cup {"f", "g"} |-> IF g \in DOMAIN c.record THEN c.record[g] ELSE ""]
            full == [f \in {"f", "g"} |-> "x"]
            n == Len(c.rules)
<1>1. /\ n \in Nat /\ DOMAIN c.rules = 1..n /\ \A i \in 1..n : c.rules[i] \in MasterRuleSet(V)
  OBVIOUS
<1>2. \A record : \A i \in 1..n : faults(record)[i] = IF c.rules[i].active THEN EvaluateRule(c.rules[i], record) ELSE {}
  BY <1>1 DEF ValidateRecord
<1>. HIDE DEF faults, n
<1>3. ASSUME NEW i \in 1..n, NEW fault \in faults(c.record)[i]
      PROVE  /\ c.rules[i].active /\ faults(c.record)[i] = {fault}
             /\ fault \notin faults(filled(fault.field))[i]
  <2>1. c.rules[i].active /\ fault \in EvaluateRule(c.rules[i], c.record)
        /\ faults(c.record)[i] = EvaluateRule(c.rules[i], c.record)
    BY <1>2, <1>3
  <2>2. c.rules[i] \in MasterRuleSet(V)
    BY <1>1
  <2>3. /\ EvaluateRule(c.rules[i], c.record) = {fault}
        /\ \A other : ValueOf(other, fault.field) = "x" => fault \notin EvaluateRule(c.rules[i], other)
    BY <2>1, <2>2, FaultHolds
  <2>4. ValueOf(filled(fault.field), fault.field) = "x"
    BY DEF ValueOf
  <2>. HIDE DEF filled
  <2>5. faults(filled(fault.field))[i] = EvaluateRule(c.rules[i], filled(fault.field))
    BY <1>2, <2>1
  <2>. QED BY <2>1, <2>3, <2>4, <2>5
<1>4. \A i \in 1..n : Cardinality(faults(c.record)[i]) <= 1
  <2>. TAKE i \in 1..n
  <2>1. CASE faults(c.record)[i] = {}
    <3>1. Cardinality(faults(c.record)[i]) = 0
      BY <2>1, FS_EmptySet
    <3>. QED BY <3>1
  <2>2. CASE faults(c.record)[i] # {}
    <3>1. PICK fault : faults(c.record)[i] = {fault}
      BY <1>3, <2>2
    <3>2. Cardinality(faults(c.record)[i]) = 1
      BY <3>1, FS_Singleton
    <3>. QED BY <3>2
  <2>. QED BY <2>1, <2>2
<1>5. ASSUME NEW i \in 1..n PROVE \A k \in 1..Len(c.rules[i].fields) : c.rules[i].fields[k] \in {"f", "g"}
  <2>1. c.rules[i].fields \in Seq({"f", "g"})
    BY <1>1 DEF MasterRuleSet
  <2>. QED BY <2>1
<1>6. faults(blanks) = faults(c.record)
  <2>1. \A f \in {"f", "g"} : ValueOf(blanks, f) = ValueOf(c.record, f)
    BY DEF ValueOf
  <2>. HIDE DEF blanks
  <2>2. ASSUME NEW i \in 1..n PROVE faults(blanks)[i] = faults(c.record)[i]
    <3>1. FaultyFields(c.rules[i], blanks) = FaultyFields(c.rules[i], c.record)
      BY <1>5, <2>1 DEF FaultyFields
    <3>2. c.rules[i] \in MasterRuleSet(V)
      BY <1>1
    <3>3. EvaluateRule(c.rules[i], blanks) = EvaluateRule(c.rules[i], c.record)
      BY <3>1, <3>2, FaultIs
    <3>. QED BY <1>2, <3>3
  <2>3. \A record : faults(record) = [i \in 1..n |-> faults(record)[i]]
    BY <1>1 DEF faults, ValidateRecord
  <2>. QED BY <2>2, <2>3
<1>7. \A i \in 1..n : faults(full)[i] = {}
  <2>. TAKE i \in 1..n
  <2>1. c.rules[i] \in MasterRuleSet(V)
    BY <1>1
  <2>2. \A f \in {"f", "g"} : ValueOf(full, f) = "x"
    BY DEF ValueOf
  <2>. HIDE DEF full
  <2>3. ~ Complains(c.rules[i], "x")
    <3>1. "x" # ""
      OBVIOUS
    <3>. QED BY <2>1, <3>1 DEF Complains, MasterRuleSet
  <2>4. FaultyFields(c.rules[i], full) = {}
    BY <1>5, <2>2, <2>3 DEF FaultyFields
  <2>5. EvaluateRule(c.rules[i], full) = {}
    BY <2>1, <2>4, FaultIs
  <2>. QED BY <1>2, <2>5
<1>8. \A i \in DOMAIN c.rules : \A fault \in faults(c.record)[i] :
          /\ c.rules[i].active
          /\ fault \notin faults(filled(fault.field))[i]
  <2>. HIDE DEF filled
  <2>. QED BY <1>1, <1>3
<1>9. \A i \in DOMAIN c.rules : Cardinality(faults(c.record)[i]) <= 1 /\ faults(full)[i] = {}
  <2>. HIDE DEF full
  <2>. QED BY <1>1, <1>4, <1>7
<1>. HIDE DEF filled, blanks, full
<1>. QED BY <1>6, <1>8, <1>9 DEF MasterIsSound, faults, filled, blanks, full

-----------------------------------------------------------------------------
(* Reviews *)

\* Without its i-th element a list has the others.
LEMMA RemovedAt ==
    ASSUME NEW A, NEW s \in Seq(A), NEW i \in 1..Len(s)
    PROVE  LET t == RemoveAt(s, i) IN
           /\ t \in Seq(A) /\ Len(t) = Len(s) - 1
           /\ \A k \in 1..Len(t) : t[k] = IF k < i THEN s[k] ELSE s[k + 1]
<1>. DEFINE n == Len(s)
            a == SubSeq(s, 1, i - 1)
            b == SubSeq(s, i + 1, n)
            t == a \o b
<1>1. n \in Nat /\ i \in 1..n
  OBVIOUS
<1>2. a \in Seq(A) /\ Len(a) = i - 1 /\ \A k \in 1..i - 1 : a[k] = s[k]
  OBVIOUS
<1>3. b \in Seq(A) /\ Len(b) = n - i /\ \A k \in 1..n - i : b[k] = s[i + k]
  <2>1. b \in Seq(A) /\ Len(b) = n - i
    <3>1. \A j \in i + 1..n : s[j] \in A
      OBVIOUS
    <3>2. Len(b) = IF i + 1 <= n THEN n - (i + 1) + 1 ELSE 0
      BY <1>1
    <3>3. b \in Seq(A)
      BY <1>1, <3>1
    <3>. HIDE DEF b
    <3>. QED BY <1>1, <3>2, <3>3
  <2>2. \A k \in 1..n - i : b[k] = s[i + k]
    BY <1>1
  <2>. QED BY <2>1, <2>2
<1>. HIDE DEF a, b
<1>4. t \in Seq(A) /\ Len(t) = n - 1
  <2>1. t \in Seq(A) /\ Len(t) = Len(a) + Len(b)
    <3>1. a \in Seq(A) /\ b \in Seq(A)
      BY <1>2, <1>3
    <3>. QED BY ONLY <3>1 DEF t
  <2>. HIDE DEF t
  <2>. QED BY <1>1, <1>2, <1>3, <2>1
<1>5. ASSUME NEW k \in 1..n - 1 PROVE t[k] = IF k < i THEN s[k] ELSE s[k + 1]
  <2>1. CASE k < i
    <3>1. k \in 1..i - 1
      BY <1>1, <2>1
    <3>2. t[k] = a[k]
      BY <1>1, <1>2, <1>3, <3>1
    <3>. QED BY <1>2, <2>1, <3>1, <3>2
  <2>2. CASE ~(k < i)
    <3>. DEFINE j == k - (i - 1)
    <3>1. j \in 1..n - i /\ i + j = k + 1
      BY <1>1, <2>2
    <3>2. t[k] = b[j]
      BY <1>1, <1>2, <1>3, <2>2, <3>1
    <3>. HIDE DEF j, t
    <3>3. t[k] = s[k + 1]
      BY <1>3, <3>1, <3>2
    <3>. QED BY <2>2, <3>3
  <2>. QED BY <2>1, <2>2
<1>6. t = RemoveAt(s, i)
  BY DEF RemoveAt, a, b, n
<1>. HIDE DEF t
<1>7. /\ t \in Seq(A) /\ Len(t) = Len(s) - 1
      /\ \A k \in 1..Len(t) : t[k] = IF k < i THEN s[k] ELSE s[k + 1]
  BY <1>4, <1>5 DEF n
<1>. QED BY <1>6, <1>7

\* What is left when one is removed are the others.
LEMMA RemovedElements ==
    ASSUME NEW A, NEW s \in Seq(A), NEW i \in 1..Len(s)
    PROVE  LET t == RemoveAt(s, i) IN
           /\ t \in Seq(A)
           /\ \A k \in 1..Len(t) : \E j \in 1..Len(s) : j # i /\ t[k] = s[j]
           /\ \A j \in 1..Len(s) : j # i => \E k \in 1..Len(t) : t[k] = s[j]
<1>. DEFINE t == RemoveAt(s, i)
            n == Len(s)
<1>1. n \in Nat /\ i \in 1..n
  OBVIOUS
<1>2. /\ t \in Seq(A) /\ Len(t) = n - 1
      /\ \A k \in 1..Len(t) : t[k] = IF k < i THEN s[k] ELSE s[k + 1]
  BY RemovedAt
<1>. HIDE DEF t, n
<1>3. \A k \in 1..Len(t) : \E j \in 1..n : j # i /\ t[k] = s[j]
  <2>. TAKE k \in 1..Len(t)
  <2>1. CASE k < i
    <3>1. k \in 1..n /\ k # i
      BY <1>1, <1>2, <2>1
    <3>. QED BY <1>2, <2>1, <3>1
  <2>2. CASE ~(k < i)
    <3>1. k + 1 \in 1..n /\ k + 1 # i
      BY <1>1, <1>2, <2>2
    <3>. QED BY <1>2, <2>2, <3>1
  <2>. QED BY <2>1, <2>2
<1>4. \A j \in 1..n : j # i => \E k \in 1..Len(t) : t[k] = s[j]
  <2>. SUFFICES ASSUME NEW j \in 1..n, j # i PROVE \E k \in 1..Len(t) : t[k] = s[j]
    OBVIOUS
  <2>1. CASE j < i
    <3>1. j \in 1..Len(t)
      BY <1>1, <1>2, <2>1
    <3>. QED BY <1>2, <2>1, <3>1
  <2>2. CASE ~(j < i)
    <3>. DEFINE k == j - 1
    <3>1. k \in 1..Len(t) /\ ~(k < i) /\ k + 1 = j
      BY <1>1, <1>2, <2>2
    <3>. HIDE DEF k
    <3>. QED BY <1>2, <3>1
  <2>. QED BY <2>1, <2>2
<1>. QED BY <1>2, <1>3, <1>4 DEF t, n

ReviewRuleSet(L) ==
    [active : BOOLEAN, found : BOOLEAN, language : L, kind : {"text", "image", "any"},
     severity : {"warning", "critical"}]

\* A rule is violated whatever its place in the list.
Hits(rule, language, other) ==
    /\ rule.active /\ rule.found
    /\ rule.language \in {"*", language} \/ language = "any"
    /\ rule.kind # other

Outcome(rules, language, other) == ReviewResult(rules, Violated(rules, language, other))

Rank(result) == CASE result = "reject" -> 3 [] result = "warning" -> 2 [] OTHER -> 1

\* A review ends by what the worst rule that is hit says.
LEMMA OutcomeIs ==
    ASSUME NEW rules, NEW language, NEW other
    PROVE  LET any == \E i \in DOMAIN rules : Hits(rules[i], language, other)
               grave == \E i \in DOMAIN rules : Hits(rules[i], language, other) /\ rules[i].severity = "critical"
           IN  /\ ~any => Outcome(rules, language, other) = "pass"
               /\ grave => Outcome(rules, language, other) = "reject"
               /\ any /\ ~grave => Outcome(rules, language, other) = "warning"
<1>. DEFINE V == Violated(rules, language, other)
<1>1. V = {i \in DOMAIN rules : Hits(rules[i], language, other)}
  BY DEF Violated, Hits
<1>. HIDE DEF V, Hits
<1>2. Outcome(rules, language, other) =
          IF V = {} THEN "pass" ELSE IF \E i \in V : rules[i].severity = "critical" THEN "reject" ELSE "warning"
  BY DEF Outcome, ReviewResult, V
<1>. QED BY <1>1, <1>2

\* A list with all that another has is judged no more leniently.
LEMMA MoreRules ==
    ASSUME NEW fewer, NEW more, NEW language, NEW other,
           \A i \in DOMAIN fewer : Hits(fewer[i], language, other)
               => \E j \in DOMAIN more : more[j] = fewer[i]
    PROVE  Rank(Outcome(fewer, language, other)) <= Rank(Outcome(more, language, other))
<1>. DEFINE any(rules) == \E i \in DOMAIN rules : Hits(rules[i], language, other)
            grave(rules) == \E i \in DOMAIN rules : Hits(rules[i], language, other) /\ rules[i].severity = "critical"
<1>1. (any(fewer) => any(more)) /\ (grave(fewer) => grave(more))
  <2>. HIDE DEF Hits
  <2>. QED OBVIOUS
<1>2. \A rules \in {fewer, more} : /\ ~any(rules) => Outcome(rules, language, other) = "pass"
                                   /\ grave(rules) => Outcome(rules, language, other) = "reject"
                                   /\ any(rules) /\ ~grave(rules) => Outcome(rules, language, other) = "warning"
  BY OutcomeIs
<1>3. \A rules \in {fewer, more} : grave(rules) => any(rules)
  OBVIOUS
<1>4. Rank("pass") = 1 /\ Rank("warning") = 2 /\ Rank("reject") = 3
  BY DEF Rank
<1>. HIDE DEF any, grave, Rank
<1>. DEFINE a == Outcome(fewer, language, other)
            b == Outcome(more, language, other)
<1>. HIDE DEF a, b
<1>5. /\ ~any(fewer) => a = "pass"
      /\ grave(fewer) => a = "reject"
      /\ any(fewer) /\ ~grave(fewer) => a = "warning"
      /\ ~any(more) => b = "pass"
      /\ grave(more) => b = "reject"
      /\ any(more) /\ ~grave(more) => b = "warning"
  BY <1>2 DEF a, b
<1>6. Rank(a) <= Rank(b)
  <2>1. CASE ~any(fewer)
    BY <1>3, <1>4, <1>5, <2>1
  <2>2. CASE grave(fewer)
    BY <1>1, <1>4, <1>5, <2>2
  <2>3. CASE any(fewer) /\ ~grave(fewer)
    BY <1>1, <1>3, <1>4, <1>5, <2>3
  <2>. QED BY <2>1, <2>2, <2>3
<1>. QED BY <1>6 DEF a, b

\* Lists with the same violated rules are judged alike.
LEMMA SameRules ==
    ASSUME NEW one, NEW two, NEW language, NEW other,
           \A i \in DOMAIN one : Hits(one[i], language, other) => \E j \in DOMAIN two : two[j] = one[i],
           \A i \in DOMAIN two : Hits(two[i], language, other) => \E j \in DOMAIN one : one[j] = two[i]
    PROVE  Outcome(one, language, other) = Outcome(two, language, other)
<1>. DEFINE any(rules) == \E i \in DOMAIN rules : Hits(rules[i], language, other)
            grave(rules) == \E i \in DOMAIN rules : Hits(rules[i], language, other) /\ rules[i].severity = "critical"
<1>1. (any(one) <=> any(two)) /\ (grave(one) <=> grave(two)) /\ (grave(one) => any(one))
  <2>. HIDE DEF Hits
  <2>. QED OBVIOUS
<1>2. \A rules \in {one, two} : /\ ~any(rules) => Outcome(rules, language, other) = "pass"
                                /\ grave(rules) => Outcome(rules, language, other) = "reject"
                                /\ any(rules) /\ ~grave(rules) => Outcome(rules, language, other) = "warning"
  BY OutcomeIs
<1>. HIDE DEF any, grave
<1>. QED BY <1>1, <1>2

\* The statements about reviews hold for any rules and language.
LEMMA ReviewHolds ==
    ASSUME NEW L, "any" \notin L, NEW c, c.language \in L, c.rules \in Seq(ReviewRuleSet(L))
    PROVE  ReviewIsSound(c)
<1>. DEFINE s == c.rules
            l == c.language
            n == Len(s)
            A == ReviewRuleSet(L)
            back == Reverse(s)
            text(rules) == Outcome(rules, l, "image")
            image(rules) == Outcome(rules, "any", "text")
            less(i) == RemoveAt(s, i)
<1>1. s \in Seq(A) /\ n \in Nat /\ DOMAIN s = 1..n /\ l # "any"
  OBVIOUS
<1>. HIDE DEF s, l
<1>2. \A i \in 1..n : s[i] \in A
  BY <1>1
<1>3. /\ DOMAIN back = 1..n
      /\ \A i \in 1..n : /\ (n - i) + 1 \in 1..n /\ back[i] = s[(n - i) + 1]
                         /\ s[i] = back[(n - i) + 1]
  <2>1. back = [i \in 1..n |-> s[(n - i) + 1]]
    BY DEF Reverse
  <2>2. \A i \in 1..n : (n - i) + 1 \in 1..n /\ (n - ((n - i) + 1)) + 1 = i
    BY <1>1
  <2>. HIDE DEF back, n
  <2>. QED BY <2>1, <2>2
<1>4. text(back) = text(s) /\ image(back) = image(s)
  <2>1. \A i \in DOMAIN back : \E j \in DOMAIN s : s[j] = back[i]
    BY <1>1, <1>3
  <2>2. \A i \in DOMAIN s : \E j \in DOMAIN back : back[j] = s[i]
    BY <1>1, <1>3
  <2>. HIDE DEF back
  <2>. QED BY <2>1, <2>2, SameRules
<1>5. ASSUME NEW i \in 1..n
      PROVE  /\ \A k \in DOMAIN less(i) : \E j \in DOMAIN s : j # i /\ s[j] = less(i)[k]
             /\ \A j \in DOMAIN s : j # i => \E k \in DOMAIN less(i) : less(i)[k] = s[j]
  <2>. HIDE DEF A
  <2>1. /\ less(i) \in Seq(A)
        /\ \A k \in 1..Len(less(i)) : \E j \in 1..Len(s) : j # i /\ less(i)[k] = s[j]
        /\ \A j \in 1..Len(s) : j # i => \E k \in 1..Len(less(i)) : less(i)[k] = s[j]
    BY <1>1, RemovedElements
  <2>. HIDE DEF less
  <2>2. DOMAIN less(i) = 1..Len(less(i))
    BY <2>1
  <2>. QED BY <1>1, <2>1, <2>2
<1>. HIDE DEF less, back
<1>6. ASSUME NEW i \in 1..n
      PROVE  /\ Rank(text(less(i))) <= Rank(text(s)) /\ Rank(image(less(i))) <= Rank(image(s))
             /\ ~Hits(s[i], l, "image") => text(less(i)) = text(s)
             /\ ~Hits(s[i], "any", "text") => image(less(i)) = image(s)
  <2>. HIDE DEF n
  <2>1. \A k \in DOMAIN less(i) : \E j \in DOMAIN s : s[j] = less(i)[k]
    BY <1>5
  <2>2. Rank(text(less(i))) <= Rank(text(s)) /\ Rank(image(less(i))) <= Rank(image(s))
    BY <2>1, MoreRules
  <2>3. ASSUME NEW language, NEW other, ~Hits(s[i], language, other)
        PROVE  Outcome(less(i), language, other) = Outcome(s, language, other)
    <3>1. \A j \in DOMAIN s : Hits(s[j], language, other) => \E k \in DOMAIN less(i) : less(i)[k] = s[j]
      BY <1>5, <2>3
    <3>. QED BY <2>1, <3>1, SameRules
  <2>. QED BY <2>2, <2>3
<1>7. ASSUME NEW i \in 1..n
      PROVE  /\ ~s[i].active \/ ~s[i].found => ~Hits(s[i], l, "image") /\ ~Hits(s[i], "any", "text")
             /\ s[i].kind = "image" \/ s[i].language \notin {"*", l} => ~Hits(s[i], l, "image")
             /\ s[i].kind = "text" => ~Hits(s[i], "any", "text")
  BY <1>1 DEF Hits
<1>8. (\A i \in DOMAIN s : s[i].severity = "warning") => text(s) # "reject" /\ image(s) # "reject"
  <2>. SUFFICES ASSUME \A i \in DOMAIN s : s[i].severity = "warning" PROVE text(s) # "reject" /\ image(s) # "reject"
    OBVIOUS
  <2>1. ASSUME NEW language, NEW other PROVE Outcome(s, language, other) \in {"pass", "warning"}
    <3>. HIDE DEF Hits
    <3>. QED BY OutcomeIs
  <2>2. text(s) \in {"pass", "warning"} /\ image(s) \in {"pass", "warning"}
    BY <2>1
  <2>. HIDE DEF text, image
  <2>. QED BY <2>2
<1>9. \A rules : ReviewText(rules, l) = text(rules) /\ ReviewImage(rules) = image(rules)
  BY DEF ReviewText, ReviewImage, Outcome
<1>. HIDE DEF text, image
<1>10. \A i \in DOMAIN s :
          /\ \A k \in 1..2 : Rank(<<text(less(i)), image(less(i))>>[k]) <= Rank(<<text(s), image(s)>>[k])
          /\ ~s[i].active \/ ~s[i].found => <<text(less(i)), image(less(i))>> = <<text(s), image(s)>>
          /\ s[i].kind = "image" \/ s[i].language \notin {"*", l} => text(less(i)) = text(s)
          /\ s[i].kind = "text" => image(less(i)) = image(s)
  BY <1>1, <1>6, <1>7
<1>11. \A i \in DOMAIN s : RemoveAt(s, i) = less(i)
  BY DEF less
<1>12. ToSet(<<text(s), image(s)>>) = {text(s), image(s)}
  BY DEF ToSet
<1>. QED BY <1>4, <1>8, <1>9, <1>10, <1>11, <1>12 DEF ReviewIsSound, Rank, s, l, back

-----------------------------------------------------------------------------
(* Lineage *)

\* What is reached with as many steps as the list s is long.
TracedAlong(edges, id, s) ==
    FoldLeft(LAMBDA visited, i : visited \cup {e[2] : e \in {d \in edges : d[1] \in visited}}, {id}, s)

\* A trace repeats the step as many times as there are edges.
LEMMA TracedIs ==
    ASSUME NEW edges, NEW id
    PROVE  Traced(edges, id) = TracedAlong(edges, id, [i \in 1..Cardinality(edges) |-> i])
BY DEF Traced, TracedAlong

Reachable(edges, id) == {id} \cup {e[2] : e \in edges}

Next1(edges, visited) == visited \cup {e[2] : e \in {d \in edges : d[1] \in visited}}

Places(edges, id) == SUBSET Reachable(edges, id)

\* A step reaches places only.
LEMMA NextIn ==
    ASSUME NEW edges, NEW id, NEW visited \in Places(edges, id)
    PROVE  Next1(edges, visited) \in Places(edges, id)
BY DEF Next1, Reachable, Places

StepByStep(edges, id, s) ==
           \E acc \in [0..Len(s) -> Places(edges, id)] :
               /\ acc[0] = {id} /\ TracedAlong(edges, id, s) = acc[Len(s)]
               /\ \A i \in 1..Len(s) : acc[i] = Next1(edges, acc[i - 1])

\* What is reached grows from one step to the next.
LEMMA TracedSteps ==
    ASSUME NEW edges, NEW id, NEW s \in Seq(Int)
    PROVE  StepByStep(edges, id, s)
<1>. DEFINE n == Len(s)
            State == Places(edges, id)
            start == {id}
            IsFold(g) == g = [T \in SUBSET DOMAIN s |->
                                  IF T = {} THEN start ELSE Next1(edges, g[T \ {Max(T)}])]
            fold == CHOOSE g : IsFold(g)
            S == State \cup {fold[T] : T \in SUBSET (1..n)}
            F == [p \in S \X (1..n) |-> Next1(edges, p[1])]
<1>0. n \in Nat /\ DOMAIN s = 1..n
  OBVIOUS
<1>1. \A p \in State \X (1..n) : Next1(edges, p[1]) \in State
  <2>. HIDE DEF n
  <2>. QED BY NextIn
<1>2. Closed(F, State, start, n)
  BY <1>0, <1>1 DEF Closed, Reachable, Places
<1>4. \A T \in SUBSET (1..n) : T # {} => Max(T) \in 1..n /\ T \ {Max(T)} \in SUBSET (1..n)
  <2>1. ASSUME NEW T \in SUBSET (1..n), T # {} PROVE Max(T) \in T
    <3>1. T \in SUBSET (0..n)
      BY <1>0
    <3>. HIDE DEF n
    <3>. QED BY <1>0, <2>1, <3>1, MaxOf
  <2>. QED BY <2>1
<1>5. \E g : IsFold(g)
  <2>1. PICK g \in [SUBSET (1..n) -> State] : IsFoldOf(g, F, start, n)
    <3>. HIDE DEF n, F, State, start
    <3>. QED BY <1>0, <1>2, FoldExists
  <2>2. IsFold(g)
    <3>1. ASSUME NEW T \in SUBSET (1..n)
          PROVE g[T] = IF T = {} THEN start ELSE Next1(edges, g[T \ {Max(T)}])
      <4>1. CASE T = {}
        <5>. HIDE DEF F
        <5>. QED BY <4>1, <2>1 DEF IsFoldOf
      <4>2. CASE T # {}
        <5>1. <<g[T \ {Max(T)}], Max(T)>> \in S \X (1..n)
          BY <2>1, <1>4, <4>2
        <5>2. F[<<g[T \ {Max(T)}], Max(T)>>] = Next1(edges, g[T \ {Max(T)}])
          BY <5>1
        <5>. HIDE DEF F
        <5>. QED BY <4>2, <5>2, <2>1 DEF IsFoldOf
      <4>. QED BY <4>1, <4>2
    <3>. HIDE DEF F
    <3>. QED BY <3>1, <1>0, <2>1
  <2>. QED BY <2>2
<1>6. IsFold(fold)
  <2>. HIDE DEF IsFold
  <2>. QED BY <1>5
<1>7. IsFoldOf(fold, F, start, n)
  <2>1. ASSUME NEW T \in SUBSET (1..n)
        PROVE fold[T] = IF T = {} THEN start ELSE F[<<fold[T \ {Max(T)}], Max(T)>>]
    <3>1. fold[T] = IF T = {} THEN start ELSE Next1(edges, fold[T \ {Max(T)}])
      <4>. HIDE DEF fold
      <4>. QED BY <1>6, <1>0
    <3>2. CASE T = {}
      BY <3>1, <3>2
    <3>3. CASE T # {}
      <4>. HIDE DEF fold
      <4>1. <<fold[T \ {Max(T)}], Max(T)>> \in S \X (1..n)
        BY <1>4, <3>3
      <4>2. F[<<fold[T \ {Max(T)}], Max(T)>>] = Next1(edges, fold[T \ {Max(T)}])
        BY <4>1
      <4>. HIDE DEF F
      <4>. QED BY <3>1, <3>3, <4>2
    <3>. QED BY <3>2, <3>3
  <2>. HIDE DEF F, fold
  <2>. QED BY <2>1 DEF IsFoldOf
<1>. DEFINE acc == RunOf(fold, n)
<1>8. acc \in [0..n -> State] /\ IsRun(acc, F, start, n) /\ fold[1..n] = acc[n]
  <2>. HIDE DEF n, F, fold, S, State, start
  <2>. QED BY <1>0, <1>2, <1>7, FoldSteps
<1>. HIDE DEF acc
<1>9. \A i \in 1..n : acc[i] = Next1(edges, acc[i - 1])
  <2>1. ASSUME NEW i \in 1..n PROVE acc[i] = Next1(edges, acc[i - 1])
    <3>1. <<acc[i - 1], i>> \in S \X (1..n)
      <4>1. i - 1 \in 0..n /\ i \in 1..n
        BY <1>0
      <4>. QED BY <4>1, <1>8
    <3>2. F[<<acc[i - 1], i>>] = Next1(edges, acc[i - 1])
      BY <3>1
    <3>. HIDE DEF F
    <3>. QED BY <1>8, <3>2 DEF IsRun
  <2>. QED BY <2>1
<1>10. TracedAlong(edges, id, s) = fold[DOMAIN s]
  BY DEF TracedAlong, Next1, FoldLeft, MapThenFoldSet
<1>. HIDE DEF fold, F
<1>11. \E way \in [0..Len(s) -> Places(edges, id)] :
               /\ way[0] = {id} /\ TracedAlong(edges, id, s) = way[Len(s)]
               /\ \A i \in 1..Len(s) : way[i] = Next1(edges, way[i - 1])
  BY <1>0, <1>8, <1>9, <1>10 DEF IsRun
<1>. HIDE DEF State, start
<1>. QED BY <1>11 DEF StepByStep

\* Nothing is left by an edge from what is visited.
ClosedUnder(edges, visited) == \A e \in edges : e[1] \in visited => e[2] \in visited

Leaving(edges, visited) == {d \in edges : d[1] \in visited}

\* As many steps as there are edges reach all there is to reach: a step that
\* reaches something new for good leaves by an edge no step left by before.
LEMMA TracedIsLeast ==
    ASSUME NEW edges, IsFiniteSet(edges), NEW id
    PROVE  /\ id \in Traced(edges, id)
           /\ ClosedUnder(edges, Traced(edges, id))
           /\ \A T : id \in T /\ ClosedUnder(edges, T) => Traced(edges, id) \subseteq T
<1>. DEFINE K == Cardinality(edges)
            s == [i \in 1..K |-> i]
            U == Places(edges, id)
<1>1. K \in Nat
  BY FS_CardinalityType
<1>2. s \in Seq(Int) /\ Len(s) = K
  <2>. HIDE DEF K
  <2>1. s \in [1..K -> Int]
    BY <1>1
  <2>. HIDE DEF s
  <2>. QED BY <1>1, <2>1
<1>3. PICK acc \in [0..K -> U] :
          /\ acc[0] = {id} /\ Traced(edges, id) = acc[K]
          /\ \A i \in 1..K : acc[i] = Next1(edges, acc[i - 1])
  <2>1. Traced(edges, id) = TracedAlong(edges, id, s)
    BY TracedIs
  <2>. HIDE DEF s, K, U
  <2>2. PICK acc \in [0..Len(s) -> Places(edges, id)] :
            /\ acc[0] = {id} /\ TracedAlong(edges, id, s) = acc[Len(s)]
            /\ \A i \in 1..Len(s) : acc[i] = Next1(edges, acc[i - 1])
    <3>1. s \in Seq(Int)
      BY <1>2
    <3>2. StepByStep(edges, id, s)
      BY ONLY <3>1, TracedSteps
    <3>. QED BY <3>2 DEF StepByStep
  <2>. QED BY <1>2, <2>1, <2>2 DEF U
<1>. HIDE DEF K, s, U
<1>4. ASSUME NEW V
      PROVE  /\ V \subseteq Next1(edges, V)
             /\ ClosedUnder(edges, V) => Next1(edges, V) = V
             /\ Leaving(edges, V) \in SUBSET Leaving(edges, Next1(edges, V))
             /\ Leaving(edges, V) = Leaving(edges, Next1(edges, V)) => ClosedUnder(edges, Next1(edges, V))
             /\ Leaving(edges, V) = {} => ClosedUnder(edges, V)
             /\ \A T : V \subseteq T /\ ClosedUnder(edges, T) => Next1(edges, V) \subseteq T
  <2>1. V \subseteq Next1(edges, V)
    BY DEF Next1
  <2>2. ClosedUnder(edges, V) => Next1(edges, V) = V
    BY DEF Next1, ClosedUnder
  <2>3. Leaving(edges, V) \in SUBSET Leaving(edges, Next1(edges, V))
    BY DEF Next1, Leaving
  <2>4. Leaving(edges, V) = Leaving(edges, Next1(edges, V)) => ClosedUnder(edges, Next1(edges, V))
    <3>1. \A e \in Leaving(edges, V) : e[2] \in Next1(edges, V)
      BY DEF Next1, Leaving
    <3>2. ASSUME NEW W, \A e \in Leaving(edges, V) : e[2] \in W, Leaving(edges, V) = Leaving(edges, W)
          PROVE  ClosedUnder(edges, W)
      BY <3>2 DEF ClosedUnder, Leaving
    <3>. QED BY <3>1, <3>2
  <2>5. Leaving(edges, V) = {} => ClosedUnder(edges, V)
    BY DEF Leaving, ClosedUnder
  <2>6. \A T : V \subseteq T /\ ClosedUnder(edges, T) => Next1(edges, V) \subseteq T
    BY DEF Next1, ClosedUnder
  <2>. QED BY <2>1, <2>2, <2>3, <2>4, <2>5, <2>6
<1>5. ASSUME NEW V
      PROVE  /\ Leaving(edges, V) \in SUBSET edges /\ IsFiniteSet(Leaving(edges, V))
             /\ Cardinality(Leaving(edges, V)) \in Nat /\ Cardinality(Leaving(edges, V)) <= K
  <2>1. Leaving(edges, V) \in SUBSET edges
    BY DEF Leaving
  <2>2. IsFiniteSet(Leaving(edges, V)) /\ Cardinality(Leaving(edges, V)) <= K
    BY <2>1, FS_Subset DEF K
  <2>3. Cardinality(Leaving(edges, V)) \in Nat
    BY <2>2, FS_CardinalityType
  <2>. QED BY <2>1, <2>2, <2>3
<1>. DEFINE out(k) == Cardinality(Leaving(edges, acc[k]))
            Good == {k \in 0..K : id \in acc[k] /\ (ClosedUnder(edges, acc[k]) \/ out(k) >= k + 1)}
<1>6. Good = 0..K
  <2>1. 0 \in Good /\ Good \in SUBSET (0..K)
    <3>1. 0 \in 0..K /\ id \in acc[0]
      BY <1>1, <1>3
    <3>2. ClosedUnder(edges, acc[0]) \/ out(0) >= 0 + 1
      <4>1. IsFiniteSet(Leaving(edges, acc[0])) /\ out(0) \in Nat
        BY <1>5
      <4>2. out(0) = 0 => Leaving(edges, acc[0]) = {}
        BY <4>1, FS_EmptySet
      <4>3. Leaving(edges, acc[0]) = {} => ClosedUnder(edges, acc[0])
        BY <1>4
      <4>. HIDE DEF out
      <4>. QED BY <4>1, <4>2, <4>3
    <3>. HIDE DEF out
    <3>. QED BY <3>1, <3>2
  <2>2. ASSUME NEW k \in 0..K - 1, k \in Good PROVE k + 1 \in Good
    <3>. DEFINE V == acc[k]
                W == acc[k + 1]
    <3>1. k + 1 \in 0..K /\ k \in Nat /\ W = Next1(edges, V)
      <4>1. k + 1 \in 1..K /\ (k + 1) - 1 = k /\ k + 1 \in 0..K /\ k \in Nat
        BY <1>1
      <4>. QED BY <1>3, <4>1
    <3>2. id \in V /\ (ClosedUnder(edges, V) \/ out(k) >= k + 1)
      BY <2>2
    <3>3. out(k) = Cardinality(Leaving(edges, V)) /\ out(k + 1) = Cardinality(Leaving(edges, W))
      OBVIOUS
    <3>4. out(k) \in Nat /\ out(k + 1) \in Nat /\ IsFiniteSet(Leaving(edges, W))
      BY <1>5
    <3>. HIDE DEF V, W, out
    <3>5. id \in W
      BY <1>4, <3>1, <3>2
    <3>6. ClosedUnder(edges, W) \/ out(k + 1) >= (k + 1) + 1
      <4>1. CASE ClosedUnder(edges, V)
        BY <1>4, <3>1, <4>1
      <4>2. CASE out(k) >= k + 1
        <5>1. Leaving(edges, V) \in SUBSET Leaving(edges, W)
          BY <1>4, <3>1
        <5>2. out(k) <= out(k + 1) /\ (out(k + 1) = out(k) => Leaving(edges, W) = Leaving(edges, V))
          BY <3>3, <3>4, <5>1, FS_Subset
        <5>3. Leaving(edges, V) = Leaving(edges, W) => ClosedUnder(edges, W)
          BY <1>4, <3>1
        <5>. QED BY <3>1, <3>4, <4>2, <5>2, <5>3
      <4>. QED BY <3>2, <4>1, <4>2
    <3>. QED BY <3>1, <3>5, <3>6 DEF W
  <2>. HIDE DEF Good
  <2>. QED BY <1>1, <2>1, <2>2, UpTo
<1>7. id \in acc[K] /\ ClosedUnder(edges, acc[K])
  <2>1. K \in Good
    <3>. HIDE DEF Good
    <3>. QED BY <1>1, <1>6
  <2>2. id \in acc[K] /\ (ClosedUnder(edges, acc[K]) \/ out(K) >= K + 1)
    BY <2>1
  <2>3. out(K) \in Nat /\ out(K) <= K
    BY <1>5
  <2>. HIDE DEF out
  <2>. QED BY <1>1, <2>2, <2>3
<1>8. ASSUME NEW T, id \in T, ClosedUnder(edges, T) PROVE acc[K] \subseteq T
  <2>. DEFINE Within == {k \in 0..K : acc[k] \subseteq T}
  <2>1. 0 \in Within /\ Within \in SUBSET (0..K)
    BY <1>1, <1>3, <1>8
  <2>2. ASSUME NEW k \in 0..K - 1, k \in Within PROVE k + 1 \in Within
    <3>1. k + 1 \in 0..K /\ acc[k + 1] = Next1(edges, acc[k])
      <4>1. k + 1 \in 1..K /\ (k + 1) - 1 = k /\ k + 1 \in 0..K
        BY <1>1
      <4>. QED BY <1>3, <4>1
    <3>2. acc[k] \subseteq T
      BY <2>2
    <3>3. acc[k + 1] \subseteq T
      BY <1>4, <1>8, <3>1, <3>2
    <3>. QED BY <3>1, <3>3
  <2>3. Within = 0..K
    <3>. HIDE DEF Within
    <3>. QED BY <1>1, <2>1, <2>2, UpTo
  <2>4. K \in Within
    <3>. HIDE DEF Within
    <3>. QED BY <1>1, <2>3
  <2>. QED BY <2>4
<1>. QED BY <1>3, <1>7, <1>8

Turned(edges) == {<<e[2], e[1]>> : e \in edges}

\* Turning the edges round turns what is closed under them.
LEMMA TurnedIs ==
    ASSUME NEW A, NEW edges \in SUBSET (A \X A), IsFiniteSet(edges)
    PROVE  /\ IsFiniteSet(Turned(edges)) /\ Turned(edges) \in SUBSET (A \X A)
           /\ \A V : ClosedUnder(Turned(edges), V) => \A e \in edges : e[2] \in V => e[1] \in V
           /\ \A V : (\A e \in edges : e[2] \in V => e[1] \in V) => ClosedUnder(Turned(edges), V)
<1>. DEFINE f == [e \in edges |-> <<e[2], e[1]>>]
            T == Turned(edges)
<1>1. f \in Surjection(edges, T)
  <2>1. f \in [edges -> T]
    BY DEF Turned
  <2>2. \A t \in T : \E e \in edges : f[e] = t
    BY DEF Turned
  <2>. HIDE DEF f, T
  <2>. QED BY <2>1, <2>2 DEF Surjection
<1>2. IsFiniteSet(T)
  <2>. HIDE DEF f, T
  <2>. QED BY <1>1, FS_Surjection
<1>3. T \in SUBSET (A \X A)
  BY DEF Turned
<1>4. ASSUME NEW V, ClosedUnder(T, V), NEW e \in edges, e[2] \in V PROVE e[1] \in V
  <2>1. <<e[2], e[1]>> \in T
    BY DEF Turned
  <2>. HIDE DEF T
  <2>2. <<e[2], e[1]>>[1] \in V => <<e[2], e[1]>>[2] \in V
    BY <1>4, <2>1 DEF ClosedUnder
  <2>. QED BY <1>4, <2>2
<1>5. ASSUME NEW V, \A e \in edges : e[2] \in V => e[1] \in V PROVE ClosedUnder(T, V)
  <2>. SUFFICES ASSUME NEW t \in T, t[1] \in V PROVE t[2] \in V
    BY DEF ClosedUnder
  <2>1. PICK e \in edges : t = <<e[2], e[1]>>
    BY DEF Turned
  <2>2. e[2] \in V /\ t[2] = e[1]
    BY <2>1
  <2>. QED BY <1>5, <2>2
<1>. QED BY <1>2, <1>3, <1>4, <1>5

\* The statements about lineage hold for any finite graph.
THEOREM LineageHolds ==
    ASSUME NEW A, NEW c, c.edges \in SUBSET (A \X A), IsFiniteSet(c.edges)
    PROVE  LineageIsSound(c)
<1>. DEFINE edges == c.edges
            down(n) == Traced(edges, n)
            up(n) == Traced(Turned(edges), n)
<1>0. edges \in SUBSET (A \X A) /\ IsFiniteSet(edges)
  OBVIOUS
<1>. HIDE DEF edges
<1>1. /\ IsFiniteSet(Turned(edges))
      /\ \A V : ClosedUnder(Turned(edges), V) => \A e \in edges : e[2] \in V => e[1] \in V
      /\ \A V : (\A e \in edges : e[2] \in V => e[1] \in V) => ClosedUnder(Turned(edges), V)
  BY <1>0, TurnedIs
<1>2. ASSUME NEW n
      PROVE  /\ n \in down(n) /\ ClosedUnder(edges, down(n))
             /\ \A T : n \in T /\ ClosedUnder(edges, T) => down(n) \subseteq T
  BY <1>0, TracedIsLeast
<1>3. ASSUME NEW n
      PROVE  /\ n \in up(n) /\ ClosedUnder(Turned(edges), up(n))
             /\ \A T : n \in T /\ ClosedUnder(Turned(edges), T) => up(n) \subseteq T
  BY <1>1, TracedIsLeast
<1>. HIDE DEF down, up
<1>4. ASSUME NEW n, NEW m, m \in down(n) PROVE n \in up(m)
  <2>. SUFFICES ASSUME n \notin up(m) PROVE FALSE
    OBVIOUS
  <2>. DEFINE T == down(n) \ up(m)
  <2>1. n \in T
    BY <1>2
  <2>2. ClosedUnder(edges, T)
    <3>. SUFFICES ASSUME NEW e \in edges, e[1] \in T PROVE e[2] \in T
      BY DEF ClosedUnder
    <3>1. e[2] \in down(n)
      BY <1>2 DEF ClosedUnder
    <3>2. e[2] \notin up(m)
      BY <1>1, <1>3
    <3>. QED BY <3>1, <3>2
  <2>3. m \in T
    <3>. HIDE DEF T
    <3>. QED BY <1>2, <1>4, <2>1, <2>2
  <2>. QED BY <1>3, <2>3
<1>5. ASSUME NEW n, NEW m, n \in up(m) PROVE m \in down(n)
  <2>. SUFFICES ASSUME m \notin down(n) PROVE FALSE
    OBVIOUS
  <2>. DEFINE T == up(m) \ down(n)
  <2>1. m \in T
    BY <1>3
  <2>2. ClosedUnder(Turned(edges), T)
    <3>1. \A e \in edges : e[2] \in T => e[1] \in T
      <4>. SUFFICES ASSUME NEW e \in edges, e[2] \in T PROVE e[1] \in T
        OBVIOUS
      <4>1. e[1] \in up(m)
        BY <1>1, <1>3
      <4>2. e[1] \notin down(n)
        BY <1>2 DEF ClosedUnder
      <4>. QED BY <4>1, <4>2
    <3>. HIDE DEF T
    <3>. QED BY <1>1, <3>1
  <2>3. n \in T
    <3>. HIDE DEF T
    <3>. QED BY <1>3, <1>5, <2>1, <2>2
  <2>. QED BY <1>2, <2>3
<1>6. ASSUME NEW n, NEW m, m \in down(n) PROVE down(m) \subseteq down(n)
  BY <1>2, <1>6
<1>7. ASSUME NEW n, NEW m, m \in down(n), m # n PROVE \E k \in down(n) : <<k, m>> \in edges
  <2>. SUFFICES ASSUME \A k \in down(n) : <<k, m>> \notin edges PROVE FALSE
    OBVIOUS
  <2>. DEFINE T == down(n) \ {m}
  <2>1. n \in T
    BY <1>2, <1>7
  <2>2. ClosedUnder(edges, T)
    <3>. SUFFICES ASSUME NEW e \in edges, e[1] \in T PROVE e[2] \in T
      BY DEF ClosedUnder
    <3>1. e[2] \in down(n)
      BY <1>2 DEF ClosedUnder
    <3>2. e = <<e[1], e[2]>>
      BY <1>0
    <3>3. e[2] # m
      BY <3>2
    <3>. QED BY <3>1, <3>3
  <2>3. m \in T
    <3>. HIDE DEF T
    <3>. QED BY <1>2, <1>7, <2>1, <2>2
  <2>. QED BY <2>3
<1>8. \A n, m : (m \in down(n)) = (n \in up(m))
  BY <1>4, <1>5
<1>9. \A n : TraceDownstream(edges, n) = down(n) /\ TraceUpstream(edges, n) = up(n)
  BY DEF TraceDownstream, TraceUpstream, down, up, Turned
<1>10. LineageIsSound(c) <=>
           \A n, m \in Nodes :
               /\ n \in down(n)
               /\ (m \in down(n)) = (n \in up(m))
               /\ m \in down(n) => down(m) \subseteq down(n)
               /\ m \in down(n) /\ m # n => \E k \in down(n) : <<k, m>> \in edges
  BY <1>9 DEF LineageIsSound, edges
<1>. QED BY <1>2, <1>6, <1>7, <1>8, <1>10

-----------------------------------------------------------------------------
(* Whatever they take *)

Counted(Names) == UNION {[known -> Int] : known \in SUBSET Names}

PermissionArguments(Names) == [of : {"permission"}, policy : Policies(Names), amount : Int]
QueryArguments(Names) ==
    [of : {"query"}, policy : [active : BOOLEAN, scopes : SUBSET Names, allowed : SUBSET Names,
                               masked : SUBSET Names, denied : SUBSET Names],
     requested : SUBSET Names, ofScope : SUBSET Names]
GrayArguments(Names) ==
    [of : {"gray"}, config : [exists : BOOLEAN, active : BOOLEAN, rolledBack : BOOLEAN,
                              strategy : {"percentage", "user_list", "org_list"},
                              targets : SUBSET Names, percent : Nat]]
PriceArguments == [of : {"price"}, cost : Nat, rule : PriceRules]
MarketArguments ==
    [of : {"market"}, price : Nat, msrp : Nat, competitors : SUBSET Nat,
     strategy : {"match_lowest", "beat_by_pct", "premium", "other"}]
ProfitArguments == [of : {"profit"}, revenue : Int, refund : Int, cost : Int, expenses : Nat, vat : Nat]
AdBudgetArguments ==
    {c \in [of : {"ad_budget"}, total : Nat, roas : Seq(Nat)] :
        c.total = 9999 => Len(c.roas) <= 60 /\ \A i \in 1..Len(c.roas) : c.roas[i] <= 333}
PacingArguments == [of : {"pacing"}, daily : Nat, spent : Nat, hours : Nat]
AdAnomalyArguments == [of : {"ad_anomaly"}, now : AdFigureSet, base : AdFigureSet]
UrgencyArguments == [of : {"urgency"}, qty : Nat, sales : Nat, lead : Nat]
DiscrepancyArguments(Names) ==
    [of : {"discrepancy"}, platform : Seq([sku : Names, qty : Int]), known : Counted(Names)]
SnapshotsArguments(Names) ==
    [of : {"snapshots"}, first : Counted(Names), second : Counted(Names), third : Counted(Names)]
TransferArguments ==
    {c \in [of : {"transfer"}, strategy : TransferStrategies, qty : Nat, sales : 0..400,
            lead : Nat, safety : Nat] : c.lead + c.safety < 30}
StockAlertArguments == [of : {"stock_alerts"}, available : Nat, onHand : Nat, defective : Nat]
DefectArguments(Names) == [of : {"defect"}, defect : Names, severity : Names]
ProductArguments(Names) ==
    [of : {"product"}, status : Names, skus : Nat, activeSkus : Nat, inactiveSkus : Nat, days : Nat]
ComplianceArguments(Names) ==
    [of : {"compliance"}, found : Seq(Names \cup {"prohibited", "trademark"}),
     levels : Seq(Names \cup ToSet(RiskLevels))]
QualityArguments(Names) ==
    [of : {"quality"}, set : SUBSET {"barcode", "weight", "cost"},
     wanting : SUBSET (Names \ {"barcode", "weight", "cost"})]
SelectionArguments == [of : {"selection"}, sales : Nat, rating : Nat, reviews : Nat, price : Int]
PerformanceArguments == [of : {"performance"}, skus : Nat, orderRate : Nat, profit : Int]
DuplicateArguments(Names) ==
    [of : {"duplicate"}, first : [url : Names, id : Names, platform : Names, title : Names],
     second : [url : Names, id : Names, platform : Names, title : Names]]
InquiryArguments ==
    {c \in [of : {"inquiry"}, quotes : Seq(QuoteSet), third : QuoteSet] : Len(c.quotes) >= 2}
RatingArguments ==
    [of : {"rating"}, quality : 0..100, delivery : 0..100, price : 0..100, service : 0..100]
ShipmentArguments(Names) == [of : {"shipment"}, status : Names, days : Nat, underWay : BOOLEAN]
ChangeArguments ==
    {c \in [of : {"change"}, current : Int, previous : Int, factor : Nat \ {0}] :
        -20000 < c.previous /\ c.previous < 20000}
SeriesArguments == [of : {"series"}, values : Seq(Nat), window : Nat \ {0}]
OutliersArguments == [of : {"outliers"}, values : Seq(Int), z : Nat]
ThresholdArguments == [of : {"threshold"}, value : Int, threshold : Int, most : Int]
PresenceArguments ==
    {c \in [of : {"presence"}, days : Nat, missing : SUBSET Nat, more : Nat] :
        c.days < 19999 /\ c.missing \subseteq 0..c.days /\ c.more <= c.days}
MasterArguments(Names) ==
    [of : {"master"}, rules : Seq(MasterRuleSet(Names)), record : MasterRecordSet(Names, Names)]
ReviewArguments(Names) ==
    [of : {"review"}, rules : Seq(ReviewRuleSet(Names \ {"any"})), language : Names \ {"any"}]
LineageArguments(Names) ==
    {c \in [of : {"lineage"}, edges : SUBSET (Names \X Names)] : IsFiniteSet(c.edges)}
\* What the calculations of Decisions, the first half, take.
ChoiceArguments(Names) ==
    PermissionArguments(Names) \cup QueryArguments(Names) \cup GrayArguments(Names)
    \cup PriceArguments \cup MarketArguments \cup ProfitArguments \cup AdBudgetArguments
    \cup PacingArguments \cup AdAnomalyArguments \cup UrgencyArguments
    \cup DiscrepancyArguments(Names) \cup SnapshotsArguments(Names) \cup TransferArguments
    \cup StockAlertArguments \cup DefectArguments(Names) \cup ProductArguments(Names)

\* What the calculations of Decisions, the second half, take.
JudgementArguments(Names) ==
    ComplianceArguments(Names) \cup QualityArguments(Names) \cup SelectionArguments
    \cup PerformanceArguments \cup DuplicateArguments(Names) \cup InquiryArguments
    \cup RatingArguments \cup ShipmentArguments(Names) \cup ChangeArguments \cup SeriesArguments
    \cup OutliersArguments \cup ThresholdArguments \cup PresenceArguments
    \cup MasterArguments(Names) \cup ReviewArguments(Names) \cup LineageArguments(Names)

Arguments(Names) ==
    FigureArguments(Names) \cup AssessmentArguments(Names)
    \cup ChoiceArguments(Names) \cup JudgementArguments(Names)

\* The statements about the calculations of Decisions, the first half, hold for all they take.
LEMMA ChoicesAgree == ASSUME NEW Names, NEW c \in ChoiceArguments(Names) PROVE Agrees(c)
<1>1. CASE c \in PermissionArguments(Names)
  <2>1. c.of = "permission"
    BY <1>1 DEF PermissionArguments
  <2>2. PermissionIsSound(c)
    BY <1>1, PermissionHolds DEF PermissionArguments
  <2>. QED BY <2>1, <2>2 DEF Agrees, CalculationIsSound, AssessmentIsSound, DecisionIsSound
<1>2. CASE c \in QueryArguments(Names)
  <2>1. c.of = "query"
    BY <1>2 DEF QueryArguments
  <2>2. QueryIsSound(c)
    BY <1>2, QueryHolds DEF QueryArguments
  <2>. QED BY <2>1, <2>2 DEF Agrees, CalculationIsSound, AssessmentIsSound, DecisionIsSound
<1>3. CASE c \in GrayArguments(Names)
  <2>1. c.of = "gray"
    BY <1>3 DEF GrayArguments
  <2>2. GrayIsSound(c)
    BY <1>3, GrayHolds DEF GrayArguments
  <2>. QED BY <2>1, <2>2 DEF Agrees, CalculationIsSound, AssessmentIsSound, DecisionIsSound
<1>4. CASE c \in PriceArguments
  <2>1. c.of = "price"
    BY <1>4 DEF PriceArguments
  <2>2. PriceIsSound(c)
    BY <1>4, PriceHolds DEF PriceArguments
  <2>. QED BY <2>1, <2>2 DEF Agrees, CalculationIsSound, AssessmentIsSound, DecisionIsSound
<1>5. CASE c \in MarketArguments
  <2>1. c.of = "market"
    BY <1>5 DEF MarketArguments
  <2>2. MarketIsSound(c)
    BY <1>5, MarketHolds DEF MarketArguments
  <2>. QED BY <2>1, <2>2 DEF Agrees, CalculationIsSound, AssessmentIsSound, DecisionIsSound
<1>6. CASE c \in ProfitArguments
  <2>1. c.of = "profit"
    BY <1>6 DEF ProfitArguments
  <2>2. ProfitIsSound(c)
    BY <1>6, ProfitHolds DEF ProfitArguments
  <2>. QED BY <2>1, <2>2 DEF Agrees, CalculationIsSound, AssessmentIsSound, DecisionIsSound
<1>7. CASE c \in AdBudgetArguments
  <2>1. c.of = "ad_budget"
    BY <1>7 DEF AdBudgetArguments
  <2>2. AdBudgetIsSound(c)
    BY <1>7, AdBudgetHolds DEF AdBudgetArguments
  <2>. QED BY <2>1, <2>2 DEF Agrees, CalculationIsSound, AssessmentIsSound, DecisionIsSound
<1>8. CASE c \in PacingArguments
  <2>1. c.of = "pacing"
    BY <1>8 DEF PacingArguments
  <2>2. PacingIsSound(c)
    BY <1>8, PacingHolds DEF PacingArguments
  <2>. QED BY <2>1, <2>2 DEF Agrees, CalculationIsSound, AssessmentIsSound, DecisionIsSound
<1>9. CASE c \in AdAnomalyArguments
  <2>1. c.of = "ad_anomaly"
    BY <1>9 DEF AdAnomalyArguments
  <2>2. AdAnomalyIsSound(c)
    BY <1>9, AdAnomalyHolds DEF AdAnomalyArguments
  <2>. QED BY <2>1, <2>2 DEF Agrees, CalculationIsSound, AssessmentIsSound, DecisionIsSound
<1>10. CASE c \in UrgencyArguments
  <2>1. c.of = "urgency"
    BY <1>10 DEF UrgencyArguments
  <2>2. UrgencyIsSound(c)
    BY <1>10, UrgencyHolds DEF UrgencyArguments
  <2>. QED BY <2>1, <2>2 DEF Agrees, CalculationIsSound, AssessmentIsSound, DecisionIsSound
<1>11. CASE c \in DiscrepancyArguments(Names)
  <2>1. c.of = "discrepancy"
    BY <1>11 DEF DiscrepancyArguments, Counted
  <2>2. DiscrepancyIsSound(c)
    BY <1>11, DiscrepancyHolds DEF DiscrepancyArguments, Counted
  <2>. QED BY <2>1, <2>2 DEF Agrees, CalculationIsSound, AssessmentIsSound, DecisionIsSound
<1>12. CASE c \in SnapshotsArguments(Names)
  <2>1. c.of = "snapshots"
    BY <1>12 DEF SnapshotsArguments, Counted
  <2>2. SnapshotsAreSound(c)
    BY <1>12, SnapshotsHold DEF SnapshotsArguments, Counted
  <2>. QED BY <2>1, <2>2 DEF Agrees, CalculationIsSound, AssessmentIsSound, DecisionIsSound
<1>13. CASE c \in TransferArguments
  <2>1. c.of = "transfer"
    BY <1>13 DEF TransferArguments
  <2>2. TransferIsSound(c)
    BY <1>13, TransferHolds DEF TransferArguments
  <2>. QED BY <2>1, <2>2 DEF Agrees, CalculationIsSound, AssessmentIsSound, DecisionIsSound
<1>14. CASE c \in StockAlertArguments
  <2>1. c.of = "stock_alerts"
    BY <1>14 DEF StockAlertArguments
  <2>2. StockAlertIsSound(c)
    BY <1>14, StockAlertHolds DEF StockAlertArguments
  <2>. QED BY <2>1, <2>2 DEF Agrees, CalculationIsSound, AssessmentIsSound, DecisionIsSound
<1>15. CASE c \in DefectArguments(Names)
  <2>1. c.of = "defect"
    BY <1>15 DEF DefectArguments
  <2>2. DefectIsSound(c)
    BY <1>15, DefectHolds DEF DefectArguments
  <2>. QED BY <2>1, <2>2 DEF Agrees, CalculationIsSound, AssessmentIsSound, DecisionIsSound
<1>16. CASE c \in ProductArguments(Names)
  <2>1. c.of = "product"
    BY <1>16 DEF ProductArguments
  <2>2. ProductIsSound(c)
    BY <1>16, ProductHolds DEF ProductArguments
  <2>. QED BY <2>1, <2>2 DEF Agrees, CalculationIsSound, AssessmentIsSound, DecisionIsSound
<1>. QED
  BY <1>1, <1>2, <1>3, <1>4, <1>5, <1>6, <1>7, <1>8, <1>9, <1>10, <1>11, <1>12, <1>13, <1>14, <1>15, <1>16 DEF ChoiceArguments

\* The statements about the calculations of Decisions, the second half, hold for all they take.
LEMMA JudgementsAgree == ASSUME NEW Names, NEW c \in JudgementArguments(Names) PROVE Agrees(c)
<1>1. CASE c \in ComplianceArguments(Names)
  <2>1. c.of = "compliance"
    BY <1>1 DEF ComplianceArguments
  <2>2. ComplianceIsSound(c)
    BY <1>1, ComplianceHolds DEF ComplianceArguments
  <2>. QED BY <2>1, <2>2 DEF Agrees, CalculationIsSound, AssessmentIsSound, DecisionIsSound
<1>2. CASE c \in QualityArguments(Names)
  <2>1. c.of = "quality"
    BY <1>2 DEF QualityArguments
  <2>2. QualityIsSound(c)
    BY <1>2, QualityHolds DEF QualityArguments
  <2>. QED BY <2>1, <2>2 DEF Agrees, CalculationIsSound, AssessmentIsSound, DecisionIsSound
<1>3. CASE c \in SelectionArguments
  <2>1. c.of = "selection"
    BY <1>3 DEF SelectionArguments
  <2>2. SelectionIsSound(c)
    BY <1>3, SelectionHolds DEF SelectionArguments
  <2>. QED BY <2>1, <2>2 DEF Agrees, CalculationIsSound, AssessmentIsSound, DecisionIsSound
<1>4. CASE c \in PerformanceArguments
  <2>1. c.of = "performance"
    BY <1>4 DEF PerformanceArguments
  <2>2. PerformanceIsSound(c)
    BY <1>4, PerformanceHolds DEF PerformanceArguments
  <2>. QED BY <2>1, <2>2 DEF Agrees, CalculationIsSound, AssessmentIsSound, DecisionIsSound
<1>5. CASE c \in DuplicateArguments(Names)
  <2>1. c.of = "duplicate"
    BY <1>5 DEF DuplicateArguments
  <2>2. DuplicateIsSound(c)
    BY <1>5, DuplicateHolds DEF DuplicateArguments
  <2>. QED BY <2>1, <2>2 DEF Agrees, CalculationIsSound, AssessmentIsSound, DecisionIsSound
<1>6. CASE c \in InquiryArguments
  <2>1. c.of = "inquiry"
    BY <1>6 DEF InquiryArguments
  <2>2. InquiryIsSound(c)
    BY <1>6, InquiryHolds DEF InquiryArguments
  <2>. QED BY <2>1, <2>2 DEF Agrees, CalculationIsSound, AssessmentIsSound, DecisionIsSound
<1>7. CASE c \in RatingArguments
  <2>1. c.of = "rating"
    BY <1>7 DEF RatingArguments
  <2>2. RatingIsSound(c)
    BY <1>7, RatingHolds DEF RatingArguments
  <2>. QED BY <2>1, <2>2 DEF Agrees, CalculationIsSound, AssessmentIsSound, DecisionIsSound
<1>8. CASE c \in ShipmentArguments(Names)
  <2>1. c.of = "shipment"
    BY <1>8 DEF ShipmentArguments
  <2>2. ShipmentIsSound(c)
    BY <1>8, ShipmentHolds DEF ShipmentArguments
  <2>. QED BY <2>1, <2>2 DEF Agrees, CalculationIsSound, AssessmentIsSound, DecisionIsSound
<1>9. CASE c \in ChangeArguments
  <2>1. c.of = "change"
    BY <1>9 DEF ChangeArguments
  <2>2. ChangeIsSound(c)
    BY <1>9, ChangeHolds DEF ChangeArguments
  <2>. QED BY <2>1, <2>2 DEF Agrees, CalculationIsSound, AssessmentIsSound, DecisionIsSound
<1>10. CASE c \in SeriesArguments
  <2>1. c.of = "series"
    BY <1>10 DEF SeriesArguments
  <2>2. SeriesIsSound(c)
    BY <1>10, SeriesHolds DEF SeriesArguments
  <2>. QED BY <2>1, <2>2 DEF Agrees, CalculationIsSound, AssessmentIsSound, DecisionIsSound
<1>11. CASE c \in OutliersArguments
  <2>1. c.of = "outliers"
    BY <1>11 DEF OutliersArguments
  <2>2. OutliersAreSound(c)
    BY <1>11, OutliersHold DEF OutliersArguments
  <2>. QED BY <2>1, <2>2 DEF Agrees, CalculationIsSound, AssessmentIsSound, DecisionIsSound
<1>12. CASE c \in ThresholdArguments
  <2>1. c.of = "threshold"
    BY <1>12 DEF ThresholdArguments
  <2>2. ThresholdIsSound(c)
    BY <1>12, ThresholdHolds DEF ThresholdArguments
  <2>. QED BY <2>1, <2>2 DEF Agrees, CalculationIsSound, AssessmentIsSound, DecisionIsSound
<1>13. CASE c \in PresenceArguments
  <2>1. /\ c.of = "presence" /\ c.days \in Nat /\ c.days < 19999 /\ c.more \in Nat /\ c.more <= c.days
        /\ c.missing \in SUBSET (0..c.days)
    BY <1>13 DEF PresenceArguments
  <2>2. c.more \in 0..c.days
    BY <2>1
  <2>3. PresenceIsSound(c)
    BY ONLY <2>1, <2>2, PresenceHolds
  <2>. QED BY <2>1, <2>3 DEF Agrees, CalculationIsSound, AssessmentIsSound, DecisionIsSound
<1>14. CASE c \in MasterArguments(Names)
  <2>1. c.of = "master"
    BY <1>14 DEF MasterArguments
  <2>2. MasterIsSound(c)
    BY <1>14, MasterHolds DEF MasterArguments
  <2>. QED BY <2>1, <2>2 DEF Agrees, CalculationIsSound, AssessmentIsSound, DecisionIsSound
<1>15. CASE c \in ReviewArguments(Names)
  <2>1. c.of = "review"
    BY <1>15 DEF ReviewArguments
  <2>2. ReviewIsSound(c)
    BY <1>15, ReviewHolds DEF ReviewArguments
  <2>. QED BY <2>1, <2>2 DEF Agrees, CalculationIsSound, AssessmentIsSound, DecisionIsSound
<1>16. CASE c \in LineageArguments(Names)
  <2>1. c.of = "lineage"
    BY <1>16 DEF LineageArguments
  <2>2. LineageIsSound(c)
    BY <1>16, LineageHolds DEF LineageArguments
  <2>. QED BY <2>1, <2>2 DEF Agrees, CalculationIsSound, AssessmentIsSound, DecisionIsSound
<1>. QED
  BY <1>1, <1>2, <1>3, <1>4, <1>5, <1>6, <1>7, <1>8, <1>9, <1>10, <1>11, <1>12, <1>13, <1>14, <1>15, <1>16 DEF JudgementArguments

-----------------------------------------------------------------------------
(* The calls that the run tries *)

\* Functions on part of a set of keys.
Maps(K, S) == UNION {[known -> S] : known \in SUBSET K}

\* They are some on part of a greater set.
LEMMA MapsIn ==
    ASSUME NEW S, NEW T, NEW K, NEW L, S \subseteq T, K \subseteq L
    PROVE  Maps(K, S) \subseteq Maps(L, T)
<1>. SUFFICES ASSUME NEW f \in Maps(K, S) PROVE f \in Maps(L, T)
  OBVIOUS
<1>1. PICK known \in SUBSET K : f \in [known -> S]
  BY DEF Maps
<1>2. known \in SUBSET L /\ f \in [known -> T]
  BY <1>1
<1>. QED BY <1>2 DEF Maps

\* The same of quantities.
LEMMA CountedIn ==
    ASSUME NEW S, NEW K, S \subseteq Int, K \subseteq Words
    PROVE  UNION {[known -> S] : known \in SUBSET K} \subseteq Counted(Words)
<1>1. Maps(K, S) \subseteq Maps(Words, Int)
  BY MapsIn
<1>. QED BY <1>1 DEF Maps, Counted

ChoiceCalls ==
    Permissions \cup Queries \cup GrayCalls \cup PriceCalls \cup MarketCalls \cup ProfitCalls
    \cup AdBudgets \cup Pacings \cup AdComparisons \cup Urgencies \cup Discrepancies \cup Comparings
    \cup TransferCalls \cup StockAlerts \cup Defects \cup Products

\* The calls of the first half of the decisions take arguments of theirs.
LEMMA ChoiceCallsTake == ASSUME MaxLength <= 60 PROVE ChoiceCalls \subseteq ChoiceArguments(Words)
<1>1. Permissions \subseteq PermissionArguments(Words)
  <2>1. {<<>>, <<1, 2>>, <<2, 1>>} \subseteq Seq(Nat)
    OBVIOUS
  <2>2. {"a", "b", "i"} \subseteq Words
    BY TheWords
  <2>3. /\ {{}, {"a"}} \subseteq SUBSET Words /\ {{}, {"a"}, {"b"}} \subseteq SUBSET Words
        /\ {{}, {"i"}} \subseteq SUBSET Words
        /\ {0, 2} \subseteq Nat /\ {0, 3} \subseteq Nat /\ {2, 3, 4} \subseteq Int
    BY <2>2
  <2>. QED BY ONLY <2>1, <2>3 DEF Permissions, PermissionArguments, Policies
<1>2. Queries \subseteq QueryArguments(Words)
  <2>1. Fields \subseteq Words /\ {"s", "full", "f", "g", "h"} \subseteq Words
    BY TheWords DEF Fields
  <2>2. /\ SUBSET Fields \subseteq SUBSET Words /\ {{"s"}, {"full"}, {}} \subseteq SUBSET Words
        /\ {{}, {"f"}, {"g", "h"}} \subseteq SUBSET Words /\ {{"f", "g"}} \subseteq SUBSET Words
    BY <2>1
  <2>. QED BY ONLY <2>2 DEF Queries, QueryArguments
<1>3. GrayCalls \subseteq GrayArguments(Words)
  <2>1. {"u", "o"} \subseteq Words
    BY TheWords
  <2>2. SUBSET {"u", "o"} \subseteq SUBSET Words /\ {0, 50, 100} \subseteq Nat
    BY <2>1
  <2>. QED BY ONLY <2>2 DEF GrayCalls, GrayArguments
<1>4. PriceCalls \subseteq PriceArguments
  BY DEF PriceCalls, PriceArguments, PriceRules
<1>5. MarketCalls \subseteq MarketArguments
  BY DEF MarketCalls, MarketArguments
<1>6. ProfitCalls \subseteq ProfitArguments
  BY DEF ProfitCalls, ProfitArguments
<1>7. AdBudgets \subseteq AdBudgetArguments
  <2>1. MaxLength \in Nat
    BY FiguresAssumption
  <2>2. \A s \in Lists({0, 1, 150, 333}) : s \in Seq({0, 1, 150, 333}) /\ Len(s) <= 60
    <3>1. \A s \in Lists({0, 1, 150, 333}) : s \in Seq({0, 1, 150, 333}) /\ Len(s) <= MaxLength
      BY <2>1, BoundedIn DEF Lists
    <3>. QED BY <2>1, <3>1
  <2>3. \A s \in Seq({0, 1, 150, 333}) : s \in Seq(Nat) /\ \A i \in 1..Len(s) : s[i] <= 333
    OBVIOUS
  <2>. QED BY ONLY <2>2, <2>3 DEF AdBudgets, AdBudgetArguments
<1>8. Pacings \subseteq PacingArguments
  BY DEF Pacings, PacingArguments
<1>9. AdComparisons \subseteq AdAnomalyArguments
  BY DEF AdComparisons, AdAnomalyArguments, AdFigures, AdFigureSet
<1>10. Urgencies \subseteq UrgencyArguments
  BY DEF Urgencies, UrgencyArguments
<1>11. Discrepancies \subseteq DiscrepancyArguments(Words)
  <2>1. {"a", "b"} \subseteq Words
    BY TheWords
  <2>0. {0, 7, 60} \subseteq Int /\ {0, 7} \subseteq Int
    OBVIOUS
  <2>2. [sku : {"a", "b"}, qty : {0, 7, 60}] \subseteq [sku : Words, qty : Int]
    BY ONLY <2>0, <2>1
  <2>3. BoundedSeq([sku : {"a", "b"}, qty : {0, 7, 60}], 2) \subseteq Seq([sku : Words, qty : Int])
    BY <2>2, BoundedIn
  <2>4. UNION {[s -> {0, 7}] : s \in SUBSET {"a", "b"}} \subseteq Counted(Words)
    BY <2>0, <2>1, CountedIn
  <2>. QED BY ONLY <2>3, <2>4 DEF Discrepancies, DiscrepancyArguments
<1>12. Comparings \subseteq SnapshotsArguments(Words)
  <2>1. {"a", "b"} \subseteq Words
    BY TheWords
  <2>0. {0, 5, 9} \subseteq Int
    OBVIOUS
  <2>2. Snapshots \subseteq Counted(Words)
    BY <2>0, <2>1, CountedIn DEF Snapshots
  <2>. QED BY ONLY <2>2 DEF Comparings, SnapshotsArguments
<1>13. TransferCalls \subseteq TransferArguments
  BY DEF TransferCalls, TransferArguments, TransferStrategies
<1>14. StockAlerts \subseteq StockAlertArguments
  BY DEF StockAlerts, StockAlertArguments
<1>15. Defects \subseteq DefectArguments(Words)
  <2>1. /\ {"damaged", "quality_issue", "wrong_item", "missing", "other"} \subseteq Words
        /\ {"low", "medium", "high", "critical"} \subseteq Words
    BY TheWords
  <2>. QED BY ONLY <2>1 DEF Defects, DefectArguments
<1>16. Products \subseteq ProductArguments(Words)
  <2>1. {"draft", "active", "inactive", "other"} \subseteq Words
    BY TheWords
  <2>. QED BY ONLY <2>1 DEF Products, ProductArguments
<1>. QED
  BY <1>1, <1>2, <1>3, <1>4, <1>5, <1>6, <1>7, <1>8, <1>9, <1>10, <1>11, <1>12, <1>13, <1>14, <1>15, <1>16 DEF ChoiceCalls, ChoiceArguments

JudgementCalls ==
    Compliances \cup Qualities \cup Selections \cup Performances \cup CandidatePairs \cup Inquiries
    \cup Ratings \cup Shipments \cup Changes \cup Series \cup Outliers \cup ThresholdCalls
    \cup Presences \cup Masters \cup Reviews \cup Lineages

\* The calls of the second half of the decisions take arguments of theirs.
LEMMA JudgementCallsTake == JudgementCalls \subseteq JudgementArguments(Words)
<1>1. Compliances \subseteq ComplianceArguments(Words)
  <2>1. /\ BoundedSeq({"prohibited", "trademark", "other"}, 2) \subseteq Seq(Words \cup {"prohibited", "trademark"})
        /\ Lists(ToSet(RiskLevels)) \subseteq Seq(Words \cup ToSet(RiskLevels))
    <3>1. {"prohibited", "trademark", "other"} \subseteq Words \cup {"prohibited", "trademark"}
      BY DEF Words
    <3>. QED BY <3>1, ListsIn, BoundedIn
  <2>. QED BY <2>1 DEF Compliances, ComplianceArguments
<1>2. Qualities \subseteq QualityArguments(Words)
  BY ZenonT(30) DEF Qualities, QualityArguments, Words
<1>3. Selections \subseteq SelectionArguments
  BY DEF Selections, SelectionArguments
<1>4. Performances \subseteq PerformanceArguments
  BY DEF Performances, PerformanceArguments
<1>5. CandidatePairs \subseteq DuplicateArguments(Words)
  <2>1. {"", "u", "v"} \subseteq Words /\ {"", "1"} \subseteq Words /\ {"", "x"} \subseteq Words /\ {"", "short", "long"} \subseteq Words
    BY TheWords
  <2>2. Candidates \subseteq [url : Words, id : Words, platform : Words, title : Words]
    BY ONLY <2>1 DEF Candidates
  <2>. QED BY ONLY <2>2 DEF CandidatePairs, DuplicateArguments
<1>6. Inquiries \subseteq InquiryArguments
  <2>1. Quotes \subseteq QuoteSet /\ [price |-> 700, lead |-> 14, rating |-> 50] \in QuoteSet
    BY DEF Quotes, QuoteSet
  <2>. DEFINE T == {[price |-> 700, lead |-> 14, rating |-> 50]}
  <2>2. T \subseteq QuoteSet
    BY <2>1
  <2>. HIDE DEF T
  <2>3. \A q, r \in Quotes : <<q, r>> \in Seq(QuoteSet) /\ Len(<<q, r>>) >= 2
    BY <2>1
  <2>. DEFINE P == {<<q, r>> : q, r \in Quotes}
  <2>4. ASSUME NEW s \in P PROVE s \in Seq(QuoteSet) /\ Len(s) >= 2
    <3>1. PICK q \in Quotes, r \in Quotes : s = <<q, r>>
      BY <2>4
    <3>. QED BY <2>3, <3>1
  <2>. HIDE DEF P
  <2>5. [of : {"inquiry"}, quotes : P, third : T] \subseteq InquiryArguments
    BY ONLY <2>2, <2>4 DEF InquiryArguments
  <2>. QED BY <2>5 DEF Inquiries, P, T
<1>7. Ratings \subseteq RatingArguments
  BY DEF Ratings, RatingArguments
<1>8. Shipments \subseteq ShipmentArguments(Words)
  <2>1. {"in_transit", "returned", "draft"} \subseteq Words
    BY TheWords
  <2>2. {0, 7, 8, 14, 15} \subseteq Nat
    OBVIOUS
  <2>. QED BY ONLY <2>1, <2>2 DEF Shipments, ShipmentArguments
<1>9. Changes \subseteq ChangeArguments
  BY DEF Changes, ChangeArguments
<1>10. Series \subseteq SeriesArguments
  <2>1. BoundedSeq({0, 1, 9}, 5) \subseteq Seq(Nat)
    BY BoundedIn
  <2>. QED BY <2>1 DEF Series, SeriesArguments
<1>11. Outliers \subseteq OutliersArguments
  <2>1. BoundedSeq({0, 1, 9}, 5) \subseteq Seq(Int)
    BY BoundedIn
  <2>. DEFINE Single(n, k) == [i \in 1..n |-> IF i = k THEN 9 ELSE 0]
              V == BoundedSeq({0, 1, 9}, 5) \cup {Single(n, k) : n \in 9..12, k \in {1, 5}}
  <2>2. \A n \in 9..12, k \in {1, 5} : Single(n, k) \in Seq(Int)
    OBVIOUS
  <2>. HIDE DEF Single
  <2>3. V \subseteq Seq(Int)
    BY ONLY <2>1, <2>2
  <2>. HIDE DEF V
  <2>4. [of : {"outliers"}, z : 1..3, values : V] \subseteq [of : {"outliers"}, values : Seq(Int), z : Nat]
    <3>. 1..3 \subseteq Nat
      OBVIOUS
    <3>. QED BY ONLY <2>3, 1..3 \subseteq Nat
  <2>. QED BY <2>4 DEF Outliers, OutliersArguments, V, Single
<1>12. ThresholdCalls \subseteq ThresholdArguments
  BY DEF ThresholdCalls, ThresholdArguments
<1>13. Presences \subseteq PresenceArguments
  BY DEF Presences, PresenceArguments
<1>14. Masters \subseteq MasterArguments(Words)
  <2>0. {<<"f">>, <<"f", "g">>} \subseteq Seq({"f", "g"})
    OBVIOUS
  <2>1. {"", "x", "y"} \subseteq Words /\ {"f", "g"} \subseteq Words
    BY TheWords
  <2>2. MasterRules \subseteq MasterRuleSet(Words)
    BY ONLY <2>0, <2>1 DEF MasterRules, MasterRuleSet
  <2>3. BoundedSeq(MasterRules, 2) \subseteq Seq(MasterRuleSet(Words))
    BY <2>2, BoundedIn
  <2>4. UNION {[known -> {"", "x", "y"}] : known \in SUBSET {"f", "g"}} \subseteq MasterRecordSet(Words, Words)
    <3>1. Maps({"f", "g"}, {"", "x", "y"}) \subseteq Maps(Words, Words)
      BY <2>1, MapsIn
    <3>. QED BY <3>1 DEF MasterRecordSet, Maps
  <2>. QED BY ONLY <2>3, <2>4 DEF Masters, MasterArguments
<1>15. Reviews \subseteq ReviewArguments(Words)
  <2>1. ReviewRules \subseteq ReviewRuleSet(Words \ {"any"})
    BY DEF ReviewRules, ReviewRuleSet, Words
  <2>2. BoundedSeq(ReviewRules, 2) \subseteq Seq(ReviewRuleSet(Words \ {"any"}))
    BY <2>1, BoundedIn
  <2>. QED BY <2>2, ZenonT(30) DEF Reviews, ReviewArguments, Words
<1>16. Lineages \subseteq LineageArguments(Words)
  <2>1. IsFiniteSet(Nodes) /\ Nodes \subseteq Words
    <3>1. IsFiniteSet({}) /\ IsFiniteSet({} \cup {"a"}) /\ IsFiniteSet(({} \cup {"a"}) \cup {"b"})
      BY FS_EmptySet, FS_AddElement
    <3>2. IsFiniteSet((({} \cup {"a"}) \cup {"b"}) \cup {"c"})
      BY <3>1, FS_AddElement
    <3>3. Nodes = (({} \cup {"a"}) \cup {"b"}) \cup {"c"} /\ Nodes \subseteq Words
      BY TheWords DEF Nodes
    <3>. QED BY ONLY <3>2, <3>3
  <2>2. \A edges \in SUBSET (Nodes \X Nodes) : IsFiniteSet(edges) /\ edges \in SUBSET (Words \X Words)
    BY <2>1, FS_Product, FS_Subset
  <2>. QED BY ONLY <2>2 DEF Lineages, LineageArguments
<1>. QED
  BY <1>1, <1>2, <1>3, <1>4, <1>5, <1>6, <1>7, <1>8, <1>9, <1>10, <1>11, <1>12, <1>13, <1>14, <1>15, <1>16 DEF JudgementCalls, JudgementArguments

-----------------------------------------------------------------------------
(* The invariant *)

\* The statements hold for whatever the calculations take.
LEMMA AllAgree == ASSUME NEW Names, NEW c \in Arguments(Names) PROVE Agrees(c)
  BY FiguresAgree, AssessmentsAgree, ChoicesAgree, JudgementsAgree DEF Arguments

\* Every calculation, score and choice agrees with what it is for, whatever its
\* arguments: the run's invariant, for fifty-three of its sixty-four kinds of
\* calls and for every argument they take, not only those that are tried.
THEOREM ArgumentsAgree ==
    ASSUME NEW Names
    PROVE  figure \in Arguments(Names) /\ [][UNCHANGED figure]_figureVars => []CalculationsAgree
<1>1. figure \in Arguments(Names) => CalculationsAgree
  <2>. SUFFICES ASSUME figure \in Arguments(Names) PROVE CalculationsAgree
    OBVIOUS
  <2>1. Agrees(figure)
    BY AllAgree
  <2>. QED BY <2>1 DEF Agrees, CalculationsAgree
<1>2. figure \in Arguments(Names) /\ [UNCHANGED figure]_figureVars => (figure \in Arguments(Names))'
  BY DEF figureVars
<1>. QED BY <1>1, <1>2, PTL

\* The calls of those kinds that the run tries.
ProvedCalls == FigureCalls \cup AssessmentCalls \cup ChoiceCalls \cup JudgementCalls

\* In particular it is an invariant of every run over these calls, whatever the
\* numbers and lists that are tried, as long as no list has more than sixty
\* campaigns.
THEOREM CallsAgree ==
    ASSUME MaxLength <= 60
    PROVE  figure \in ProvedCalls /\ [][UNCHANGED figure]_figureVars => []CalculationsAgree
<1>1. ProvedCalls \subseteq Arguments(Words)
  BY FigureCallsTake, AssessmentCallsTake, ChoiceCallsTake, JudgementCallsTake DEF ProvedCalls, Arguments
<1>2. figure \in ProvedCalls => figure \in Arguments(Words)
  BY <1>1
<1>3. figure \in Arguments(Words) /\ [][UNCHANGED figure]_figureVars => []CalculationsAgree
  BY ArgumentsAgree
<1>. QED BY <1>2, <1>3, PTL

=============================================================================
