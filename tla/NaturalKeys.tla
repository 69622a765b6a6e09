----------------------------- MODULE NaturalKeys -----------------------------
(***************************************************************************)
(* Codes and numbers that users choose (a SKU code, an order number, ...). *)
(* Every service creates such a row in the same two steps: it looks the    *)
(* code up and refuses it when a row is found, then it inserts.  What      *)
(* differs is the table: which rows the lookup sees, whether the database  *)
(* has a constraint too, and over which tenants, and how rows go away.     *)
(* One code of one table is modelled, used by several tenants.             *)
(* DocNumberService makes the numbers of one document type: the date part  *)
(* of the day and a sequence, which starts again after a reset.            *)
(***************************************************************************)
EXTENDS Integers, FiniteSets

CONSTANTS
    Tenants,      \* tenants that use the code
    KeyRows,      \* ids of rows that may be inserted
    KeySessions,  \* requests that may be in flight together
    NoCreation,   \* a session that is not creating a row
    NumberSessions,  \* requests that may be in flight together
    DaysPerMonth,    \* bound: length of a month
    LastDay,         \* bound: of the clock
    MaxSeq,          \* bound: of the sequence
    NoNumber         \* a session that is not issuing a number

ASSUME KeysAssumption == "none" \notin Tenants

ASSUME DocNumbersAssumption ==
    DaysPerMonth \in Nat \ {0} /\ LastDay \in Nat /\ MaxSeq \in Nat

VARIABLES
    key,        \* the table: never changes
    owner,      \* tenant of each row, or "none"
    deleted,    \* rows with deleted_at set
    creating,   \* per session: the tenant that creates and what its lookup saw
    outcome,    \* per session: how its last creation ended
    overlapped, \* history: rows inserted after a row their lookup would have seen
    numberRule,  \* reset_rule and date_format, current_seq, last_generated_at
    today,       \* the clock
    issuing,     \* per session: the rule it loaded and the number it returns
    issued,      \* history: the numbers handed out
    repeated,    \* history: the numbers handed out twice
    numberRaced  \* history: a number came from an out-of-date rule

keyVars == <<key, owner, deleted, creating, outcome, overlapped>>

-----------------------------------------------------------------------------
(* The tables.  constraint: unique in the database over all tenants, per   *)
(* tenant, or not at all; either where the models and the migrations differ*)
(* lookup: sees every row, the live ones, or those of every tenant.        *)

Keyed(constraint, lookup, deletion) ==
    [constraint |-> constraint, lookup |-> lookup, deletion |-> deletion]

KeyedBy(constraints, lookup, deletion) ==
    {Keyed(c, lookup, deletion) : c \in constraints}

TenantKey       == KeyedBy({"global"}, "anyone's live", "soft")
OrganizationKey == KeyedBy({"none", "tenant"}, "live", "soft")
UserKey         == KeyedBy({"none", "tenant"}, "live", "soft")
RoleKey         == KeyedBy({"none", "tenant"}, "live", "soft")
PositionKey     == KeyedBy({"none"}, "live", "soft")
PermissionKey   == KeyedBy({"global"}, "anyone's", "never")

CategoryKey       == KeyedBy({"none"}, "live", "soft")
BrandKey          == KeyedBy({"none"}, "live", "soft")
SpuKey            == KeyedBy({"global"}, "live", "never")
SkuKey            == KeyedBy({"none"}, "live", "soft")
GeneratedSkuKey   == KeyedBy({"none"}, "all", "soft")
ChannelMappingKey == KeyedBy({"none"}, "all", "never")
ProjectKey        == KeyedBy({"none"}, "live", "never")

SupplierKey == KeyedBy({"none"}, "live", "soft")
OrderKey    == KeyedBy({"global"}, "live", "soft")
InquiryKey  == KeyedBy({"global"}, "all", "never")

StoreKey        == KeyedBy({"none"}, "live", "soft")
SalesOrderKey   == KeyedBy({"global"}, "live", "never")
RefundKey       == KeyedBy({"global"}, "all", "never")
PromotionKey    == KeyedBy({"global"}, "live", "soft")
OrderStrategyKey == KeyedBy({"none"}, "all", "never")

WarehouseKey        == KeyedBy({"none"}, "live", "soft")
TransferKey         == KeyedBy({"global"}, "all", "never")
ProviderKey         == KeyedBy({"none"}, "live", "soft")
ShippingMethodKey   == KeyedBy({"none"}, "all", "never")
CarrierConnectorKey == KeyedBy({"none"}, "all", "never")
LogisticsStrategyKey == KeyedBy({"none"}, "all", "never")

CostEventKey       == KeyedBy({"global"}, "all", "never")
SettlementKey      == KeyedBy({"global"}, "all", "never")
PaymentKey         == KeyedBy({"global"}, "all", "never")
BillingStrategyKey == KeyedBy({"none"}, "all", "never")
VoucherTemplateKey == KeyedBy({"none"}, "all", "never")

CustomerKey  == KeyedBy({"global"}, "all", "soft")
TicketKey    == KeyedBy({"global"}, "all", "never")
ReturnKey    == KeyedBy({"global"}, "all", "never")
ComplaintKey == KeyedBy({"global"}, "all", "never")
SegmentKey   == KeyedBy({"none"}, "all", "never")

CampaignKey     == KeyedBy({"global"}, "live", "soft")
FbaShipmentKey  == KeyedBy({"global"}, "all", "soft")
FbaInventoryKey == KeyedBy({"none"}, "all", "never")
InboundPlanKey  == KeyedBy({"global"}, "all", "never")
FbaExceptionKey == KeyedBy({"global"}, "all", "never")

ConnectorKey  == KeyedBy({"global"}, "anyone's", "hard")
SpiKey        == KeyedBy({"none"}, "all", "never")
PipelineKey   == KeyedBy({"none"}, "all", "never")
BizRuleKey    == KeyedBy({"none"}, "all", "hard")
MasterRuleKey == KeyedBy({"none"}, "all", "never")
DocRuleKey    == KeyedBy({"none"}, "all", "never")
RolloutKey    == KeyedBy({"none"}, "all", "never")
AlertKey      == KeyedBy({"none"}, "all", "never")
ReviewRuleKey == KeyedBy({"tenant"}, "all", "never")
ForexAlertKey == KeyedBy({"tenant"}, "all", "never")

Tables ==
    TenantKey \cup OrganizationKey \cup UserKey \cup RoleKey \cup PositionKey \cup PermissionKey
    \cup CategoryKey \cup BrandKey \cup SpuKey \cup SkuKey \cup GeneratedSkuKey
    \cup ChannelMappingKey \cup ProjectKey
    \cup SupplierKey \cup OrderKey \cup InquiryKey
    \cup StoreKey \cup SalesOrderKey \cup RefundKey \cup PromotionKey \cup OrderStrategyKey
    \cup WarehouseKey \cup TransferKey \cup ProviderKey \cup ShippingMethodKey
    \cup CarrierConnectorKey \cup LogisticsStrategyKey
    \cup CostEventKey \cup SettlementKey \cup PaymentKey \cup BillingStrategyKey
    \cup VoucherTemplateKey
    \cup CustomerKey \cup TicketKey \cup ReturnKey \cup ComplaintKey \cup SegmentKey
    \cup CampaignKey \cup FbaShipmentKey \cup FbaInventoryKey \cup InboundPlanKey
    \cup FbaExceptionKey
    \cup ConnectorKey \cup SpiKey \cup PipelineKey \cup BizRuleKey \cup MasterRuleKey
    \cup DocRuleKey \cup RolloutKey \cup AlertKey \cup ReviewRuleKey \cup ForexAlertKey

-----------------------------------------------------------------------------
(* Lookup, insert, delete *)

Present == {r \in KeyRows : owner[r] # "none"}

Visible(t) ==
    {r \in Present :
        /\ key.lookup \notin {"anyone's", "anyone's live"} => owner[r] = t
        /\ key.lookup \in {"live", "anyone's live"} => r \notin deleted}

\* A deleted row still holds its code for the database.
Clashing(t) ==
    {r \in Present : key.constraint = "global"
                     \/ (key.constraint = "tenant" /\ owner[r] = t)}

\* Mutant of LookedUp: the row that is found is not looked at.
LookedUpIgnored(t) == "none"

\* scalar_one_or_none raises when two rows have the code.
LookedUp(t) ==
    CASE Visible(t) = {} -> "none"
      [] Cardinality(Visible(t)) = 1 -> "duplicate"
      [] OTHER -> "failed"

LookUp(s, t) ==
    /\ creating[s] = NoCreation
    /\ outcome' = [outcome EXCEPT ![s] = LookedUp(t)]
    /\ creating' = IF outcome'[s] = "none"
                      THEN [creating EXCEPT ![s] = [tenant |-> t, saw |-> Visible(t)]]
                      ELSE creating
    /\ UNCHANGED <<key, owner, deleted, overlapped>>

InsertRow(s) ==
    /\ creating[s] # NoCreation
    /\ LET t == creating[s].tenant IN
       IF Clashing(t) # {}
          THEN /\ outcome' = [outcome EXCEPT ![s] = "failed"]
               /\ UNCHANGED <<owner, overlapped>>
          ELSE \E r \in KeyRows \ Present :
                  /\ owner' = [owner EXCEPT ![r] = t]
                  /\ overlapped' = IF Visible(t) \subseteq creating[s].saw
                                      THEN overlapped ELSE overlapped \cup {r}
                  /\ outcome' = [outcome EXCEPT ![s] = "created"]
    /\ creating' = [creating EXCEPT ![s] = NoCreation]
    /\ UNCHANGED <<key, deleted>>

DeleteRow(r) ==
    /\ r \in Present \ deleted
    /\ \/ key.deletion = "soft" /\ deleted' = deleted \cup {r} /\ UNCHANGED <<owner, overlapped>>
       \/ /\ key.deletion = "hard"
          /\ owner' = [owner EXCEPT ![r] = "none"]
          /\ overlapped' = overlapped \ {r}
          /\ UNCHANGED deleted
    /\ UNCHANGED <<key, creating, outcome>>

KeyInit ==
    /\ key \in Tables
    /\ owner = [r \in KeyRows |-> "none"]
    /\ deleted = {}
    /\ creating = [s \in KeySessions |-> NoCreation]
    /\ outcome = [s \in KeySessions |-> "none"]
    /\ overlapped = {}

KeyNext ==
    \/ \E s \in KeySessions : InsertRow(s) \/ \E t \in Tenants : LookUp(s, t)
    \/ \E r \in KeyRows : DeleteRow(r)

KeySpec == KeyInit /\ [][KeyNext]_keyVars

-----------------------------------------------------------------------------
(* Numbers of documents *)

numberVars == <<numberRule, today, issuing, issued, repeated, numberRaced>>

Never == 0 - 1

Month(day) == day \div DaysPerMonth

\* A rule may have an empty format: its numbers show no date.
DatePart(format, day) ==
    CASE format = "%Y%m%d" -> <<"day", day>>
      [] format = "%Y%m"   -> <<"month", Month(day)>>
      [] OTHER             -> <<"none", 0>>

\* Mutant of ShouldReset: the month is compared as the day is.
ShouldResetDaily(rule, day) == rule.last = Never \/ rule.last # day

\* A 'yearly' rule behaves as 'never' within the clock's bound.
ShouldReset(rule, day) ==
    \/ rule.last = Never
    \/ rule.reset = "daily" /\ rule.last # day
    \/ rule.reset = "monthly" /\ Month(rule.last) # Month(day)

NextSeq(rule, day) == (IF ShouldReset(rule, day) THEN 0 ELSE rule.seq) + 1

\* Nothing compares the reset rule with the date format.
DefineRule(reset, format) == [reset |-> reset, format |-> format, seq |-> 0, last |-> Never]

Generate(s) ==
    /\ issuing[s] = NoNumber
    /\ NextSeq(numberRule, today) <= MaxSeq
    /\ issuing' = [issuing EXCEPT ![s] =
                      [rule |-> numberRule, day |-> today,
                       seq |-> NextSeq(numberRule, today)]]
    /\ UNCHANGED <<numberRule, today, issued, repeated, numberRaced>>

\* A sequence that is 1 again after a reset is not written.
CommitNumber(s) ==
    /\ issuing[s] # NoNumber
    /\ LET i == issuing[s]
           number == <<DatePart(i.rule.format, i.day), i.seq>>
       IN /\ numberRule' =
                [numberRule EXCEPT !.seq = IF i.seq = i.rule.seq THEN @ ELSE i.seq,
                                   !.last = i.day]
          /\ issued' = issued \cup {number}
          /\ repeated' = repeated \cup (issued \cap {number})
          /\ numberRaced' = (numberRaced \/ numberRule # i.rule)
    /\ issuing' = [issuing EXCEPT ![s] = NoNumber]
    /\ UNCHANGED today

RollbackNumber(s) ==
    /\ issuing[s] # NoNumber
    /\ issuing' = [issuing EXCEPT ![s] = NoNumber]
    /\ UNCHANGED <<numberRule, today, issued, repeated, numberRaced>>

NextDay ==
    /\ today < LastDay
    /\ today' = today + 1
    /\ UNCHANGED <<numberRule, issuing, issued, repeated, numberRaced>>

NumberInit ==
    /\ \E reset \in {"daily", "monthly", "yearly", "never"}, format \in {"%Y%m%d", "%Y%m", "empty"} :
          numberRule = DefineRule(reset, format)
    /\ today = 0
    /\ issuing = [s \in NumberSessions |-> NoNumber]
    /\ issued = {}
    /\ repeated = {}
    /\ numberRaced = FALSE

NumberNext ==
    \/ NextDay
    \/ \E s \in NumberSessions : Generate(s) \/ CommitNumber(s) \/ RollbackNumber(s)

NumberSpec == NumberInit /\ [][NumberNext]_numberVars

-----------------------------------------------------------------------------
(* Properties *)

KeyTypeOK ==
    /\ key \in Tables
    /\ owner \in [KeyRows -> Tenants \cup {"none"}]
    /\ deleted \subseteq Present /\ overlapped \subseteq Present
    /\ outcome \in [KeySessions -> {"none", "created", "duplicate", "failed"}]

\* Whatever the table, two rows that one lookup sees under one code came from
\* creations that overlapped: the check before the insert is enough for
\* requests that come one after the other.
DuplicatesAreOverlaps ==
    \A t \in Tenants : Cardinality(Visible(t) \ overlapped) <= 1

\* The date part tells apart any two days between which the sequence starts again.
DateTellsResets(rule) ==
    CASE rule.reset = "daily"   -> rule.format = "%Y%m%d"
      [] rule.reset = "monthly" -> rule.format \in {"%Y%m%d", "%Y%m"}
      [] OTHER                  -> TRUE

NumberTypeOK ==
    /\ numberRule \in [reset : {"daily", "monthly", "yearly", "never"},
                       format : {"%Y%m%d", "%Y%m", "empty"},
                       seq : 0..MaxSeq, last : {Never} \cup 0..LastDay]
    /\ today \in 0..LastDay
    /\ repeated \subseteq issued
    /\ numberRaced \in BOOLEAN

\* A number is never handed out twice across days, months and resets, unless
\* two requests issue numbers at the same time or the date part of the rule
\* does not tell the periods of its sequence apart.
NumbersAreUnique ==
    ~numberRaced /\ DateTellsResets(numberRule) => repeated = {}

\* Codes that users choose and numbers that the system issues name one document.
IdentifiersAreUnique ==
    KeyTypeOK /\ DuplicatesAreOverlaps /\ NumberTypeOK /\ NumbersAreUnique
=============================================================================
