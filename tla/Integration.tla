----------------------------- MODULE Integration -----------------------------
(***************************************************************************)
(* The sys module's exchange with other systems: webhooks and their        *)
(* deliveries, captured changes (CDC), suggestions of the AI system and    *)
(* its switches, the PMS adapter, gradual rollouts, store authorisations,  *)
(* secrets, connectors and file imports.                                   *)
(***************************************************************************)
EXTENDS Records

CONSTANTS
    FailureLimit,    \* consecutive failures after which a subscription is in error
    MaxRetries,      \* retries of a captured change, attempts of a delivery
    MaxUses          \* bound: of attempts, accesses, executions and samples

ASSUME IntegrationAssumption == FailureLimit \in Nat \ {0} /\ MaxRetries \in Nat \ {0}

-----------------------------------------------------------------------------
(* Webhooks: subscriptions and deliveries.  A delivery's count is its      *)
(* attempt_count.                                                          *)

SubscriptionCreate ==
    Inserts([kind |-> "subscription", status |-> "active", failures |-> 0, gone |-> FALSE])

OpensSubscription(d, i) == Opens(d, i, "subscription") /\ ~row[i].gone

\* The route takes active and inactive; the failures stay counted.
SubscriptionUpdate(d, i) ==
    /\ OpensSubscription(d, i)
    /\ \E t \in {"active", "inactive"} : Sets(d, i, {}, [status |-> t])

SubscriptionDelete(d, i) == OpensSubscription(d, i) /\ Sets(d, i, {}, [gone |-> TRUE])

\* One delivery for a subscription to the event, in whatever number they are:
\* the bound has one.
TriggerEvent(d, i) ==
    /\ OpensSubscription(d, i)
    /\ row[i].status = "active"
    /\ \E j \in Ids : Free(j, "delivery")
    /\ Takes(d, Only(i, {"status"}), Only(i, None),
             [kind |-> "delivery", status |-> "pending", count |-> 0, of |-> i], None)

\* A delivery whose attempt just made leaves none.
AfterFailure(attempts) == IF attempts >= MaxRetries THEN "abandoned" ELSE "retrying"

OpensDelivery(d, i) == Opens(d, i, "delivery") /\ row[i].count < MaxUses

RetryDelivery(d, i) ==
    /\ OpensDelivery(d, i)
    /\ row[i].status \notin {"success", "abandoned"}
    /\ Counts(d, i, {}, [count |-> row[i].count + 1, status |-> AfterFailure(row[i].count + 1)], 1)

\* What the result of an attempt does to the subscription, unless it was deleted.
WithSubscription(d, i, set, subset) ==
    LET sub == row[i].of
        found == ~row[sub].gone
    IN  Takes(d, Both(Only(i, DOMAIN set), IF found THEN Only(sub, DOMAIN subset) ELSE None),
              Both(Only(i, set), IF found THEN Only(sub, subset) ELSE None), NoRow, Only(i, 1))

\* In any status.
MarkDeliverySuccess(d, i) ==
    /\ OpensDelivery(d, i)
    /\ WithSubscription(d, i, [status |-> "success", count |-> row[i].count + 1], [failures |-> 0])

\* Mutant of MarkDeliveryFailed: the attempts are compared before this one counts.
MarkDeliveryFailedEarly(d, i) ==
    /\ OpensDelivery(d, i)
    /\ row[row[i].of].failures < FailureLimit
    /\ LET failures == row[row[i].of].failures + 1 IN
       WithSubscription(d, i,
           [count |-> row[i].count + 1, status |-> AfterFailure(row[i].count)],
           [failures |-> failures,
            status |-> IF failures >= FailureLimit THEN "error" ELSE row[row[i].of].status])

\* In any status: a success or an abandoned delivery may go on retrying.
\* Bounded: failures beyond the limit are not counted on.
MarkDeliveryFailed(d, i) ==
    /\ OpensDelivery(d, i)
    /\ row[row[i].of].failures < FailureLimit
    /\ LET failures == row[row[i].of].failures + 1 IN
       WithSubscription(d, i,
           [count |-> row[i].count + 1, status |-> AfterFailure(row[i].count + 1)],
           [failures |-> failures,
            status |-> IF failures >= FailureLimit THEN "error" ELSE row[row[i].of].status])

-----------------------------------------------------------------------------
(* Captured changes *)

IngestEvent ==
    Inserts([kind |-> "cdc_event", status |-> "pending", retries |-> 0, processed_at |-> FALSE])

\* What a batch makes of one pending event.
Ingested(r) ==
    {[status |-> "skipped"], [status |-> "processed", processed_at |-> TRUE],
     [status |-> IF r.retries + 1 >= MaxRetries THEN "failed" ELSE "retrying",
      retries |-> r.retries + 1]}

CdcEvents(statuses) == {i \in RowsOf("cdc_event") : row[i].status \in statuses}

Columns(set) == [i \in DOMAIN set |-> DOMAIN set[i] \cup {"status"}]

\* Mutant of ProcessPendingEvents: events to be retried are taken up too.
ProcessPendingEventsAndRetries(d) ==
    LET pending == CdcEvents({"pending", "retrying"}) IN
    /\ Idle(d) /\ pending # {}
    /\ \E set \in [pending -> UNION {Ingested(row[i]) : i \in pending}] :
          /\ \A i \in pending : set[i] \in Ingested(row[i])
          /\ Takes(d, Columns(set), set, NoRow, None)

\* All pending events in one request; what is to be retried is not taken up.
\* (retry_failed_events takes up 'failed', which no event reaches at its first
\* and only attempt: max_retries is 3.)
ProcessPendingEvents(d) ==
    LET pending == CdcEvents({"pending"}) IN
    /\ Idle(d) /\ pending # {}
    /\ \E set \in [pending -> UNION {Ingested(row[i]) : i \in pending}] :
          /\ \A i \in pending : set[i] \in Ingested(row[i])
          /\ Takes(d, Columns(set), set, NoRow, None)

-----------------------------------------------------------------------------
(* Suggestions of the AI system, switches, gradual rollouts *)

ReceiveSuggestion == Inserts([kind |-> "suggestion", status |-> "pending"])

\* The domain action completes or fails; 'executing' is never committed.
ExecuteSuggestion(d, i) ==
    /\ Opens(d, i, "suggestion")
    /\ row[i].status \in {"pending", "accepted"}
    /\ \E t \in {"completed", "failed"} : Sets(d, i, {}, [status |-> t])

\* Accepting may execute at once.
AcceptSuggestion(d, i) ==
    /\ Opens(d, i, "suggestion")
    /\ row[i].status = "pending"
    /\ \E t \in {"accepted", "completed", "failed"} : Sets(d, i, {}, [status |-> t])

RejectSuggestion(d, i) ==
    /\ Opens(d, i, "suggestion")
    /\ row[i].status = "pending"
    /\ Sets(d, i, {}, [status |-> "rejected"])

RollbackSuggestion(d, i) ==
    /\ Opens(d, i, "suggestion")
    /\ row[i].status = "completed"
    /\ Sets(d, i, {}, [status |-> "rolled_back"])

\* count is current_daily_count; can_auto_execute only reads it.
SetSwitch == Inserts([kind |-> "ai_switch", count |-> 0])

RecordExecution(d, i) ==
    /\ Opens(d, i, "ai_switch") /\ row[i].count < MaxUses
    /\ Counts(d, i, {}, [count |-> row[i].count + 1], 1)

ResetDailyCounts(d, i) ==
    /\ Opens(d, i, "ai_switch")
    /\ Counts(d, i, {}, [count |-> 0], 0 - row[i].count)

\* count is current_sample_count.
CreateConfig ==
    \E percent \in {0, 50} :
        Inserts([kind |-> "rollout", percent |-> percent, rolled_back |-> FALSE, count |-> 0])

UpdateRolloutPercent(d, i) ==
    /\ Opens(d, i, "rollout")
    /\ \E percent \in {0, 50, 100} : Sets(d, i, {}, [percent |-> percent, rolled_back |-> FALSE])

\* Whether the error rate reaches the threshold is open.
RecordExecutionResult(d, i) ==
    /\ Opens(d, i, "rollout") /\ row[i].count < MaxUses
    /\ \/ Counts(d, i, {}, [count |-> row[i].count + 1], 1)
       \/ Counts(d, i, {}, [count |-> row[i].count + 1, percent |-> 0, rolled_back |-> TRUE], 1)

ManualRollback(d, i) ==
    /\ Opens(d, i, "rollout")
    /\ Sets(d, i, {}, [percent |-> 0, rolled_back |-> TRUE])

-----------------------------------------------------------------------------
(* The PMS adapter keeps recommendations and drafts of its own; nothing    *)
(* looks at requires_approval.                                             *)

AdapterReceive ==
    Inserts([kind |-> "pms_recommendation", status |-> "pending", executed_at |-> FALSE])

AdapterMoves(d, i, from, set) ==
    /\ Opens(d, i, "pms_recommendation")
    /\ row[i].status \in from
    /\ Sets(d, i, {"status"}, set)

AdapterAccept(d, i) == AdapterMoves(d, i, {"pending"}, [status |-> "accepted"])

AdapterReject(d, i) == AdapterMoves(d, i, {"pending", "accepted"}, [status |-> "rejected"])

AdapterExecute(d, i) ==
    AdapterMoves(d, i, {"accepted"}, [status |-> "executed", executed_at |-> TRUE])

AdapterRollback(d, i) == AdapterMoves(d, i, {"executed"}, [status |-> "rolled_back"])

ReceiveDraft == Inserts([kind |-> "pms_draft", status |-> "draft"])

AcceptDraft(d, i) ==
    /\ Opens(d, i, "pms_draft")
    /\ row[i].status = "draft"
    /\ Sets(d, i, {}, [status |-> "accepted"])

-----------------------------------------------------------------------------
(* Store authorisations; token: an access token is stored.                 *)

AuthorizeNew ==
    \E token \in BOOLEAN :
        Inserts([kind |-> "store_auth", status |-> IF token THEN "authorized" ELSE "pending",
                 active |-> TRUE, token |-> token])

\* Only of a revoked store; without a token it is authorised all the same.
AuthorizeAgain(d, i) ==
    /\ Opens(d, i, "store_auth")
    /\ ~row[i].active
    /\ \E token \in BOOLEAN :
          Sets(d, i, {}, [active |-> TRUE, status |-> "authorized", token |-> token])

\* Mutant of RefreshToken: a revoked authorisation is refreshed too.
RefreshTokenRevoked(d, i) ==
    /\ Opens(d, i, "store_auth")
    /\ \E token \in {row[i].token, TRUE} :
          Sets(d, i, {"active"}, [token |-> token, status |-> "authorized"])

\* The failures it counts are rolled back with the exception it raises again.
RefreshToken(d, i) ==
    /\ Opens(d, i, "store_auth")
    /\ row[i].active
    /\ \E token \in {row[i].token, TRUE} :
          Sets(d, i, {"active"}, [token |-> token, status |-> "authorized"])

RevokeAuthorization(d, i) ==
    /\ Opens(d, i, "store_auth")
    /\ Sets(d, i, {}, [status |-> "revoked", active |-> FALSE, token |-> FALSE])

CheckAndMarkExpired(d, i) ==
    /\ Opens(d, i, "store_auth")
    /\ row[i].active /\ row[i].status = "authorized"
    /\ Sets(d, i, {"active"}, [status |-> "token_expired"])

-----------------------------------------------------------------------------
(* Secrets, connectors, imports *)

StoreSecret == Inserts([kind |-> "secret", active |-> TRUE, count |-> 0])

GetSecret(d, i) ==
    /\ Opens(d, i, "secret")
    /\ row[i].active /\ row[i].count < MaxUses
    /\ Counts(d, i, {"active"}, [count |-> row[i].count + 1], 1)

DeactivateSecret(d, i) == Opens(d, i, "secret") /\ Sets(d, i, {}, [active |-> FALSE])

CreateConnector == Inserts([kind |-> "connector", status |-> "draft", is_active |-> TRUE])

ActivateConnector(d, i) ==
    /\ Opens(d, i, "connector")
    /\ Sets(d, i, {}, [status |-> "active", is_active |-> TRUE])

DeactivateConnector(d, i) ==
    /\ Opens(d, i, "connector")
    /\ Sets(d, i, {}, [status |-> "inactive", is_active |-> FALSE])

\* Of an inactive connector too, which then has the status of an active one.
HealthCheck(d, i) ==
    /\ Opens(d, i, "connector")
    /\ \E t \in {"active", "error"} : Sets(d, i, {}, [status |-> t])

CreateImportJob ==
    Inserts([kind |-> "import", status |-> "pending", started_at |-> FALSE, completed_at |-> FALSE])

\* In any status; 'validating' is never committed.
ValidateCsv(d, i) ==
    /\ Opens(d, i, "import")
    /\ \E t \in {"importing", "failed"} : Sets(d, i, {}, [status |-> t, started_at |-> TRUE])

\* In any status.
CompleteImport(d, i) ==
    /\ Opens(d, i, "import")
    /\ \E t \in {"completed", "completed_with_errors", "failed"} :
          Sets(d, i, {}, [status |-> t, completed_at |-> TRUE])

CancelImport(d, i) ==
    /\ Opens(d, i, "import")
    /\ row[i].status \notin {"completed", "failed"}
    /\ Sets(d, i, {}, [status |-> "cancelled"])

IntegrationNext ==
    \/ SubscriptionCreate \/ IngestEvent \/ ReceiveSuggestion \/ SetSwitch \/ CreateConfig
    \/ AdapterReceive \/ ReceiveDraft \/ AuthorizeNew \/ StoreSecret \/ CreateConnector
    \/ CreateImportJob
    \/ \E d \in Desks : ProcessPendingEvents(d)
    \/ \E d \in Desks, i \in Ids :
        \/ SubscriptionUpdate(d, i) \/ SubscriptionDelete(d, i) \/ TriggerEvent(d, i)
        \/ RetryDelivery(d, i) \/ MarkDeliverySuccess(d, i) \/ MarkDeliveryFailed(d, i)
        \/ ExecuteSuggestion(d, i) \/ AcceptSuggestion(d, i) \/ RejectSuggestion(d, i)
        \/ RollbackSuggestion(d, i) \/ RecordExecution(d, i) \/ ResetDailyCounts(d, i)
        \/ UpdateRolloutPercent(d, i) \/ RecordExecutionResult(d, i) \/ ManualRollback(d, i)
        \/ AdapterAccept(d, i) \/ AdapterReject(d, i) \/ AdapterExecute(d, i)
        \/ AdapterRollback(d, i) \/ AcceptDraft(d, i)
        \/ AuthorizeAgain(d, i) \/ RefreshToken(d, i) \/ RevokeAuthorization(d, i)
        \/ CheckAndMarkExpired(d, i) \/ GetSecret(d, i) \/ DeactivateSecret(d, i)
        \/ ActivateConnector(d, i) \/ DeactivateConnector(d, i) \/ HealthCheck(d, i)
        \/ ValidateCsv(d, i) \/ CompleteImport(d, i) \/ CancelImport(d, i)

-----------------------------------------------------------------------------
(* Properties *)

\* A change to be retried is left as it is, for good.
IntegrationFinal(r) ==
    CASE r.kind = "cdc_event"          -> r.status \in {"processed", "skipped", "retrying"}
      [] r.kind = "suggestion"         -> r.status \in {"rejected", "failed", "rolled_back"}
      [] r.kind = "pms_recommendation" -> r.status \in {"rejected", "rolled_back"}
      [] r.kind = "pms_draft"          -> r.status = "accepted"
      [] OTHER                         -> FALSE

\* The columns a status goes with: dates, attempts left, tokens, percentages.
IntegrationDated(r) ==
    CASE r.kind = "delivery" ->
            /\ r.status = "retrying" => r.count < MaxRetries
            /\ r.status = "abandoned" => r.count >= MaxRetries
      [] r.kind = "cdc_event" -> (r.status = "processed") = r.processed_at
      [] r.kind = "rollout" -> r.rolled_back => r.percent = 0
      [] r.kind = "pms_recommendation" ->
            r.status \in {"executed", "rolled_back"} => r.executed_at
      [] r.kind = "store_auth" ->
            /\ (r.status = "revoked") = ~r.active
            /\ ~r.active => ~r.token
      [] r.kind = "connector" -> r.status = "inactive" => ~r.is_active
      [] r.kind = "import" ->
            /\ r.status \in {"completed", "completed_with_errors"} => r.completed_at
            /\ r.status = "importing" => r.started_at
      [] OTHER -> TRUE
=============================================================================
