------------------------------- MODULE PmsIntake -------------------------------
(***************************************************************************)
(* What the AI system (PMS) sends to the ERP: recommendations and, without *)
(* their extra check and event, drafts, risk alerts and insight cards (the *)
(* receive_* methods of modules/sys/application/services.py).  A write     *)
(* carries an idempotency key; IdempotencyService looks the key up at the  *)
(* start and inserts it at the end of the request's transaction.  The      *)
(* column is unique, so an INSERT of a key waits for a transaction that    *)
(* has inserted it and has not ended, and fails if that one commits.       *)
(*                                                                         *)
(* A recommendation is announced before the commit, on an in-memory        *)
(* publisher that a rollback does not reach.                               *)
(***************************************************************************)
EXTENDS Naturals

CONSTANTS
    Sessions,       \* concurrent requests
    Tenants,
    Keys,           \* idempotency keys (X-Idempotency-Key, required)
    Recs,           \* recommendation ids the PMS gives
    MaxRequests,    \* bound: requests sent in all
    Nil             \* no tenant

ASSUME NilAssumption == Nil \notin Tenants
ASSUME RequestsAssumption == MaxRequests \in Nat

VARIABLES
    rows,           \* committed recommendations and drafts
    records,        \* committed idempotency_record: the tenant of each key
    sess,           \* the request of each session
    published,      \* RecommendationAccepted published: numbers of the requests
    lost,           \* history: requests whose commit failed
    sent            \* requests sent so far

vars == <<rows, records, sess, published, lost, sent>>

-----------------------------------------------------------------------------
(* Data *)

Kinds == {"recommendation", "draft"}

\* Requests are numbered; `seen` is history: the rows committed when it came.
Request == [n : 1..MaxRequests, kind : Kinds, tenant : Tenants, key : Keys, rec : Recs,
            seen : SUBSET (1..MaxRequests)]

Steps == {"check_key", "check_rec", "record", "commit"}

Idle == [step |-> "idle"]

Busy(s) == sess[s].step # "idle"

At(s, step) == sess[s].step = step

Goto(s, step) == sess' = [sess EXCEPT ![s].step = step]

End(s) == sess' = [sess EXCEPT ![s] = Idle]

\* get_by_recommendation_id: the committed recommendations of the tenant.
Known(tenant, rec) ==
    {r \in rows : r.kind = "recommendation" /\ r.tenant = tenant /\ r.rec = rec}

-----------------------------------------------------------------------------
(* Steps of a request *)

Send(s, kind, tenant, key, rec) ==
    /\ ~Busy(s)
    /\ sent < MaxRequests
    /\ sent' = sent + 1
    /\ sess' = [sess EXCEPT ![s] =
                  [step |-> "check_key",
                   request |-> [n |-> sent + 1, kind |-> kind, tenant |-> tenant, key |-> key,
                                rec |-> rec, seen |-> {r.n : r \in rows}]]]
    /\ UNCHANGED <<rows, records, published, lost>>

\* Mutant of Refuse: the error of the unique index is not raised.
RefuseChecksOnly(s) ==
    LET q == sess[s].request IN
    /\ \/ At(s, "check_key") /\ records[q.key] = q.tenant
       \/ At(s, "check_rec") /\ Known(q.tenant, q.rec) # {}
    /\ End(s)
    /\ UNCHANGED <<rows, records, published, lost, sent>>

\* IdempotencyConflictException from the two checks (or MultipleResultsFound
\* when the recommendation is there twice), IntegrityError from the INSERT of
\* the key: the request is rolled back.
Refuse(s) ==
    LET q == sess[s].request IN
    /\ \/ At(s, "check_key") /\ records[q.key] = q.tenant
       \/ At(s, "check_rec") /\ Known(q.tenant, q.rec) # {}
       \/ At(s, "record") /\ records[q.key] # Nil
    /\ End(s)
    /\ UNCHANGED <<rows, records, published, lost, sent>>

\* check_and_record finds no record of this tenant (it records nothing).
CheckKey(s) ==
    LET q == sess[s].request IN
    /\ At(s, "check_key")
    /\ records[q.key] # q.tenant
    /\ Goto(s, IF q.kind = "recommendation" THEN "check_rec" ELSE "record")
    /\ UNCHANGED <<rows, records, published, lost, sent>>

\* Mutant of CheckRec: the recommendation is not looked up.
CheckRecSkipped(s) ==
    /\ At(s, "check_rec")
    /\ Goto(s, "record")
    /\ UNCHANGED <<rows, records, published, lost, sent>>

\* Mutant of CheckRec: the event is published before the key is recorded.
CheckRecAnnounces(s) ==
    LET q == sess[s].request IN
    /\ At(s, "check_rec")
    /\ Known(q.tenant, q.rec) = {}
    /\ Goto(s, "record")
    /\ published' = published \cup {q.n}
    /\ UNCHANGED <<rows, records, lost, sent>>

CheckRec(s) ==
    LET q == sess[s].request IN
    /\ At(s, "check_rec")
    /\ Known(q.tenant, q.rec) = {}
    /\ Goto(s, "record")
    /\ UNCHANGED <<rows, records, published, lost, sent>>

\* Sessions that have inserted the key and not yet ended.
Holders(key) == {s \in Sessions : At(s, "commit") /\ sess[s].request.key = key}

\* Mutant of Record: the key is not unique.
RecordAgain(s) ==
    LET q == sess[s].request IN
    /\ At(s, "record")
    /\ Goto(s, "commit")
    /\ published' = IF q.kind = "recommendation" THEN published \cup {q.n} ELSE published
    /\ UNCHANGED <<rows, records, lost, sent>>

\* The row and the key are flushed, then a recommendation is announced.
Record(s) ==
    LET q == sess[s].request IN
    /\ At(s, "record")
    /\ records[q.key] = Nil
    /\ Holders(q.key) = {}
    /\ Goto(s, "commit")
    /\ published' = IF q.kind = "recommendation" THEN published \cup {q.n} ELSE published
    /\ UNCHANGED <<rows, records, lost, sent>>

\* Mutant of Commit: the record is stored under its key.
CommitUntenanted(s) ==
    LET q == sess[s].request IN
    /\ At(s, "commit")
    /\ rows' = rows \cup {q}
    /\ records' = [records EXCEPT ![q.key] = q.key]
    /\ End(s)
    /\ UNCHANGED <<published, lost, sent>>

Commit(s) ==
    LET q == sess[s].request IN
    /\ At(s, "commit")
    /\ rows' = rows \cup {q}
    /\ records' = [records EXCEPT ![q.key] = q.tenant]
    /\ End(s)
    /\ UNCHANGED <<published, lost, sent>>

\* The connection is lost at the commit: row and key are gone.
CommitFails(s) ==
    /\ At(s, "commit")
    /\ lost' = lost \cup {sess[s].request.n}
    /\ End(s)
    /\ UNCHANGED <<rows, records, published, sent>>

-----------------------------------------------------------------------------
(* Specification *)

Init ==
    /\ rows = {}
    /\ records = [k \in Keys |-> Nil]
    /\ sess = [s \in Sessions |-> Idle]
    /\ published = {}
    /\ lost = {}
    /\ sent = 0

Step(s) == Refuse(s) \/ CheckKey(s) \/ CheckRec(s) \/ Record(s) \/ Commit(s) \/ CommitFails(s)

Next == \E s \in Sessions :
    \/ \E kind \in Kinds, tenant \in Tenants, key \in Keys, rec \in Recs :
          Send(s, kind, tenant, key, rec)
    \/ Step(s)

Spec == Init /\ [][Next]_vars

\* The event loop resumes every coroutine whose await is done.
FairSpec == Spec /\ \A s \in Sessions : WF_vars(Step(s))

-----------------------------------------------------------------------------
(* Properties *)

\* Type invariant.
TypeOK ==
    /\ rows \subseteq Request
    /\ records \in [Keys -> Tenants \cup {Nil}]
    /\ sess \in [Sessions -> [step : Steps, request : Request] \cup {Idle}]
    /\ published \subseteq 1..MaxRequests /\ lost \subseteq 1..MaxRequests
    /\ sent \in 0..MaxRequests

\* A delivery that is repeated, overlaps itself or is sent again after a lost
\* commit is stored at most once: committed rows have keys of their own, and a
\* key is taken exactly when a row of its tenant has it.
KeyedOnce ==
    \A k \in Keys :
        LET stored == {r \in rows : r.key = k} IN
        /\ \A r1, r2 \in stored : r1 = r2
        /\ records[k] # Nil <=> stored # {}
        /\ \A r \in stored : r.tenant = records[k]

Duplicates(r1, r2) ==
    /\ r1.kind = "recommendation" /\ r2.kind = "recommendation" /\ r1.n # r2.n
    /\ r1.tenant = r2.tenant /\ r1.rec = r2.rec

\* A recommendation id is stored twice only by requests that overlapped: one
\* that arrives when the first is committed is refused, whatever its key.
DuplicatesOverlapped ==
    \A r1, r2 \in rows : Duplicates(r1, r2) => r1.n \notin r2.seen

\* What was announced and is neither stored nor in flight was lost at its
\* commit: a request that is refused, or that loses the race for its key, has
\* announced nothing.
GhostsWereLost ==
    \A n \in published :
        \/ n \in lost
        \/ \E r \in rows : r.n = n
        \/ \E s \in Sessions : At(s, "commit") /\ sess[s].request.n = n

\* Every delivery is answered: two requests with one key wait for each other
\* on the unique index for as long as a transaction lasts.
RequestsEnd == \A s \in Sessions : Busy(s) ~> ~Busy(s)
=============================================================================
