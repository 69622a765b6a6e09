-------------------------- MODULE PmsRecommendation --------------------------
(***************************************************************************)
(* RecommendationService (modules/sys/application/services.py) over the    *)
(* approval engine: the AI system (PMS) submits a recommendation and moves *)
(* it through RECOMMENDATION_STATE_TRANSITIONS; moving it to               *)
(* pending_approval opens an approval instance in the same transaction.    *)
(* Nothing brings the approval's decision back to the recommendation:      *)
(* "approved" is a transition like the others.                             *)
(*                                                                         *)
(* A transition is three steps, at the awaits of transition_status: the    *)
(* row is loaded and its status compared with the table; the UPDATE is     *)
(* flushed, under the row lock, and the event published; the session of    *)
(* the request commits or, the event being out already, does not.  The     *)
(* instance of a submission becomes visible with the commit; an edit of    *)
(* its flow after the lookup and before that is left out.                  *)
(***************************************************************************)
EXTENDS Approval, Integers, FiniteSets

CONSTANTS
    PmsCode,        \* "pms_recommendation_approval"
    PmsSessions,    \* requests that move a recommendation at the same time
    NoChange,       \* what a session is at when it moves none
    MaxEvents       \* bound: events published for one recommendation

ASSUME PmsCodeAssumption == PmsCode \in Codes
ASSUME EventsAssumption == MaxEvents \in Nat

VARIABLES
    rec,            \* committed status of each recommendation ("none": not received)
    published,      \* recommendation events published, in order
    change,         \* the transition that each session is at
    slips           \* history: of each recommendation, the transitions written over
                    \* another one or lost after their event was published

recVars == <<rec, published, change, slips>>

-----------------------------------------------------------------------------
(* Data and transition table *)

RecStatuses == {"none", "submitted", "accepted", "pending_approval", "approved", "executing",
    "partially_executed", "executed", "failed", "rolled_back", "measured", "reviewed",
    "approval_rejected", "rejected"}

\* A transition that a session is at: the statuses it goes from and to, and
\* whether its UPDATE is flushed.
Change == [on : Targets, from : RecStatuses, to : RecStatuses, flushed : BOOLEAN]

ASSUME NoChangeAssumption == NoChange \notin Change

\* Mutant of Allowed: an accepted recommendation may be approved directly.
AllowedSkippingApproval(status) ==
    CASE status = "submitted" -> {"accepted", "rejected"}
      [] status = "accepted" -> {"pending_approval", "approved", "rejected"}
      [] status = "pending_approval" -> {"approved", "approval_rejected"}
      [] status = "approved" -> {"executing"}
      [] OTHER -> {}

\* RECOMMENDATION_STATE_TRANSITIONS
Allowed(status) ==
    CASE status = "submitted" -> {"accepted", "rejected"}
      [] status = "accepted" -> {"pending_approval", "rejected"}
      [] status = "pending_approval" -> {"approved", "approval_rejected"}
      [] status = "approved" -> {"executing"}
      [] status = "executing" -> {"partially_executed", "executed", "failed"}
      [] status = "partially_executed" -> {"executed", "failed", "rolled_back"}
      [] status = "executed" -> {"measured", "rolled_back"}
      [] status = "failed" -> {"executing", "rolled_back"}
      [] status = "measured" -> {"reviewed"}
      [] OTHER -> {}

\* Mutant of Announces: failures are not published.
AnnouncesSuccess == {"rejected", "approved", "executing", "executed", "rolled_back"}

\* The statuses whose transition publishes an event (event_map).
Announces == {"rejected", "approved", "executing", "executed", "failed", "rolled_back"}

-----------------------------------------------------------------------------
(* Operations *)

\* receive_recommendation publishes RecommendationAccepted.
receive_recommendation(r) ==
    /\ rec[r] = "none"
    /\ rec' = [rec EXCEPT ![r] = "submitted"]
    /\ published' = [published EXCEPT ![r] = Append(@, "accepted")]
    /\ UNCHANGED <<vars, change, slips>>

\* transition_status loads the row and compares its status with the table.
load_status(s, r, new) ==
    /\ change[s] = NoChange
    /\ new \in Allowed(rec[r])
    /\ change' = [change EXCEPT ![s] = [on |-> r, from |-> rec[r], to |-> new, flushed |-> FALSE]]
    /\ UNCHANGED <<vars, rec, published, slips>>

\* A session that flushed its UPDATE holds the lock of the row until it ends.
Holds(s, r) == change[s] # NoChange /\ change[s].flushed /\ change[s].on = r

\* _get_flow_by_code finds a flow that an approval can start with.
Approvable == \E f \in Flows : Active(PmsCode) = {f} /\ flow[f].nodes # <<>>

\* update_status writes the status, whatever the row has become (get_by_id
\* finds the object that the session has loaded); an approval is submitted, or
\* the event published.
flush_status(s) ==
    LET c == change[s] IN
    /\ c # NoChange /\ ~c.flushed
    /\ \A t \in PmsSessions : ~Holds(t, c.on)
    /\ c.to = "pending_approval" => Approvable
    /\ c.to \in Announces => Len(published[c.on]) < MaxEvents
    /\ change' = [change EXCEPT ![s].flushed = TRUE]
    /\ published' = IF c.to \in Announces
                    THEN [published EXCEPT ![c.on] = Append(@, c.to)] ELSE published
    /\ slips' = IF rec[c.on] # c.from THEN [slips EXCEPT ![c.on] = @ + 1] ELSE slips
    /\ UNCHANGED <<vars, rec>>

EndsChange(s) ==
    /\ change[s] # NoChange
    /\ change' = [change EXCEPT ![s] = NoChange]
    /\ UNCHANGED published

\* The request commits a transition to any status but pending_approval.
commit_status(s) ==
    /\ EndsChange(s)
    /\ change[s].flushed /\ change[s].to # "pending_approval"
    /\ rec' = [rec EXCEPT ![change[s].on] = change[s].to]
    /\ UNCHANGED <<vars, slips>>

\* A transition to pending_approval commits with the instance that it submitted.
commit_approval(s, i, f) ==
    /\ EndsChange(s)
    /\ change[s].flushed /\ change[s].to = "pending_approval"
    /\ rec' = [rec EXCEPT ![change[s].on] = change[s].to]
    /\ flow[f].code = PmsCode
    /\ submit(i, f, change[s].on)
    /\ UNCHANGED slips

\* An exception (no flow for the approval), or a commit that does not come
\* through: the session rolls back, and what it published stays published.
fail_status(s) ==
    /\ EndsChange(s)
    /\ slips' = IF change[s].flushed /\ change[s].to \in Announces
                THEN [slips EXCEPT ![change[s].on] = @ + 1] ELSE slips
    /\ UNCHANGED <<vars, rec>>

-----------------------------------------------------------------------------
(* Specification *)

RecInit ==
    /\ Init
    /\ rec = [r \in Targets |-> "none"]
    /\ published = [r \in Targets |-> <<>>]
    /\ change = [s \in PmsSessions |-> NoChange]
    /\ slips = [r \in Targets |-> 0]

ChangeNext(s) ==
    \/ \E r \in Targets, new \in RecStatuses : load_status(s, r, new)
    \/ flush_status(s)
    \/ commit_status(s)
    \/ \E i \in Instances, f \in Flows : commit_approval(s, i, f)
    \/ fail_status(s)

RecNext ==
    \/ \E r \in Targets : receive_recommendation(r)
    \/ \E s \in PmsSessions : ChangeNext(s)
    \/ Next /\ UNCHANGED recVars

RecSpec == RecInit /\ [][RecNext]_<<vars, recVars>>

-----------------------------------------------------------------------------
(* Properties *)

\* Type invariant.
RecTypeOK ==
    /\ TypeOK
    /\ rec \in [Targets -> RecStatuses]
    /\ published \in [Targets -> Seq(Announces \cup {"accepted"})]
    /\ change \in [PmsSessions -> Change \cup {NoChange}]
    /\ slips \in [Targets -> Nat]

\* Statuses a recommendation reaches through pending_approval only.
PastApproval == RecStatuses \ {"none", "submitted", "accepted", "rejected"}

\* No recommendation gets past "accepted" without an approval instance opened
\* for it, whatever happens to the flows meanwhile and however transitions
\* overlap.
SubmittedToApproval ==
    \A r \in Targets : rec[r] \in PastApproval =>
        \E i \in Instances : instance[i].status # "none" /\ instance[i].target = r

Count(r, names) == Cardinality({n \in 1..Len(published[r]) : published[r][n] \in names})

\* The status whose event was published last, committed or not.
Standing(r) ==
    IF \E s \in PmsSessions : Holds(s, r)
    THEN change[CHOOSE s \in PmsSessions : Holds(s, r)].to ELSE rec[r]

\* How many executions a recommendation in this status has under way; one that
\* was rolled back may have been while it ran.
UnderWay(status) ==
    CASE status \in {"executing", "partially_executed"} -> {1}
      [] status = "rolled_back" -> {0, 1}
      [] OTHER -> {0}

\* A consumer can pair outcomes with executions: the "executing" events without
\* an "executed" or "failed" one are those that the status tells, and each event
\* too many or too few has cost two overlapping transitions or a commit lost
\* after its event.
OutcomesMatchExecutions ==
    \A r \in Targets : \E n \in UnderWay(Standing(r)) :
        Count(r, {"executing"}) - Count(r, {"executed", "failed"}) - n \in -slips[r]..slips[r]

\* The requirement that AI actions are executed after a human approval: a
\* recommendation that executes has an approved approval instance.
ExecutesWhenApproved ==
    \A r \in Targets : rec[r] \in {"approved", "executing"} =>
        \E i \in Instances : instance[i].target = r /\ instance[i].status = "approved"
=============================================================================
