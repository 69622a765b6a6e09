--------------------------- MODULE ApprovalSessions ---------------------------
(***************************************************************************)
(* ApprovalService.approve taken apart at its awaits: load the task, load  *)
(* the instance, flush the task, flush the instance (publishing a decision *)
(* on the way), commit.  Every request has its own session at READ         *)
(* COMMITTED; a flush waits for the row lock of a request that flushed the *)
(* row before and has not ended, then overwrites its columns.  The event   *)
(* publisher is in memory: what is published before the commit stays       *)
(* published if the commit fails.                                          *)
(*                                                                         *)
(* With Overlap = FALSE requests come one at a time and this module        *)
(* implements Approval.                                                    *)
(***************************************************************************)
EXTENDS Naturals, Sequences

CONSTANTS
    Sessions,       \* concurrent requests
    Instances,      \* approval instances, all of one flow
    Chain,          \* the flow's nodes
    SentActions,    \* actions approvers take
    Overlap,        \* may requests overlap?
    MaxRequests,    \* bound: actions sent in all
    Nil             \* no session; no target

ASSUME ChainAssumption == Chain \in Seq(Nat) /\ Chain # <<>>
ASSUME OverlapAssumption == Overlap \in BOOLEAN
ASSUME ActionsAssumption ==
    SentActions \subseteq {"submit", "approve", "reject", "cancel", "withdraw", "delegate"}

VARIABLES
    instance,       \* committed rows of approval_instance: status and node
    task,           \* committed rows of approval_task of each instance
    lock,           \* session holding the row lock of <<i, k>>; <<i, 0>> is the instance's
    sess,           \* the request of each session
    published,      \* decisions published for each instance
    settled,        \* history: decisions committed for each instance
    sent            \* requests sent so far

vars == <<instance, task, lock, sess, published, settled, sent>>

-----------------------------------------------------------------------------
(* Data *)

Nodes == Len(Chain)

Task == [node : 0..Nodes, action : SentActions \cup {"none"}]

MaxTasks == MaxRequests + 1

Idle == [step |-> "idle"]

Busy(s) == sess[s].step # "idle"

At(s, step) == sess[s].step = step

Goto(s, step) == sess' = [sess EXCEPT ![s].step = step]

\* Mutant of Release: the transaction ends and its locks stay.
ReleaseNothing(s) == UNCHANGED lock

Release(s) == lock' = [row \in DOMAIN lock |-> IF lock[row] = s THEN Nil ELSE lock[row]]

-----------------------------------------------------------------------------
(* Steps of a request *)

\* An approver acts on a task on screen: pending when it was listed, maybe
\* not any more.  (`late` is history: the decision was there before the request.)
Send(s, i, k, action) ==
    /\ ~Busy(s)
    /\ Overlap \/ \A t \in Sessions : ~Busy(t)
    /\ sent < MaxRequests
    /\ sent' = sent + 1
    /\ sess' = [sess EXCEPT ![s] =
                  [step |-> "load_task", i |-> i, k |-> k, action |-> action, node |-> 0,
                   outcome |-> "none", late |-> instance[i].status # "pending"]]
    /\ UNCHANGED <<instance, task, lock, published, settled>>

\* "Task is not pending" or "Instance is not pending": the request is undone.
Refuse(s) ==
    /\ \/ At(s, "load_task") /\ task[sess[s].i][sess[s].k].action # "none"
       \/ At(s, "load_instance") /\ instance[sess[s].i].status # "pending"
    /\ sess' = [sess EXCEPT ![s] = Idle]
    /\ Release(s)
    /\ UNCHANGED <<instance, task, published, settled, sent>>

LoadTask(s) ==
    /\ At(s, "load_task")
    /\ task[sess[s].i][sess[s].k].action = "none"
    /\ Goto(s, "load_instance")
    /\ UNCHANGED <<instance, task, lock, published, settled, sent>>

\* Mutant of LoadInstance: the status of the instance is not checked.
LoadInstanceUnchecked(s) ==
    /\ At(s, "load_instance")
    /\ sess' = [sess EXCEPT ![s].step = "flush_task", ![s].node = instance[sess[s].i].node]
    /\ UNCHANGED <<instance, task, lock, published, settled, sent>>

\* Mutant of LoadInstance: current_node_index is not read again.
LoadInstanceFirstNode(s) ==
    /\ At(s, "load_instance")
    /\ instance[sess[s].i].status = "pending"
    /\ sess' = [sess EXCEPT ![s].step = "flush_task", ![s].node = 0]
    /\ UNCHANGED <<instance, task, lock, published, settled, sent>>

LoadInstance(s) ==
    /\ At(s, "load_instance")
    /\ instance[sess[s].i].status = "pending"
    /\ sess' = [sess EXCEPT ![s].step = "flush_task", ![s].node = instance[sess[s].i].node]
    /\ UNCHANGED <<instance, task, lock, published, settled, sent>>

Acquire(s, row) ==
    /\ lock[row] \in {Nil, s}
    /\ lock' = [lock EXCEPT ![row] = s]

FlushTask(s) ==
    /\ At(s, "flush_task")
    /\ Acquire(s, <<sess[s].i, sess[s].k>>)
    /\ Goto(s, "flush_instance")
    /\ UNCHANGED <<instance, task, published, settled, sent>>

\* Mutant of Outcome: the comparison with the length of the chain is not strict.
OutcomePastEnd(s) ==
    IF sess[s].action = "reject" THEN "rejected"
    ELSE IF sess[s].node + 1 <= Nodes THEN "advanced"
    ELSE "approved"

\* What approve decides from the node it loaded.
Outcome(s) ==
    IF sess[s].action = "reject" THEN "rejected"
    ELSE IF sess[s].node + 1 < Nodes THEN "advanced"
    ELSE "approved"

\* UPDATE of the instance (and INSERT of the next task), then the publication
\* of a decision.
FlushInstance(s) ==
    LET i == sess[s].i IN
    /\ At(s, "flush_instance")
    /\ Acquire(s, <<i, 0>>)
    /\ sess' = [sess EXCEPT ![s].step = "commit", ![s].outcome = Outcome(s)]
    /\ published' = IF Outcome(s) = "advanced" THEN published
                    ELSE [published EXCEPT ![i] = Append(@, Outcome(s))]
    /\ UNCHANGED <<instance, task, settled, sent>>

Commit(s) ==
    LET i == sess[s].i
        outcome == sess[s].outcome
        done == [task[i] EXCEPT ![sess[s].k].action = sess[s].action]
        next == sess[s].node + 1
    IN  /\ At(s, "commit")
        /\ IF outcome = "advanced"
           THEN /\ instance' = [instance EXCEPT ![i].node = next]
                /\ task' = [task EXCEPT ![i] = Append(done, [node |-> next, action |-> "none"])]
                /\ settled' = settled
           ELSE /\ instance' = [instance EXCEPT ![i].status = outcome]
                /\ task' = [task EXCEPT ![i] = done]
                /\ settled' = [settled EXCEPT ![i] = Append(@, outcome)]
        /\ Release(s)
        /\ sess' = [sess EXCEPT ![s] = Idle]
        /\ UNCHANGED <<published, sent>>

\* The connection is lost at the commit: the transaction is gone.
CommitFails(s) ==
    /\ At(s, "commit")
    /\ Release(s)
    /\ sess' = [sess EXCEPT ![s] = Idle]
    /\ UNCHANGED <<instance, task, published, settled, sent>>

-----------------------------------------------------------------------------
(* Specification *)

\* Every instance has just been submitted.
Init ==
    /\ instance = [i \in Instances |-> [status |-> "pending", node |-> 0]]
    /\ task = [i \in Instances |-> <<[node |-> 0, action |-> "none"]>>]
    /\ lock = [row \in Instances \X (0..MaxTasks) |-> Nil]
    /\ sess = [s \in Sessions |-> Idle]
    /\ published = [i \in Instances |-> <<>>]
    /\ settled = [i \in Instances |-> <<>>]
    /\ sent = 0

Step(s) ==
    \/ Refuse(s) \/ LoadTask(s) \/ LoadInstance(s) \/ FlushTask(s) \/ FlushInstance(s)
    \/ Commit(s) \/ CommitFails(s)

Next == \E s \in Sessions :
    \/ \E i \in Instances, action \in SentActions : \E k \in 1..Len(task[i]) : Send(s, i, k, action)
    \/ Step(s)

Spec == Init /\ [][Next]_vars

\* The event loop resumes every coroutine whose await is done.
FairSpec == Spec /\ \A s \in Sessions : WF_vars(Step(s))

-----------------------------------------------------------------------------
(* Properties *)

\* Type invariant.
TypeOK ==
    /\ \A i \in Instances :
          /\ instance[i] \in [status : {"pending", "approved", "rejected"}, node : 0..Nodes - 1]
          /\ Len(task[i]) \in 1..MaxTasks
          /\ \A k \in 1..Len(task[i]) : task[i][k] \in Task
    /\ \A row \in DOMAIN lock : lock[row] \in Sessions \cup {Nil}
    /\ \A s \in Sessions : sess[s].step \in {"idle", "load_task", "load_instance", "flush_task",
                                             "flush_instance", "commit"}
    /\ sent \in 0..MaxRequests

\* A decision is final for every request that comes after it: once the requests
\* that raced with the decision are over, the instance, its tasks (which that
\* race may have left open) and what was published stay as they are.
QuietDecisionIsFinal ==
    [][\A i \in Instances :
          (/\ instance[i].status # "pending"
           /\ \A s \in Sessions : (Busy(s) /\ sess[s].i = i) => sess[s].late) =>
             /\ instance'[i] = instance[i]
             /\ task'[i] = task[i]
             /\ published'[i] = published[i]]_vars

\* Every request ends: approvers wait for each other's rows, the task first
\* and then the instance, without a cycle and without a lock left behind.
RequestsEnd == \A s \in Sessions : Busy(s) ~> ~Busy(s)

\* An approval flow is a multi-level one: an approved instance has a settled
\* task for every node of its chain.
ChainIsSigned ==
    \A i \in Instances : instance[i].status = "approved" =>
        \A n \in 0..Nodes - 1 :
            \E k \in 1..Len(task[i]) : task[i][k].node = n /\ task[i][k].action # "none"

\* Requests one at a time take the steps of Approval, from the state in which
\* every instance has been submitted.
Serial == INSTANCE Approval WITH
    Flows <- {Chain}, Codes <- {"code"}, Chains <- {Chain}, Targets <- {"target"},
    MaxVersion <- 1,
    flow <- [f \in {Chain} |->
               [code |-> "code", nodes |-> Chain, status |-> "active", version |-> 1]],
    instance <- [i \in Instances |-> [flow |-> Chain, target |-> "target",
                   status |-> instance[i].status, node |-> instance[i].node]],
    announced <- settled,
    submitted <- [i \in Instances |-> 1]

ImplementsApproval == [][Serial!Next]_<<instance, task, settled>>
=============================================================================
