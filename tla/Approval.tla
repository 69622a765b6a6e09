------------------------------- MODULE Approval -------------------------------
(***************************************************************************)
(* ApprovalService (shared/workflow/service.py) and the flow routes of     *)
(* approval_router.py, one request at a time.  A flow is a chain of nodes; *)
(* submitting a document opens an instance with one task for the first     *)
(* node, and each action on the open task rejects the instance, opens the  *)
(* task of the next node, or approves the instance.  The decision is       *)
(* announced as an ApprovalCompleted event.                                *)
(*                                                                         *)
(* Flows are edited while instances run: an instance keeps the id of its   *)
(* flow and an index into the chain, and reads the chain as it is now.     *)
(***************************************************************************)
EXTENDS Naturals, Sequences

CONSTANTS
    Flows,          \* ids of flow definitions
    Codes,          \* flow codes
    Chains,         \* node lists clients send: the min_approvals of each node
    Instances,      \* ids of approval instances
    Targets,        \* documents submitted for approval
    Nil,            \* no code, no flow, no target, no action yet
    MaxVersion      \* bound: edits of a flow

ASSUME ChainsAssumption == Chains \subseteq Seq(Nat)
ASSUME NilAssumption == Nil \notin Codes /\ Nil \notin Flows /\ Nil \notin Targets
ASSUME VersionAssumption == MaxVersion \in Nat

VARIABLES
    flow,           \* approval_flow_definition
    instance,       \* approval_instance
    task,           \* approval_task: the tasks of each instance, in order
    announced,      \* decisions published for each instance
    submitted       \* history: version of the flow when the instance was submitted

vars == <<flow, instance, task, announced, submitted>>

-----------------------------------------------------------------------------
(* Data *)

Actions == {"submit", "approve", "reject", "cancel", "withdraw", "delegate"}

Decisions == {"approved", "rejected"}

Flow == [code : Codes \cup {Nil}, nodes : Seq(Nat), status : {"none", "active", "inactive"},
         version : 0..MaxVersion]

Instance == [flow : Flows \cup {Nil}, target : Targets \cup {Nil},
             status : {"none", "pending"} \cup Decisions, node : Nat]

\* A task is pending until it has an action; both are set together.
Task == [node : Nat, action : Actions \cup {"none"}]

\* Mutant of OpenTask: the status is stored as the action.
OpenTaskMixed(node) == [node |-> node, action |-> "pending"]

OpenTask(node) == [node |-> node, action |-> "none"]

NoFlow == [code |-> Nil, nodes |-> <<>>, status |-> "none", version |-> 0]

NoInstance == [flow |-> Nil, target |-> Nil, status |-> "none", node |-> 0]

Decided(i) == instance[i].status \in Decisions

-----------------------------------------------------------------------------
(* Flow definitions *)

\* _get_flow_by_code looks for active flows only.
Active(code) == {f \in Flows : flow[f].code = code /\ flow[f].status = "active"}

\* define_flow: refused while an active flow has the code.
define_flow(f, code, nodes) ==
    /\ flow[f].status = "none"
    /\ Active(code) = {}
    /\ MaxVersion > 0
    /\ flow' = [flow EXCEPT ![f] =
                  [code |-> code, nodes |-> nodes, status |-> "active", version |-> 1]]
    /\ UNCHANGED <<instance, task, announced, submitted>>

\* PUT /flows/{id}: new nodes for a flow that may have running instances.
update_flow(f, nodes) ==
    /\ flow[f].status # "none"
    /\ flow[f].version < MaxVersion
    /\ flow' = [flow EXCEPT ![f] = [code |-> @.code, nodes |-> nodes, status |-> @.status,
                                    version |-> @.version + 1]]
    /\ UNCHANGED <<instance, task, announced, submitted>>

deactivate_flow(f) ==
    /\ flow[f].status # "none"
    /\ flow' = [flow EXCEPT ![f].status = "inactive"]
    /\ UNCHANGED <<instance, task, announced, submitted>>

activate_flow(f) ==
    /\ flow[f].status # "none"
    /\ flow' = [flow EXCEPT ![f].status = "active"]
    /\ UNCHANGED <<instance, task, announced, submitted>>

-----------------------------------------------------------------------------
(* Instances *)

\* Refused when the code has no active flow, several (scalar_one_or_none
\* raises), or an empty chain.
submit(i, f, target) ==
    /\ instance[i].status = "none"
    /\ Active(flow[f].code) = {f}
    /\ flow[f].nodes # <<>>
    /\ instance' = [instance EXCEPT ![i] =
                      [flow |-> f, target |-> target, status |-> "pending", node |-> 0]]
    /\ task' = [task EXCEPT ![i] = <<OpenTask(0)>>]
    /\ submitted' = [submitted EXCEPT ![i] = flow[f].version]
    /\ UNCHANGED <<flow, announced>>

\* The checks every action on a task starts with.
Actionable(i, k) ==
    /\ k \in 1..Len(task[i])
    /\ task[i][k].action = "none"
    /\ instance[i].status = "pending"

Completed(i, k, action) == [task[i] EXCEPT ![k] = [node |-> task[i][k].node, action |-> action]]

Moved(i, status, node) ==
    [flow |-> instance[i].flow, target |-> instance[i].target, status |-> status, node |-> node]

\* approve with action reject.
reject(i, k) ==
    /\ Actionable(i, k)
    /\ task' = [task EXCEPT ![i] = Completed(i, k, "reject")]
    /\ instance' = [instance EXCEPT ![i] = Moved(i, "rejected", instance[i].node)]
    /\ announced' = [announced EXCEPT ![i] = Append(@, "rejected")]
    /\ UNCHANGED <<flow, submitted>>

NextNode(i) == instance[i].node + 1

\* Mutant of HasNextNode: the chain ends one node early.
HasNextNodeEarly(i) == NextNode(i) + 1 < Len(flow[instance[i].flow].nodes)

HasNextNode(i) == NextNode(i) < Len(flow[instance[i].flow].nodes)

\* Mutant of advance: the acted task is left open.
advance_unsettled(i, k, action) ==
    /\ Actionable(i, k)
    /\ action # "reject"
    /\ HasNextNode(i)
    /\ instance' = [instance EXCEPT ![i] = Moved(i, "pending", NextNode(i))]
    /\ task' = [task EXCEPT ![i] = Append(@, OpenTask(NextNode(i)))]
    /\ UNCHANGED <<flow, announced, submitted>>

\* approve with any other action, before the last node of the chain.
advance(i, k, action) ==
    /\ Actionable(i, k)
    /\ action # "reject"
    /\ HasNextNode(i)
    /\ instance' = [instance EXCEPT ![i] = Moved(i, "pending", NextNode(i))]
    /\ task' = [task EXCEPT ![i] = Append(Completed(i, k, action), OpenTask(NextNode(i)))]
    /\ UNCHANGED <<flow, announced, submitted>>

\* Mutant of finish: the event is published before the last node is known.
finish_announced_twice(i, k, action) ==
    /\ Actionable(i, k)
    /\ action # "reject"
    /\ ~HasNextNode(i)
    /\ task' = [task EXCEPT ![i] = Completed(i, k, action)]
    /\ instance' = [instance EXCEPT ![i] = Moved(i, "approved", instance[i].node)]
    /\ announced' = [announced EXCEPT ![i] = @ \o <<"approved", "approved">>]
    /\ UNCHANGED <<flow, submitted>>

\* approve with any other action, at the last node of the chain.
finish(i, k, action) ==
    /\ Actionable(i, k)
    /\ action # "reject"
    /\ ~HasNextNode(i)
    /\ task' = [task EXCEPT ![i] = Completed(i, k, action)]
    /\ instance' = [instance EXCEPT ![i] = Moved(i, "approved", instance[i].node)]
    /\ announced' = [announced EXCEPT ![i] = Append(@, "approved")]
    /\ UNCHANGED <<flow, submitted>>

-----------------------------------------------------------------------------
(* Specification *)

Init ==
    /\ flow = [f \in Flows |-> NoFlow]
    /\ instance = [i \in Instances |-> NoInstance]
    /\ task = [i \in Instances |-> <<>>]
    /\ announced = [i \in Instances |-> <<>>]
    /\ submitted = [i \in Instances |-> 0]

FlowStep(f) ==
    \/ \E code \in Codes, nodes \in Chains : define_flow(f, code, nodes)
    \/ \E nodes \in Chains : update_flow(f, nodes)
    \/ deactivate_flow(f)
    \/ activate_flow(f)

approve(i) ==
    \E k \in 1..Len(task[i]), action \in Actions :
        \/ action = "reject" /\ reject(i, k)
        \/ advance(i, k, action)
        \/ finish(i, k, action)

Next ==
    \/ \E f \in Flows : FlowStep(f)
    \/ \E i \in Instances, f \in Flows, target \in Targets : submit(i, f, target)
    \/ \E i \in Instances : approve(i)

Spec == Init /\ [][Next]_vars

-----------------------------------------------------------------------------
(* Properties *)

\* Type invariant.
TypeOK ==
    /\ flow \in [Flows -> Flow]
    /\ instance \in [Instances -> Instance]
    /\ task \in [Instances -> Seq(Task)]
    /\ announced \in [Instances -> Seq(Decisions)]
    /\ submitted \in [Instances -> 0..MaxVersion]

\* The tasks of an instance are its history: one per node reached, in order,
\* all settled but the last, which is open exactly while the instance is
\* pending.  So a pending instance can always be acted on, by one task only,
\* and nothing is left in anyone's task list once it is decided.
OneOpenTask ==
    \A i \in Instances : instance[i].status # "none" =>
        /\ Len(task[i]) = NextNode(i)
        /\ \A k \in 1..Len(task[i]) :
              /\ task[i][k].node + 1 = k
              /\ task[i][k].action = "none" <=> (k = Len(task[i]) /\ ~Decided(i))

\* A decision is announced once, and it is the one that the instance and the
\* last task record: rejected by the last task, approved with no rejection.
DecisionsAnnounced ==
    \A i \in Instances :
        /\ announced[i] = IF Decided(i) THEN <<instance[i].status>> ELSE <<>>
        /\ instance[i].status = "rejected" <=>
              \E k \in 1..Len(task[i]) : task[i][k].action = "reject"

\* An instance is approved with every node of its chain signed, unless the
\* chain was edited after the instance was submitted.
EveryNodeSigned ==
    \A i \in Instances :
        (instance[i].status = "approved" /\ submitted[i] = flow[instance[i].flow].version)
            => Len(task[i]) = Len(flow[instance[i].flow].nodes)

\* ApprovalStatus has "withdrawn" and "cancelled" beside "approved": a request
\* that was withdrawn or cancelled does not end approved.
WithdrawnNotApproved ==
    \A i \in Instances :
        (\E k \in 1..Len(task[i]) : task[i][k].action \in {"withdraw", "cancel"})
            => instance[i].status # "approved"
=============================================================================
