---------------------------- MODULE Orchestration ----------------------------
(***************************************************************************)
(* The two engines that run processes of several steps, each in the memory *)
(* of one server: the saga orchestrator and the workflow engine of the     *)
(* middleware.                                                             *)
(***************************************************************************)
EXTENDS Integers, Sequences, FiniteSets

-----------------------------------------------------------------------------
(* SagaOrchestrator: the steps of a saga run one after the other; when one *)
(* fails the completed ones are to be compensated in reverse order.        *)

CONSTANTS
    Instances,     \* started sagas
    MaxSteps       \* bound: steps of a saga

ASSUME SagaAssumption == MaxSteps \in Nat

VARIABLE saga      \* Instances -> the instance, and the execution of start()

sagaVars == <<saga>>

\* call: whether start() has yet to run, runs, returned or raised;
\* at: the step it is at; back: the step that is to be compensated next.
NotStarted(n) ==
    [steps |-> n, status |-> "pending", step |-> [i \in 1..n |-> "pending"],
     call |-> "none", at |-> 0, back |-> 0]

Start(s) ==
    /\ saga[s].call = "none"
    /\ saga' = [saga EXCEPT ![s].status = "started", ![s].call = "runs"]

Forward(s) == saga[s].call = "runs" /\ saga[s].status = "started"

\* The status of the step the saga is at.
AtStep(s) == IF saga[s].at = 0 THEN "none" ELSE saga[s].step[saga[s].at]

Execute(s) ==
    /\ Forward(s)
    /\ saga[s].at < saga[s].steps
    /\ AtStep(s) \in {"none", "completed"}
    /\ saga' = [saga EXCEPT ![s].at = @ + 1, ![s].step[saga[s].at + 1] = "executing"]

\* A step without an action completes as well.
StepCompletes(s) ==
    /\ Forward(s)
    /\ AtStep(s) = "executing"
    /\ saga' = [saga EXCEPT ![s].step[saga[s].at] = "completed"]

\* Mutant of StepFails: the saga is left as 'failed'.
StepFailsOnly(s) ==
    /\ Forward(s)
    /\ AtStep(s) = "executing"
    /\ saga' = [saga EXCEPT ![s].step[saga[s].at] = "failed", ![s].status = "failed"]

\* The status 'failed' is overwritten before anything is awaited.
StepFails(s) ==
    /\ Forward(s)
    /\ AtStep(s) = "executing"
    /\ saga' = [saga EXCEPT ![s].step[saga[s].at] = "failed",
                            ![s].status = "compensating", ![s].back = saga[s].at - 1]

\* Mutant of CompensateNext: statuses are read from the instance, but in order.
CompensateNextSkips(s) ==
    /\ saga[s].call = "runs" /\ saga[s].status = "compensating" /\ saga[s].back > 0
    /\ saga' = [saga EXCEPT ![s].back = 0]

\* The loop reads step_statuses of the step, which only instances have: the
\* AttributeError leaves _compensate and start().
CompensateNext(s) ==
    /\ saga[s].call = "runs" /\ saga[s].status = "compensating" /\ saga[s].back > 0
    /\ saga' = [saga EXCEPT ![s].call = "raised"]

\* Mutant of EndCompensation: also when completed steps are left.
EndCompensationEarly(s) ==
    /\ saga[s].call = "runs" /\ saga[s].status = "compensating"
    /\ saga' = [saga EXCEPT ![s].status = "compensated", ![s].call = "returned"]

EndCompensation(s) ==
    /\ saga[s].call = "runs" /\ saga[s].status = "compensating" /\ saga[s].back = 0
    /\ saga' = [saga EXCEPT ![s].status = "compensated", ![s].call = "returned"]

Complete(s) ==
    /\ Forward(s)
    /\ saga[s].at = saga[s].steps
    /\ AtStep(s) \in {"none", "completed"}
    /\ saga' = [saga EXCEPT ![s].status = "completed", ![s].call = "returned"]

SagaInit == saga \in [Instances -> {NotStarted(n) : n \in 0..MaxSteps}]

Proceed(s) ==
    \/ Execute(s) \/ StepCompletes(s) \/ StepFails(s)
    \/ CompensateNext(s) \/ EndCompensation(s) \/ Complete(s)

SagaNext == \E s \in Instances : Start(s) \/ Proceed(s)

\* A step's action returns or raises: nothing but the step itself waits.
SagaFairness == \A s \in Instances : WF_sagaVars(Proceed(s))

SagaSpec == SagaInit /\ [][SagaNext]_sagaVars /\ SagaFairness

Completed(s) == {i \in 1..saga[s].steps : saga[s].step[i] = "completed"}

\* What the status of an ended saga tells: 'completed' that every step is,
\* 'compensated' that no step is left completed; a saga whose second or later
\* step fails ends in neither, it stays 'compensating' for ever.
StatusTellsSteps ==
    \A s \in Instances :
        /\ saga[s].status = "completed" => Completed(s) = 1..saga[s].steps
        /\ saga[s].status = "compensated" => Completed(s) = {}
        /\ saga[s].call = "raised" =>
              saga[s].status = "compensating" /\ \E i \in 2..saga[s].steps :
                  Completed(s) = 1..(i - 1) /\ saga[s].step[i] = "failed"

\* A started saga ends, even if by an exception.
SagasEnd ==
    \A s \in Instances : saga[s].call = "runs" ~> saga[s].call \in {"returned", "raised"}

\* What a caller of start() may rely on.
SagasAreSound == []StatusTellsSteps /\ SagasEnd

-----------------------------------------------------------------------------
(* WorkflowEngine: instances of flow definitions, each operation without an *)
(* await.  A node's tasks go to all its assignees; any of them moves the    *)
(* instance on, and the others stay open.                                   *)

CONSTANTS
    Flows,       \* instances, each of a definition
    NodesOf,     \* Flows -> the assignees of each node, a sequence of sequences
    MaxTasks     \* bound: tasks ever opened

ASSUME WorkflowAssumption ==
    /\ NodesOf \in [Flows -> Seq(Seq(STRING))]
    /\ \A f \in Flows : Len(NodesOf[f]) > 0 /\ \A n \in 1..Len(NodesOf[f]) : Len(NodesOf[f][n]) > 0

VARIABLES
    flow,        \* Flows -> status and current node
    flowTasks    \* the tasks of all instances, in the order they were opened

workflowVars == <<flow, flowTasks>>

NoInstance == [status |-> "none", node |-> 0]

LastNode(f) == Len(NodesOf[f])

\* One task for every assignee of node n.
Opened(f, n) ==
    [i \in DOMAIN NodesOf[f][n] |-> [flow |-> f, node |-> n, status |-> "pending"]]

StartInstance(f) ==
    /\ flow[f] = NoInstance
    /\ flow' = [flow EXCEPT ![f] = [status |-> "running", node |-> 1]]
    /\ flowTasks' = flowTasks \o Opened(f, 1)

Pending(t) == flowTasks[t].status = "pending"

Decided(t, action) == [flowTasks EXCEPT ![t].status = action]

\* What has become of the instance does not matter.
RejectTask(t) ==
    /\ Pending(t)
    /\ flow' = [flow EXCEPT ![flowTasks[t].flow].status = "rejected"]
    /\ flowTasks' = Decided(t, "rejected")

\* A task that is cancelled counts as one that is approved.
Onward == {"approved", "cancelled"}

\* Mutant of AdvanceTask: the tasks of the next node are opened only once.
AdvanceTaskOnce(t, action) ==
    LET f == flowTasks[t].flow
        next == flowTasks[t].node + 1
    IN  /\ Pending(t) /\ next <= LastNode(f)
        /\ flow' = [flow EXCEPT ![f].node = next]
        /\ flowTasks' = IF \E u \in DOMAIN flowTasks : flowTasks[u].flow = f /\ flowTasks[u].node = next
                        THEN Decided(t, action) ELSE Decided(t, action) \o Opened(f, next)

\* The node after the task's, not after the current one.
AdvanceTask(t, action) ==
    LET f == flowTasks[t].flow
        next == flowTasks[t].node + 1
    IN  /\ Pending(t) /\ next <= LastNode(f)
        /\ Len(flowTasks) + Len(NodesOf[f][next]) <= MaxTasks
        /\ flow' = [flow EXCEPT ![f].node = next]
        /\ flowTasks' = Decided(t, action) \o Opened(f, next)

FinishTask(t, action) ==
    LET f == flowTasks[t].flow IN
    /\ Pending(t) /\ flowTasks[t].node = LastNode(f)
    /\ flow' = [flow EXCEPT ![f].status = "completed"]
    /\ flowTasks' = Decided(t, action)

WorkflowRestart ==
    /\ flow' = [f \in Flows |-> NoInstance]
    /\ flowTasks' = <<>>

WorkflowInit ==
    /\ flow = [f \in Flows |-> NoInstance]
    /\ flowTasks = <<>>

WorkflowNext ==
    \/ \E f \in Flows : StartInstance(f)
    \/ \E t \in DOMAIN flowTasks :
          RejectTask(t) \/ \E action \in Onward : AdvanceTask(t, action) \/ FinishTask(t, action)
    \/ WorkflowRestart

\* A flow that runs has an open task at its current node, however often tasks
\* of earlier nodes sent it back there; a completed one had a task of every
\* node approved or cancelled.
FlowsGoOn ==
    \A f \in Flows :
        /\ flow[f].status = "running" =>
               \E t \in DOMAIN flowTasks :
                   Pending(t) /\ flowTasks[t].flow = f /\ flowTasks[t].node = flow[f].node
        /\ flow[f].status = "completed" =>
               \A n \in 1..LastNode(f) : \E t \in DOMAIN flowTasks :
                   /\ flowTasks[t].flow = f /\ flowTasks[t].node = n
                   /\ flowTasks[t].status \in Onward

\* An outcome is final where every node has a single assignee.  (Where a node
\* has two, the second decides over an instance that has ended.)
OutcomesStay ==
    [][\A f \in Flows :
          /\ flow[f].status \in {"completed", "rejected"}
          /\ \A n \in 1..LastNode(f) : Len(NodesOf[f][n]) = 1
          => flow'[f] \in {flow[f], NoInstance}]_workflowVars
=============================================================================
